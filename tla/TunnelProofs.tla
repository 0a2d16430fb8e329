----------------------------- MODULE TunnelProofs -----------------------------
(***************************************************************************)
(* Theorems about the parts of gole, for any keys, key lengths, process    *)
(* IDs, applications, requests, chunks and SOCKS5 handlers.                *)
(***************************************************************************)
EXTENDS Gole, TLAPS, WellFoundedInduction, SequenceTheorems, FiniteSetTheorems

-----------------------------------------------------------------------------
(* Arithmetic modulo k. *)

LEMMA Euclid ==
    ASSUME NEW k \in Nat \ {0}, NEW x \in Nat
    PROVE  x = k * (x \div k) + (x % k) /\ x \div k \in Nat /\ x % k \in 0..(k - 1)
  OBVIOUS

LEMMA RemainderUnique ==
    ASSUME NEW k \in Nat \ {0}, NEW a \in Nat, NEW b \in Nat,
           NEW u \in 0..(k - 1), NEW v \in 0..(k - 1), k * a + u = k * b + v
    PROVE  u = v
<1>1. ASSUME NEW c \in Nat, NEW d \in Nat, c < d, NEW x \in 0..(k - 1), NEW y \in 0..(k - 1)
      PROVE  k * c + x # k * d + y
  <2>1. PICK e \in Nat : d = c + 1 + e
    <3>1. d - c - 1 \in Nat /\ d = c + 1 + (d - c - 1)
      BY <1>1
    <3>2. QED
      BY <3>1
  <2>2. k * d = k * c + k + k * e
    BY <2>1
  <2>3. k * e \in Nat /\ k * c \in Nat
    OBVIOUS
  <2>4. QED
    BY <2>2, <2>3
<1>2. ~(a < b) /\ ~(b < a)
  BY <1>1
<1>3. QED
  BY <1>2

LEMMA MultipleAdded ==
    ASSUME NEW k \in Nat \ {0}, NEW q \in Nat, NEW y \in Nat
    PROVE  (k * q + y) % k = y % k
<1> DEFINE z == k * q + y
<1>1. z \in Nat
  <2>1. k * q \in Nat
    OBVIOUS
  <2>2. QED
    BY <2>1
<1>2. z = k * (z \div k) + (z % k) /\ z \div k \in Nat /\ z % k \in 0..(k - 1)
  BY <1>1, Euclid
<1>3. y = k * (y \div k) + (y % k) /\ y \div k \in Nat /\ y % k \in 0..(k - 1)
  BY Euclid
<1>4. PICK a \in Nat : a = y \div k
  BY <1>3
<1>5. PICK u \in 0..(k - 1) : u = y % k
  BY <1>3
<1>6. PICK b \in Nat : b = z \div k
  BY <1>2
<1>7. PICK v \in 0..(k - 1) : v = z % k
  BY <1>2
<1>8. k * b + v = k * q + k * a + u
  <2>1. z = k * b + v
    BY <1>2, <1>6, <1>7
  <2>2. y = k * a + u
    BY <1>3, <1>4, <1>5
  <2>3. k * q \in Nat /\ k * a \in Nat
    OBVIOUS
  <2>4. QED
    BY <2>1, <2>2, <2>3
<1>9. k * (q + a) = k * q + k * a
  OBVIOUS
<1>10. v = u
  <2> HIDE DEF z
  <2>1. q + a \in Nat
    OBVIOUS
  <2>2. k * b + v = k * (q + a) + u
    BY <1>8, <1>9
  <2>3. QED
    BY <2>1, <2>2, RemainderUnique
<1>11. QED
  BY <1>5, <1>7, <1>10

LEMMA ModuloSum ==
    ASSUME NEW k \in Nat \ {0}, NEW x \in Nat, NEW y \in Nat
    PROVE  ((x % k) + y) % k = (x + y) % k
<1>1. PICK q \in Nat, u \in 0..(k - 1) : x = k * q + u /\ u = x % k
  BY Euclid
<1>2. u + y \in Nat
  OBVIOUS
<1>3. (k * q + (u + y)) % k = (u + y) % k
  BY <1>2, MultipleAdded
<1>4. k * q + (u + y) = x + y
  BY <1>1
<1>5. QED
  BY <1>1, <1>3, <1>4

LEMMA LeastNat ==
    ASSUME NEW T \in SUBSET Nat, T # {}
    PROVE  \E x \in T : \A y \in T : ~(y < x)
<1>1. \E x \in T : \A y \in T : ~ (<<y, x>> \in OpToRel(<,Nat))
  BY WFMin, NatLessThanWellFounded
<1>2. QED
  BY <1>1 DEF OpToRel

-----------------------------------------------------------------------------
(* What the loop of the cipher runs through. *)

Positions == 0..(KeyLen - 1)

\* The positions of n bytes, byte by byte.
Keys(i, n) == [j \in 1..n |-> (i + j - 1) % KeyLen]

LEMMA KeysType ==
    ASSUME NEW i \in Positions, NEW n \in Nat
    PROVE  /\ Keys(i, n) \in Seq(Positions) /\ Len(Keys(i, n)) = n
           /\ \A j \in 1..n : Keys(i, n)[j] = (i + j - 1) % KeyLen
<1>1. \A j \in 1..n : (i + j - 1) % KeyLen \in Positions
  BY PunchTCPAssumption DEF Positions
<1>2. QED
  BY <1>1 DEF Keys

LEMMA KeysJoin ==
    ASSUME NEW i \in Positions, NEW n \in Nat, NEW m \in Nat
    PROVE  Keys(i, n) \o Keys((i + n) % KeyLen, m) = Keys(i, n + m)
<1> DEFINE k == (i + n) % KeyLen
<1>1. k \in Positions /\ n + m \in Nat /\ k \in Nat
  BY PunchTCPAssumption DEF Positions
<1>2. ASSUME NEW j \in 1..m
      PROVE (k + j - 1) % KeyLen = (i + (n + j) - 1) % KeyLen
  <2>1. i \in Nat /\ i + n \in Nat /\ j - 1 \in Nat
    BY PunchTCPAssumption DEF Positions
  <2>2. (((i + n) % KeyLen) + (j - 1)) % KeyLen = ((i + n) + (j - 1)) % KeyLen
    BY <2>1, ModuloSum, PunchTCPAssumption
  <2>3. k + j - 1 = k + (j - 1) /\ i + (n + j) - 1 = (i + n) + (j - 1)
    BY <1>1, <2>1
  <2>4. QED
    BY <2>2, <2>3
<1> HIDE DEF k
<1>3. PICK s \in Seq(Positions) :
          s = Keys(i, n) /\ Len(s) = n /\ \A j \in 1..n : s[j] = (i + j - 1) % KeyLen
  BY KeysType
<1>4. PICK t \in Seq(Positions) :
          t = Keys(k, m) /\ Len(t) = m /\ \A j \in 1..m : t[j] = (k + j - 1) % KeyLen
  BY <1>1, KeysType
<1>5. PICK u \in Seq(Positions) :
          u = Keys(i, n + m) /\ Len(u) = n + m /\ \A j \in 1..(n + m) : u[j] = (i + j - 1) % KeyLen
  BY <1>1, KeysType
<1>6. /\ s \o t \in Seq(Positions) /\ Len(s \o t) = n + m
      /\ \A j \in 1..(n + m) : (s \o t)[j] = IF j <= n THEN s[j] ELSE t[j - n]
  <2>1. s \in Seq(Positions) /\ t \in Seq(Positions) /\ Len(s) = n /\ Len(t) = m
    BY <1>3, <1>4
  <2>2. /\ s \o t \in Seq(Positions) /\ Len(s \o t) = Len(s) + Len(t)
        /\ \A j \in 1 .. Len(s) + Len(t) : (s \o t)[j] =
                       IF j <= Len(s) THEN s[j] ELSE t[j - Len(s)]
    BY <2>1, ConcatProperties
  <2>3. QED
    BY <2>1, <2>2
<1>7. ASSUME NEW j \in 1..(n + m)
      PROVE  (s \o t)[j] = u[j]
  <2>1. CASE j <= n
    BY <1>3, <1>5, <1>6, <2>1
  <2>2. CASE j > n
    <3>1. j - n \in 1..m /\ (s \o t)[j] = t[j - n]
      BY <1>6, <2>2
    <3>2. t[j - n] = (k + (j - n) - 1) % KeyLen
      BY <1>4, <3>1
    <3>3. (k + (j - n) - 1) % KeyLen = (i + (n + (j - n)) - 1) % KeyLen
      BY <1>2, <3>1
    <3>4. n + (j - n) = j
      OBVIOUS
    <3>5. QED
      BY <1>5, <3>1, <3>2, <3>3, <3>4
  <2>3. j <= n \/ j > n
    OBVIOUS
  <2>4. QED
    BY <2>1, <2>2, <2>3
<1>8. s \o t = u
  BY <1>5, <1>6, <1>7, SeqEqual
<1>9. QED
  BY <1>3, <1>4, <1>5, <1>8 DEF k

\* One unfolding of KeyRun.
RunStep(f, n) == [i \in Positions |->
    LET ct == FirstRun(i, n)
    IN  IF n = 0 THEN <<>>
        ELSE [j \in 1..ct |-> i + j - 1] \o f[n - ct][(i + ct) % KeyLen]]

LEMMA RunType ==
    ASSUME NEW i \in Positions, NEW n \in Nat \ {0}
    PROVE  /\ FirstRun(i, n) \in 1..n /\ i + FirstRun(i, n) \in 1..KeyLen
           /\ n - FirstRun(i, n) \in 0..(n - 1)
           /\ (i + FirstRun(i, n)) % KeyLen \in Positions
  BY PunchTCPAssumption DEF FirstRun, Positions

AllKeys(n) == [i \in Positions |-> Keys(i, n)]

LEMMA RunStepKeys ==
    ASSUME NEW n \in Nat, NEW f, \A m \in 0..(n - 1) : f[m] = AllKeys(m)
    PROVE  RunStep(f, n) = AllKeys(n)
<1>1. CASE n = 0
  BY <1>1 DEF RunStep, Keys, AllKeys
<1>2. ASSUME n # 0, NEW i \in Positions
      PROVE  [j \in 1..FirstRun(i, n) |-> i + j - 1]
                 \o f[n - FirstRun(i, n)][(i + FirstRun(i, n)) % KeyLen] = Keys(i, n)
  <2>1. PICK ct \in Nat :
            /\ ct = FirstRun(i, n) /\ ct \in 1..n /\ i + ct \in 1..KeyLen
            /\ n - ct \in 0..(n - 1) /\ (i + ct) % KeyLen \in Positions
    BY <1>2, RunType
  <2>2. [j \in 1..ct |-> i + j - 1] = Keys(i, ct)
    <3>1. \A j \in 1..ct : i + j - 1 \in Positions
      BY <2>1, PunchTCPAssumption DEF Positions
    <3>2. \A j \in 1..ct : (i + j - 1) % KeyLen = i + j - 1
      BY <3>1, PunchTCPAssumption DEF Positions
    <3>3. QED
      BY <3>2 DEF Keys
  <2>3. Keys(i, ct) \o Keys((i + ct) % KeyLen, n - ct) = Keys(i, ct + (n - ct))
    <3>1. n - ct \in Nat
      BY <2>1
    <3>2. QED
      BY <3>1, KeysJoin
  <2>4. ct + (n - ct) = n
    BY <2>1
  <2>5. f[n - ct][(i + ct) % KeyLen] = Keys((i + ct) % KeyLen, n - ct)
    BY <2>1 DEF AllKeys
  <2>6. QED
    BY <2>1, <2>2, <2>3, <2>4, <2>5
<1>3. QED
  BY <1>1, <1>2 DEF RunStep, AllKeys

\* The recursive definition of KeyRun defines a function: AllKeys solves it, and
\* so does what CHOOSE takes.
LEMMA KeyRunUnfolds == KeyRun = [n \in Nat |-> RunStep(KeyRun, n)]
<1> DEFINE Solves(f) == f = [n \in Nat |-> RunStep(f, n)]
           g == [n \in Nat |-> AllKeys(n)]
<1>1. Solves(g)
  <2>1. ASSUME NEW n \in Nat
        PROVE  RunStep(g, n) = AllKeys(n)
    <3>1. \A m \in 0..(n - 1) : g[m] = AllKeys(m)
      OBVIOUS
    <3>2. QED
      BY <3>1, RunStepKeys
  <2>2. QED
    BY <2>1
<1>2. KeyRun = CHOOSE f : Solves(f)
  BY DEF KeyRun, RunStep, Positions
<1> HIDE DEF Solves
<1>3. Solves(KeyRun)
  BY <1>1, <1>2
<1>4. QED
  BY <1>3 DEF Solves

\* From any position the loop goes through the key in order, and round and round;
\* by the least n for which it would not.
LEMMA KeyRunKeys ==
    ASSUME NEW n \in Nat, NEW i \in Positions
    PROVE  KeyRun[n][i] = Keys(i, n)
<1> DEFINE T == {m \in Nat : KeyRun[m] # AllKeys(m)}
<1>1. T = {}
  <2>1. SUFFICES ASSUME T # {}
                 PROVE  FALSE
    OBVIOUS
  <2>2. PICK m \in T : \A y \in T : ~(y < m)
    BY <2>1, LeastNat
  <2>3. \A k \in 0..(m - 1) : KeyRun[k] = AllKeys(k)
    BY <2>2
  <2>4. RunStep(KeyRun, m) = AllKeys(m)
    BY <2>3, RunStepKeys
  <2>5. KeyRun[m] = RunStep(KeyRun, m)
    BY KeyRunUnfolds
  <2>6. QED
    BY <2>4, <2>5
<1>2. QED
  BY <1>1 DEF AllKeys

-----------------------------------------------------------------------------
(* PunchTCP and the cipher stream. *)

\* A direction of the connection is the key, over and over from its start, and
\* the index is where the next byte stands in it.
InStep(s, i) == /\ s \in Seq(Positions) /\ i \in Positions
                /\ s = Keys(0, Len(s)) /\ i = Len(s) % KeyLen

CipherInv ==
    /\ enc \in [Peers -> Seq(Positions)] /\ dec \in [Peers -> Seq(Positions)]
    /\ keyWI \in [Peers -> Positions] /\ keyRI \in [Peers -> Positions]
    /\ punch \in [Peers -> {"dial", "write", "read", "ok", "error", "gone"}]
    /\ \A p \in Peers : InStep(enc[p], keyWI[p]) /\ InStep(dec[p], keyRI[p])
    /\ \A p \in Peers : Len(dec[p]) <= Len(enc[Other(p)])
    /\ \A p \in Peers : punch[p] = "ok" => sameKey /\ Len(dec[p]) >= AuthLen

\* n more bytes on a direction that has used its key in order so far.
LEMMA StreamGrows ==
    ASSUME NEW s, NEW i, NEW n \in Nat, InStep(s, i)
    PROVE  \E e \in Seq(Positions) :
              /\ e = s \o KeyRun[n][i]
              /\ Len(e) = Len(s) + n
              /\ InStep(e, Advance(i, n))
<1>1. Len(s) \in Nat /\ 0 \in Positions /\ KeyLen \in Nat \ {0}
  BY PunchTCPAssumption DEF Positions, InStep
<1>2. KeyRun[n][i] = Keys(i, n)
  BY KeyRunKeys DEF InStep
<1>3. Keys(0, Len(s)) \o Keys((0 + Len(s)) % KeyLen, n) = Keys(0, Len(s) + n)
  BY <1>1, KeysJoin
<1>4. 0 + Len(s) = Len(s)
  BY <1>1
<1>5. s \o KeyRun[n][i] = Keys(0, Len(s) + n)
  BY <1>2, <1>3, <1>4 DEF InStep
<1>6. PICK m \in Nat : m = Len(s) + n
  BY <1>1
<1>7. Keys(0, m) \in Seq(Positions) /\ Len(Keys(0, m)) = m
  BY <1>1, KeysType
<1>8. Advance(i, n) = m % KeyLen
  BY <1>1, <1>6, ModuloSum DEF Advance, InStep
<1>9. m % KeyLen \in Positions
  BY <1>1 DEF Positions
<1>10. PICK e \in Seq(Positions) : e = s \o KeyRun[n][i] /\ e = Keys(0, m) /\ Len(e) = m
  BY <1>5, <1>6, <1>7
<1>11. InStep(e, Advance(i, n))
  BY <1>8, <1>9, <1>10 DEF InStep
<1>12. QED
  BY <1>6, <1>10, <1>11

LEMMA WriteGrows ==
    ASSUME CipherInv, NEW p \in Peers, NEW n \in Nat, Write(p, n), UNCHANGED <<dec, keyRI, sameKey>>,
           punch' \in [Peers -> {"dial", "write", "read", "ok", "error", "gone"}],
           \A q \in Peers : punch'[q] = "ok" => punch[q] = "ok"
    PROVE  CipherInv'
<1>1. InStep(enc[p], keyWI[p]) /\ Len(enc[p]) \in Nat
  BY DEF CipherInv
<1>2. PICK e \in Seq(Positions) : /\ e = enc[p] \o KeyRun[n][keyWI[p]]
                                  /\ Len(e) = Len(enc[p]) + n
                                  /\ InStep(e, Advance(keyWI[p], n))
  BY <1>1, StreamGrows
<1>3. PICK k \in Positions : k = Advance(keyWI[p], n)
  BY <1>2 DEF InStep
<1>4. enc' = [enc EXCEPT ![p] = e] /\ keyWI' = [keyWI EXCEPT ![p] = k]
  BY <1>2, <1>3 DEF Write
<1>5. enc' \in [Peers -> Seq(Positions)] /\ keyWI' \in [Peers -> Positions]
  BY <1>4 DEF CipherInv
<1>6. \A q \in Peers : /\ q = p => enc'[q] = e /\ keyWI'[q] = k
                       /\ q # p => enc'[q] = enc[q] /\ keyWI'[q] = keyWI[q]
  BY <1>4 DEF CipherInv
<1>7. \A q \in Peers : InStep(enc'[q], keyWI'[q])
  BY <1>2, <1>3, <1>6 DEF CipherInv
<1>8. \A q \in Peers : Len(enc[q]) <= Len(enc'[q])
  <2>1. \A q \in Peers : Len(enc[q]) \in Nat
    BY DEF CipherInv
  <2>2. Len(enc[p]) <= Len(e)
    BY <1>1, <1>2
  <2>3. QED
    BY <1>6, <2>1, <2>2
<1>9. ASSUME NEW q \in Peers
      PROVE  Len(dec'[q]) <= Len(enc'[Other(q)])
  <2>1. Other(q) \in Peers
    BY PunchTCPAssumption
  <2>2. /\ Len(dec[q]) \in Nat /\ Len(enc[Other(q)]) \in Nat /\ Len(enc'[Other(q)]) \in Nat
        /\ Len(dec[q]) <= Len(enc[Other(q)])
    BY <1>5, <2>1 DEF CipherInv
  <2>3. QED
    BY <1>8, <2>1, <2>2
<1>10. QED
  BY <1>5, <1>7, <1>9 DEF CipherInv

LEMMA ReadGrows ==
    ASSUME CipherInv, NEW p \in Peers, NEW n \in 1..Unread(p), Read(p, n),
           UNCHANGED <<enc, keyWI, sameKey>>,
           punch' \in [Peers -> {"dial", "write", "read", "ok", "error", "gone"}],
           \A q \in Peers : punch'[q] = "ok" /\ q # p => punch[q] = "ok",
           punch'[p] = "ok" /\ punch[p] # "ok" => sameKey /\ n >= AuthLen
    PROVE  CipherInv'
<1>0. Other(p) \in Peers /\ AuthLen \in Nat
  BY PunchTCPAssumption
<1>1. /\ InStep(dec[p], keyRI[p])
      /\ Len(dec[p]) \in Nat /\ Len(enc[Other(p)]) \in Nat
  BY <1>0 DEF CipherInv
<1>2. PICK l \in Nat, b \in Nat : l = Len(dec[p]) /\ b = Len(enc[Other(p)])
  BY <1>1
<1>3. n \in 1..(b - l)
  BY <1>2 DEF Unread
<1>4. n \in Nat /\ l + n <= b
  BY <1>2, <1>3
<1>5. PICK e \in Seq(Positions) : /\ e = dec[p] \o KeyRun[n][keyRI[p]]
                                  /\ Len(e) = l + n
                                  /\ InStep(e, Advance(keyRI[p], n))
  BY <1>1, <1>2, <1>4, StreamGrows
<1>6. PICK k \in Positions : k = Advance(keyRI[p], n)
  BY <1>5 DEF InStep
<1>7. dec' = [dec EXCEPT ![p] = e] /\ keyRI' = [keyRI EXCEPT ![p] = k]
  BY <1>5, <1>6 DEF Read
<1>8. dec' \in [Peers -> Seq(Positions)] /\ keyRI' \in [Peers -> Positions]
  BY <1>7 DEF CipherInv
<1>9. \A q \in Peers : /\ q = p => dec'[q] = e /\ keyRI'[q] = k
                       /\ q # p => dec'[q] = dec[q] /\ keyRI'[q] = keyRI[q]
  BY <1>7 DEF CipherInv
<1>10. \A q \in Peers : InStep(dec'[q], keyRI'[q])
  BY <1>5, <1>6, <1>9 DEF CipherInv
<1>11. \A q \in Peers : Len(dec'[q]) <= Len(enc[Other(q)])
  BY <1>2, <1>4, <1>5, <1>9 DEF CipherInv
<1>12. ASSUME NEW q \in Peers, punch'[q] = "ok"
       PROVE  sameKey /\ Len(dec'[q]) >= AuthLen
  <2>1. CASE q = p
    <3>1. punch[p] = "ok" => sameKey /\ l >= AuthLen
      BY <1>2 DEF CipherInv
    <3>2. punch[p] # "ok" => sameKey /\ n >= AuthLen
      BY <1>12, <2>1
    <3>3. sameKey
      BY <3>1, <3>2
    <3>4. l + n >= AuthLen
      BY <1>0, <1>4, <3>1, <3>2
    <3>5. QED
      BY <1>5, <1>9, <2>1, <3>3, <3>4
  <2>2. CASE q # p
    BY <1>9, <1>12, <2>2 DEF CipherInv
  <2>3. QED
    BY <2>1, <2>2
<1>13. QED
  BY <1>8, <1>10, <1>11, <1>12 DEF CipherInv

\* A step that leaves the stream alone, and returns no connection.
LEMMA PunchKeepsCipher ==
    ASSUME CipherInv, UNCHANGED <<sameKey, keyWI, keyRI, enc, dec>>,
           punch' \in [Peers -> {"dial", "write", "read", "ok", "error", "gone"}],
           \A q \in Peers : punch'[q] = "ok" => punch[q] = "ok"
    PROVE  CipherInv'
  BY DEF CipherInv

LEMMA NextCipher == CipherInv /\ [PNext]_pvars => CipherInv'
<1> SUFFICES ASSUME CipherInv, [PNext]_pvars
             PROVE  CipherInv'
  OBVIOUS
<1>0. punch \in [Peers -> {"dial", "write", "read", "ok", "error", "gone"}]
  BY DEF CipherInv
<1>1. ASSUME NEW p \in Peers, WriteHelo(p)
      PROVE  CipherInv'
  <2>1. HeloLen(p) \in Nat
    BY PunchTCPAssumption
  <2>2. /\ \A q \in Peers : punch'[q] = "ok" => punch[q] = "ok"
        /\ punch' \in [Peers -> {"dial", "write", "read", "ok", "error", "gone"}]
        /\ Write(p, HeloLen(p)) /\ UNCHANGED <<dec, keyRI, sameKey>>
    BY <1>0, <1>1 DEF WriteHelo
  <2>3. QED
    BY <2>1, <2>2, WriteGrows
<1>2. ASSUME NEW p \in Peers, TunnelWrite(p)
      PROVE  CipherInv'
  <2>1. Write(p, 1) /\ 1 \in Nat /\ UNCHANGED <<dec, keyRI, sameKey>> /\ punch' = punch
    BY <1>2 DEF TunnelWrite
  <2>2. QED
    BY <1>0, <2>1, WriteGrows
<1>3. ASSUME NEW p \in Peers, TunnelRead(p)
      PROVE  CipherInv'
  <2>1. PICK n \in 1..Unread(p) : Read(p, n)
    BY <1>3 DEF TunnelRead
  <2>2. UNCHANGED <<enc, keyWI, sameKey>> /\ punch' = punch
    BY <1>3 DEF TunnelRead
  <2>3. QED
    BY <1>0, <2>1, <2>2, ReadGrows
<1>4. ASSUME NEW p \in Peers, ReadHelo(p)
      PROVE  CipherInv'
  <2>1. PICK n \in 1..Unread(p) :
            /\ Read(p, n)
            /\ punch' = [punch EXCEPT ![p] = IF sameKey /\ n >= AuthLen THEN "ok" ELSE "error"]
    BY <1>4 DEF ReadHelo
  <2>2. /\ \A q \in Peers : punch'[q] = "ok" /\ q # p => punch[q] = "ok"
        /\ punch'[p] = "ok" => sameKey /\ n >= AuthLen
    BY <1>0, <2>1
  <2>3. punch' \in [Peers -> {"dial", "write", "read", "ok", "error", "gone"}]
    BY <1>0, <2>1
  <2>4. UNCHANGED <<enc, keyWI, sameKey>>
    BY <1>4 DEF ReadHelo
  <2>5. QED
    BY <2>1, <2>2, <2>3, <2>4, ReadGrows
<1>5. ASSUME NEW p \in Peers,
             SimultaneousOpen \/ OpenAlone(p) \/ DialFails(p) \/ PunchFails(p) \/ Vanish(p)
      PROVE  /\ UNCHANGED <<sameKey, keyWI, keyRI, enc, dec>>
             /\ punch' \in [Peers -> {"dial", "write", "read", "ok", "error", "gone"}]
             /\ \A q \in Peers : punch'[q] = "ok" => punch[q] = "ok"
  BY <1>0, <1>5 DEF SimultaneousOpen, OpenAlone, DialFails, PunchFails, Vanish
<1>6. CASE UNCHANGED pvars
  BY <1>0, <1>6, PunchKeepsCipher DEF pvars
<1>7. QED
  BY <1>1, <1>2, <1>3, <1>4, <1>5, <1>6, PunchKeepsCipher DEF PNext, PunchTCP

LEMMA NextPTypes == CipherInv' /\ PTypeOK /\ [PNext]_pvars => PTypeOK'
<1> SUFFICES ASSUME CipherInv', PTypeOK, [PNext]_pvars
             PROVE  PTypeOK'
  OBVIOUS
<1>1. /\ keyWI' \in [Peers -> 0..(KeyLen - 1)] /\ keyRI' \in [Peers -> 0..(KeyLen - 1)]
      /\ punch' \in [Peers -> {"dial", "write", "read", "ok", "error", "gone"}]
  BY DEF CipherInv, Positions
<1>2. ASSUME NEW ps \in SUBSET Peers, \A p \in ps : Dials(p), Dialled(ps)
      PROVE  tries' \in [Peers -> 0..MaxTries]
  <2>1. ASSUME NEW p \in Peers
        PROVE  (IF p \in ps THEN tries[p] + 1 ELSE tries[p]) \in 0..MaxTries
    <3>1. tries[p] \in 0..MaxTries /\ (p \in ps => tries[p] < MaxTries) /\ MaxTries \in Nat
      BY <1>2, PunchTCPAssumption DEF PTypeOK, Dials
    <3>2. QED
      BY <3>1
  <2>2. QED
    BY <1>2, <2>1 DEF Dialled
<1>3. CASE SimultaneousOpen
  BY <1>1, <1>2, <1>3 DEF SimultaneousOpen, PTypeOK
<1>4. ASSUME NEW p \in Peers, OpenAlone(p)
      PROVE  PTypeOK'
  BY <1>1, <1>2, <1>4 DEF OpenAlone, PTypeOK
<1>5. ASSUME NEW p \in Peers, DialFails(p)
      PROVE  PTypeOK'
  BY <1>1, <1>2, <1>5 DEF DialFails, PTypeOK
<1>6. ASSUME NEW p \in Peers,
             WriteHelo(p) \/ ReadHelo(p) \/ PunchFails(p) \/ Vanish(p)
             \/ TunnelWrite(p) \/ TunnelRead(p)
      PROVE  UNCHANGED <<sameKey, tries, alone>>
  BY <1>6 DEF WriteHelo, ReadHelo, PunchFails, Vanish, TunnelWrite, TunnelRead
<1>7. CASE UNCHANGED <<sameKey, tries, alone>>
  BY <1>1, <1>7 DEF PTypeOK
<1>8. CASE UNCHANGED pvars
  BY <1>7, <1>8 DEF pvars
<1>9. QED
  BY <1>3, <1>4, <1>5, <1>6, <1>7, <1>8 DEF PNext, PunchTCP

\* Two directions that use the key from its start agree as far as both go.
LEMMA SameKeys ==
    ASSUME NEW d \in Nat, NEW e \in Nat, d <= e
    PROVE  IsPrefix(Keys(0, d), Keys(0, e))
<1>1. 0 \in Positions
  BY PunchTCPAssumption DEF Positions
<1>2. PICK s \in Seq(Positions) :
          s = Keys(0, d) /\ Len(s) = d /\ \A j \in 1..d : s[j] = (0 + j - 1) % KeyLen
  BY <1>1, KeysType
<1>3. PICK t \in Seq(Positions) :
          t = Keys(0, e) /\ Len(t) = e /\ \A j \in 1..e : t[j] = (0 + j - 1) % KeyLen
  BY <1>1, KeysType
<1>4. \A j \in 1..d : s[j] = t[j]
  BY <1>2, <1>3
<1>5. SubSeq(s, 1, d) = SubSeq(t, 1, d)
  BY <1>2, <1>3, <1>4
<1>6. QED
  BY <1>2, <1>3, <1>5 DEF IsPrefix

LEMMA CipherInvAgrees == CipherInv => CipherStreamsAgree
<1> SUFFICES ASSUME CipherInv, NEW p \in Peers
             PROVE  IsPrefix(dec[p], enc[Other(p)])
  BY DEF CipherInv, CipherStreamsAgree
<1>1. Other(p) \in Peers
  BY PunchTCPAssumption
<1>2. /\ Len(dec[p]) \in Nat /\ Len(enc[Other(p)]) \in Nat /\ Len(dec[p]) <= Len(enc[Other(p)])
      /\ dec[p] = Keys(0, Len(dec[p])) /\ enc[Other(p)] = Keys(0, Len(enc[Other(p)]))
  BY <1>1 DEF CipherInv, InStep
<1>3. QED
  BY <1>2, SameKeys

-----------------------------------------------------------------------------
(* The UDP tunnel. *)

\* What the two loops of the client know of each other.  The address is stored
\* before sent is closed, and the datagram waits for sent: so an application
\* has spoken by the time its address is written to.  The channel is closed
\* once: the loop that closes it has just stored the first address.
AddrInv ==
    /\ r \in [TunnelEnds -> {"arm", "read", "sent", "write", "done"}]
    /\ w \in [TunnelEnds -> {"read", "addr", "closesent", "write", "done"}]
    /\ asking \in [Apps -> Nat]
    /\ spoken \subseteq Apps
    /\ \A a \in Apps : asking[a] > 0 => a \in spoken
    /\ w["client"] = "addr" => from \in spoken
    /\ w["client"] = "closesent" => clientAddr # NoAddr /\ ~sentClosed
    /\ clientAddr # NoAddr => clientAddr \in spoken
    /\ sentClosed => clientAddr # NoAddr
    /\ r["client"] = "write" => sentClosed

LEMMA LoopsKeepAddr ==
    ASSUME AddrInv, NEW e \in TunnelEnds, UdpLoops(e)
    PROVE  AddrInv'
<1>1. CASE RArm(e)
  BY <1>1 DEF RArm, AddrInv, TunnelEnds
<1>2. CASE RRead(e)
  BY <1>2 DEF RRead, AddrInv, TunnelEnds
<1>3. ASSUME Collapse(e)
      PROVE  asking' \in [Apps -> Nat] /\ \A a \in Apps : asking'[a] > 0 => asking[a] > 0
  BY <1>3 DEF Collapse, AddrInv
<1>4. CASE RReadFails(e) \/ RWriteFails(e)
  BY <1>3, <1>4 DEF RReadFails, RWriteFails, AddrInv, TunnelEnds
<1>5. CASE WReadFails(e) \/ WWriteFails(e)
  BY <1>3, <1>5 DEF WReadFails, WWriteFails, AddrInv, TunnelEnds
<1>6. CASE RWrite(e)
  BY <1>6 DEF RWrite, AddrInv, TunnelEnds
<1>7. CASE WWrite(e)
  BY <1>7 DEF WWrite, AddrInv, TunnelEnds
<1>8. CASE LeftoverEnds(e)
  BY <1>8 DEF LeftoverEnds, AddrInv
<1>9. CASE RSent
  BY <1>9 DEF RSent, AddrInv, TunnelEnds
<1>10. CASE WAddr
  <2>1. from \in spoken /\ from # NoAddr
    BY <1>10, UdpTunnelAssumption DEF WAddr, AddrInv
  <2>2. QED
    BY <1>10, <2>1 DEF WAddr, AddrInv, TunnelEnds
<1>11. CASE WCloseSent
  BY <1>11 DEF WCloseSent, AddrInv, TunnelEnds
<1>12. ASSUME NEW a \in Apps, WReadRequest(a)
       PROVE  AddrInv'
  BY <1>12 DEF WReadRequest, AddrInv, TunnelEnds
<1>13. CASE WReadReply
  BY <1>13 DEF WReadReply, AddrInv, TunnelEnds
<1>14. QED
  BY <1>1, <1>2, <1>4, <1>5, <1>6, <1>7, <1>8, <1>9, <1>10, <1>11, <1>12, <1>13 DEF UdpLoops

LEMMA NextAddr == AddrInv /\ [Next]_vars => AddrInv'
<1> SUFFICES ASSUME AddrInv, [Next]_vars
             PROVE  AddrInv'
  OBVIOUS
<1>1. CASE UNCHANGED uvars
  BY <1>1 DEF uvars, AddrInv
<1>2. ASSUME NEW e \in TunnelEnds, DeadlinePasses(e)
      PROVE  AddrInv'
  BY <1>2 DEF DeadlinePasses, AddrInv
<1>3. ASSUME NEW a \in Apps, Request(a)
      PROVE  AddrInv'
  BY <1>3 DEF Request, AddrInv
<1>4. CASE ServiceStops
  BY <1>4 DEF ServiceStops, AddrInv
<1>5. QED
  BY <1>1, <1>2, <1>3, <1>4, LoopsKeepAddr DEF Next, UNext, vars

\* An application has at most all of the requests waiting.
UTypeInv == /\ UTypeOK
            /\ requests \in 0..MaxRequests
            /\ \A a \in Apps : asking[a] <= requests

LEMMA CollapseTypes ==
    ASSUME UTypeInv, NEW e \in TunnelEnds, Collapse(e)
    PROVE  /\ closed' \in [TunnelEnds -> BOOLEAN]
           /\ readBy' \in [TunnelEnds -> {"none", "ahead", "passed"}]
           /\ writeBy' \in [TunnelEnds -> {"none", "ahead", "passed"}]
           /\ tunnel' \in [TunnelEnds -> Nat]
           /\ asking' \in [Apps -> 0..MaxRequests] /\ \A a \in Apps : asking'[a] <= requests
           /\ replies' \in Nat
<1>1. asking' \in [Apps -> 0..MaxRequests] /\ \A a \in Apps : asking'[a] <= requests
  BY UdpTunnelAssumption DEF Collapse, UTypeInv, UTypeOK
<1>2. QED
  BY <1>1 DEF Collapse, UTypeInv, UTypeOK

LEMMA DeadlineTypes ==
    ASSUME UTypeInv, NEW e \in TunnelEnds, SetDeadline(e)
    PROVE  /\ readBy' \in [TunnelEnds -> {"none", "ahead", "passed"}]
           /\ writeBy' \in [TunnelEnds -> {"none", "ahead", "passed"}]
  BY DEF SetDeadline, UTypeInv, UTypeOK

LEMMA LoopsKeepTypes ==
    ASSUME UTypeInv, NEW e \in TunnelEnds, UdpLoops(e)
    PROVE  UTypeInv'
<1>1. CASE RArm(e)
  BY <1>1, DeadlineTypes DEF RArm, UTypeInv, UTypeOK, TunnelEnds
<1>2. CASE RRead(e)
  BY <1>2 DEF RRead, UTypeInv, UTypeOK, TunnelEnds
<1>3. CASE RReadFails(e)
  BY <1>3, CollapseTypes DEF RReadFails, UTypeInv, UTypeOK, TunnelEnds
<1>4. CASE RWriteFails(e)
  BY <1>4, CollapseTypes DEF RWriteFails, UTypeInv, UTypeOK, TunnelEnds
<1>5. CASE WReadFails(e)
  BY <1>5, CollapseTypes DEF WReadFails, UTypeInv, UTypeOK, TunnelEnds
<1>6. CASE WWriteFails(e)
  BY <1>6, CollapseTypes DEF WWriteFails, UTypeInv, UTypeOK, TunnelEnds
<1>7. CASE RWrite(e)
  BY <1>7, DeadlineTypes DEF RWrite, UTypeInv, UTypeOK, TunnelEnds
<1>8. CASE WWrite(e)
  <2>1. tunnel' \in [TunnelEnds -> Nat]
    <3>1. PICK n \in 0..1 : tunnel' = [tunnel EXCEPT ![FarEnd(e)] = @ + n]
      BY <1>8 DEF WWrite
    <3>2. FarEnd(e) \in TunnelEnds /\ tunnel \in [TunnelEnds -> Nat]
      BY DEF FarEnd, TunnelEnds, UTypeInv, UTypeOK
    <3>3. tunnel[FarEnd(e)] + n \in Nat
      BY <3>2
    <3>4. QED
      BY <3>1, <3>2, <3>3
  <2>2. QED
    BY <1>8, <2>1, DeadlineTypes DEF WWrite, UTypeInv, UTypeOK, TunnelEnds
<1>9. CASE LeftoverEnds(e)
  BY <1>9 DEF LeftoverEnds, UTypeInv, UTypeOK
<1>10. CASE RSent
  BY <1>10 DEF RSent, UTypeInv, UTypeOK, TunnelEnds
<1>11. CASE WAddr
  BY <1>11 DEF WAddr, UTypeInv, UTypeOK, TunnelEnds
<1>12. CASE WCloseSent
  BY <1>12 DEF WCloseSent, UTypeInv, UTypeOK, TunnelEnds
<1>13. ASSUME NEW a \in Apps, WReadRequest(a)
       PROVE  UTypeInv'
  <2>1. asking[a] - 1 \in 0..MaxRequests /\ asking[a] - 1 <= requests
    BY <1>13, UdpTunnelAssumption DEF WReadRequest, UTypeInv, UTypeOK
  <2>2. asking' \in [Apps -> 0..MaxRequests] /\ \A b \in Apps : asking'[b] <= requests
    BY <1>13, <2>1 DEF WReadRequest, UTypeInv, UTypeOK
  <2>3. QED
    BY <1>13, <2>2 DEF WReadRequest, UTypeInv, UTypeOK, TunnelEnds
<1>14. CASE WReadReply
  BY <1>14 DEF WReadReply, UTypeInv, UTypeOK, TunnelEnds
<1>15. QED
  BY <1>1, <1>2, <1>3, <1>4, <1>5, <1>6, <1>7, <1>8, <1>9, <1>10, <1>11, <1>12, <1>13, <1>14
     DEF UdpLoops

LEMMA NextUTypes == UTypeInv /\ [UNext]_uvars => UTypeInv'
<1> SUFFICES ASSUME UTypeInv, [UNext]_uvars
             PROVE  UTypeInv'
  OBVIOUS
<1>1. CASE UNCHANGED uvars
  BY <1>1 DEF uvars, UTypeInv, UTypeOK
<1>2. ASSUME NEW e \in TunnelEnds, DeadlinePasses(e)
      PROVE  UTypeInv'
  BY <1>2 DEF DeadlinePasses, Passed, UTypeInv, UTypeOK
<1>3. ASSUME NEW a \in Apps, Request(a)
      PROVE  UTypeInv'
  <2>1. requests + 1 \in 0..MaxRequests
    BY <1>3, UdpTunnelAssumption DEF Request, UTypeInv
  <2>2. \A b \in Apps : asking[b] \in 0..MaxRequests /\ asking[b] <= requests
    BY DEF UTypeInv, UTypeOK
  <2>3. asking' \in [Apps -> 0..MaxRequests] /\ \A b \in Apps : asking'[b] <= requests'
    BY <1>3, <2>1, <2>2, UdpTunnelAssumption DEF Request, UTypeInv, UTypeOK
  <2>4. QED
    BY <1>3, <2>1, <2>3 DEF Request, UTypeInv, UTypeOK
<1>4. CASE ServiceStops
  BY <1>4 DEF ServiceStops, UTypeInv, UTypeOK
<1>5. QED
  BY <1>1, <1>2, <1>3, <1>4, LoopsKeepTypes DEF UNext

-----------------------------------------------------------------------------
(* The stream tunnel. *)

\* A copier between its Read and its Write has a chunk in its buffer.
Holds(c) == IF copier[c] = "write" THEN 1 ELSE 0

\* What is under way in each direction, and what has arrived.
UpFlow == waits["clientUp"] + Holds("clientUp") + waits["serverUp"] + Holds("serverUp") + got
DownFlow == waits["serverDown"] + Holds("serverDown") + waits["clientDown"] + Holds("clientDown")

\* Nothing is under way that has not been sent.
Chunks ==
    /\ copier \in [Copiers -> {"none", "read", "write", "close", "done"}]
    /\ waits \in [Copiers -> Nat]
    /\ sent \in [{"app", "service"} -> 0..MaxChunks]
    /\ got \in Nat
    /\ UpFlow <= sent["app"]
    /\ DownFlow <= sent["service"]

STyped ==
    /\ main \in [Sides -> {"start", "accept", "dial", "cleanup", "done"}]
    /\ session \in [Sides -> {"none", "open", "closed"}]
    /\ link \in BOOLEAN /\ listening \in BOOLEAN /\ watcher \in BOOLEAN
    /\ app \in {"none", "open", "half", "closed"}
    /\ service \in {"none", "open", "half", "closed"}
    /\ opened \subseteq EndsOf("client") \union EndsOf("server")
    /\ open \subseteq opened

\* Each part of a connection comes into being after the one before it.
Order ==
    /\ \A e \in Sides : main[e] = "start" => session[e] = "none"
    /\ main["server"] = "dial" => "sconn" \notin opened /\ "sstream" \in open
    /\ "cconn" \notin opened => \A c \in CopiersOf("client") : copier[c] = "none"
    /\ "cconn" \notin opened => "cstream" \notin opened
    /\ \A c \in CopiersOf("client") : copier[c] # "none" => "cstream" \in opened
    /\ "sconn" \notin opened => \A c \in CopiersOf("server") : copier[c] = "none"
    /\ "sconn" \notin opened <=> service = "none"
    /\ "sconn" \in opened => "sstream" \in opened

\* Nothing has happened but what the app does and what follows from it.
Quiet ==
    /\ link /\ \A e \in Sides : session[e] # "closed"
    /\ service \in {"none", "open"} /\ sent["service"] = 0
    /\ "sstream" \in opened \ open => "sconn" \in opened

\* One of a side's two ends has been closed, or a copier is about to.
Ending(e) == \/ EndsOf(e) \intersect (opened \ open) # {}
             \/ \E c \in CopiersOf(e) : copier[c] \in {"close", "done"}

\* No chunk is lost, and the client's side ends after the app's FIN with nothing
\* left to copy, the server's side after the client's.
InOrder ==
    /\ UpFlow = sent["app"]
    /\ Ending("client") => /\ app \in {"half", "closed"}
                           /\ waits["clientUp"] = 0 /\ copier["clientUp"] # "write"
    /\ Ending("server") => /\ "cstream" \in opened \ open
                           /\ waits["serverUp"] = 0 /\ copier["serverUp"] # "write"

StreamInv == STyped /\ Chunks /\ Order /\ (Quiet => InOrder)

LEMMA EndNames ==
    /\ Src["clientUp"] = "cconn" /\ Dst["clientUp"] = "cstream"
    /\ Src["clientDown"] = "cstream" /\ Dst["clientDown"] = "cconn"
    /\ Src["serverUp"] = "sstream" /\ Dst["serverUp"] = "sconn"
    /\ Src["serverDown"] = "sconn" /\ Dst["serverDown"] = "sstream"
    /\ NextCopier["clientUp"] = "serverUp" /\ NextCopier["serverDown"] = "clientDown"
    /\ Partner["cconn"] = app /\ Partner["sconn"] = service
  BY DEF Src, Dst, NextCopier, Partner

LEMMA ExitChunks ==
    ASSUME Chunks, NEW e \in Sides, Exit(e), UNCHANGED <<got, sent>>
    PROVE  Chunks'
  BY DEF Chunks, Exit, UpFlow, DownFlow, Holds, Copiers, CopiersOf

\* A copier goes on with nothing in its buffer.
LEMMA TurnChunks ==
    ASSUME Chunks, NEW c \in Copiers, NEW to \in {"read", "close", "done"},
           copier' = [copier EXCEPT ![c] = to], UNCHANGED <<waits, got, sent>>
    PROVE  Chunks'
  BY DEF Chunks, UpFlow, DownFlow, Holds, Copiers

LEMMA ReadChunks ==
    ASSUME Chunks, NEW c \in Copiers, CopyReads(c)
    PROVE  Chunks'
  BY DEF Chunks, CopyReads, UpFlow, DownFlow, Holds, Copiers

LEMMA WriteChunks ==
    ASSUME Chunks, NEW c \in Copiers, CopyWrites(c)
    PROVE  Chunks'
<1>1. CASE c = "clientUp"
  BY <1>1, EndNames DEF Chunks, CopyWrites, Stream, UpFlow, DownFlow, Holds, Copiers
<1>2. CASE c = "clientDown"
  BY <1>2, EndNames DEF Chunks, CopyWrites, Stream, UpFlow, DownFlow, Holds, Copiers
<1>3. CASE c = "serverUp"
  BY <1>3, EndNames DEF Chunks, CopyWrites, Stream, UpFlow, DownFlow, Holds, Copiers
<1>4. CASE c = "serverDown"
  BY <1>4, EndNames DEF Chunks, CopyWrites, Stream, UpFlow, DownFlow, Holds, Copiers
<1>5. QED
  BY <1>1, <1>2, <1>3, <1>4 DEF Copiers

LEMMA SendChunks ==
    ASSUME Chunks, AppSends \/ ServiceSends
    PROVE  Chunks'
<1>1. CASE AppSends
  BY <1>1, StreamTunnelAssumption DEF Chunks, AppSends, UpFlow, DownFlow, Holds, Copiers
<1>2. CASE ServiceSends
  BY <1>2, StreamTunnelAssumption DEF Chunks, ServiceSends, UpFlow, DownFlow, Holds, Copiers
<1>3. QED
  BY <1>1, <1>2

LEMMA NextChunks == Chunks /\ [SNext]_svars => Chunks'
<1> SUFFICES ASSUME Chunks, [SNext]_svars
             PROVE  Chunks'
  OBVIOUS
<1>1. ASSUME UNCHANGED <<copier, waits, sent, got>>
      PROVE  Chunks'
  BY <1>1 DEF Chunks, UpFlow, DownFlow, Holds
<1>2. CASE UNCHANGED svars
  BY <1>1, <1>2 DEF svars
<1>3. ASSUME NEW e \in Sides, SessionDies(e) \/ AcceptFails(e)
      PROVE  Chunks'
  BY <1>1, <1>3 DEF SessionDies, AcceptFails
<1>4. ASSUME NEW e \in Sides, Cleanup(e)
      PROVE  Chunks'
  BY <1>4, ExitChunks DEF Cleanup
<1>5. CASE ClientStarts
  BY <1>1, <1>5, ExitChunks DEF ClientStarts, Sides
<1>6. CASE ServerStarts
  BY <1>1, <1>6, ExitChunks DEF ServerStarts, Sides
<1>7. CASE ClientAccepts
  <2>1. CASE UNCHANGED copier
    BY <1>1, <1>7, <2>1 DEF ClientAccepts
  <2>2. CASE copier' = [copier EXCEPT !["clientUp"] = "read", !["clientDown"] = "read"]
    BY <1>7, <2>2 DEF ClientAccepts, Chunks, UpFlow, DownFlow, Holds, Copiers
  <2>3. QED
    BY <1>7, <2>1, <2>2 DEF ClientAccepts
<1>8. CASE ServerDials
  <2>1. CASE UNCHANGED copier
    BY <1>1, <1>8, <2>1 DEF ServerDials
  <2>2. CASE copier' = [copier EXCEPT !["serverUp"] = "read", !["serverDown"] = "read"]
    BY <1>8, <2>2 DEF ServerDials, Chunks, UpFlow, DownFlow, Holds, Copiers
  <2>3. QED
    BY <1>8, <2>1, <2>2 DEF ServerDials
<1>9. CASE WatchSession \/ ServerAccepts \/ LinkBreaks \/ AppConnects \/ AppEnds \/ ServiceEnds
  BY <1>1, <1>9 DEF WatchSession, ServerAccepts, LinkBreaks, AppConnects, AppEnds, ServiceEnds
<1>10. ASSUME NEW c \in Copiers, CopyEnds(c) \/ CopyWriteFails(c) \/ CopyCloses(c)
       PROVE  Chunks'
  BY <1>10, TurnChunks DEF CopyEnds, CopyWriteFails, CopyCloses
<1>11. QED
  BY <1>2, <1>3, <1>4, <1>5, <1>6, <1>7, <1>8, <1>9, <1>10, ReadChunks, WriteChunks, SendChunks
     DEF SNext, Tunnel, Copy

LEMMA NextSTyped == STyped /\ [SNext]_svars => STyped'
<1> SUFFICES ASSUME STyped, [SNext]_svars
             PROVE  STyped'
  OBVIOUS
<1>1. CASE UNCHANGED svars
  BY <1>1 DEF svars, STyped
<1>2. ASSUME NEW e \in Sides, Exit(e), UNCHANGED <<link, app, service, opened>>
      PROVE  STyped'
  BY <1>2 DEF Exit, STyped
<1>3. ASSUME NEW e \in Sides, SessionDies(e) \/ AcceptFails(e) \/ Cleanup(e)
      PROVE  STyped'
  <2>1. CASE Cleanup(e)
    BY <1>2, <2>1 DEF Cleanup
  <2>2. CASE SessionDies(e)
    BY <2>2 DEF SessionDies, STyped
  <2>3. CASE AcceptFails(e)
    BY <2>3 DEF AcceptFails, STyped
  <2>4. QED
    BY <1>3, <2>1, <2>2, <2>3
<1>4. CASE ClientStarts
  <2>1. CASE Exit("client")
    BY <1>2, <1>4, <2>1 DEF ClientStarts, Sides
  <2>2. CASE ~Exit("client")
    BY <1>4, <2>2 DEF ClientStarts, STyped
  <2>3. QED
    BY <2>1, <2>2
<1>5. CASE ServerStarts
  <2>1. CASE Exit("server")
    BY <1>2, <1>5, <2>1 DEF ServerStarts, Sides
  <2>2. CASE ~Exit("server")
    BY <1>5, <2>2 DEF ServerStarts, STyped
  <2>3. QED
    BY <2>1, <2>2
<1>6. CASE ClientAccepts
  BY <1>6 DEF ClientAccepts, EndsOf, STyped
<1>7. CASE ServerAccepts
  BY <1>7 DEF ServerAccepts, EndsOf, STyped
<1>8. CASE ServerDials
  BY <1>8 DEF ServerDials, EndsOf, STyped
<1>9. CASE WatchSession \/ LinkBreaks \/ AppConnects \/ AppSends \/ ServiceSends
  BY <1>9 DEF WatchSession, LinkBreaks, AppConnects, AppSends, ServiceSends, STyped
<1>10. CASE AppEnds \/ ServiceEnds
  BY <1>10 DEF AppEnds, ServiceEnds, STyped
<1>11. ASSUME NEW c \in Copiers, Copy(c) \/ CopyWrites(c)
       PROVE  /\ UNCHANGED <<main, session, link, listening, watcher, app, service, opened>>
              /\ open' \subseteq open
  BY <1>11 DEF Copy, CopyReads, CopyEnds, CopyWriteFails, CopyCloses, CopyWrites
<1>12. CASE /\ UNCHANGED <<main, session, link, listening, watcher, app, service, opened>>
            /\ open' \subseteq open
  BY <1>12 DEF STyped
<1>13. QED
  BY <1>1, <1>3, <1>4, <1>5, <1>6, <1>7, <1>8, <1>9, <1>10, <1>11, <1>12 DEF SNext, Tunnel

LEMMA NextOrder == STyped /\ Chunks /\ Order /\ [SNext]_svars => Order'
<1> SUFFICES ASSUME STyped, Chunks, Order, [SNext]_svars
             PROVE  Order'
  OBVIOUS
<1>1. CASE UNCHANGED svars
  BY <1>1 DEF svars, Order
<1>2. ASSUME NEW e \in Sides, Exit(e), UNCHANGED <<service, opened>>, main[e] # "dial"
      PROVE  Order'
  BY <1>2 DEF Exit, Order, STyped, Chunks, Sides, Copiers, CopiersOf, EndsOf
<1>3. ASSUME NEW e \in Sides, SessionDies(e) \/ AcceptFails(e) \/ Cleanup(e)
      PROVE  Order'
  <2>1. CASE Cleanup(e)
    BY <1>2, <2>1 DEF Cleanup
  <2>2. CASE SessionDies(e)
    BY <2>2 DEF SessionDies, STyped, Order
  <2>3. CASE AcceptFails(e)
    BY <2>3 DEF AcceptFails, STyped, Order
  <2>4. QED
    BY <1>3, <2>1, <2>2, <2>3
<1>4. CASE ClientStarts
  <2>1. CASE Exit("client")
    BY <1>2, <1>4, <2>1 DEF ClientStarts, Sides
  <2>2. CASE ~Exit("client")
    BY <1>4, <2>2 DEF ClientStarts, STyped, Order, Sides
  <2>3. QED
    BY <2>1, <2>2
<1>5. CASE ServerStarts
  <2>1. CASE Exit("server")
    BY <1>2, <1>5, <2>1 DEF ServerStarts, Sides
  <2>2. CASE ~Exit("server")
    BY <1>5, <2>2 DEF ServerStarts, STyped, Order, Sides
  <2>3. QED
    BY <2>1, <2>2
<1>6. CASE ClientAccepts
  BY <1>6 DEF ClientAccepts, EndsOf, STyped, Order, Chunks, CopiersOf, Copiers, Sides
<1>7. CASE ServerAccepts
  BY <1>7 DEF ServerAccepts, EndsOf, STyped, Order, Sides
<1>8. CASE ServerDials
  BY <1>8 DEF ServerDials, EndsOf, STyped, Order, Chunks, CopiersOf, Copiers, Sides
<1>9. CASE WatchSession \/ LinkBreaks \/ AppConnects \/ AppSends \/ ServiceSends
  BY <1>9 DEF WatchSession, LinkBreaks, AppConnects, AppSends, ServiceSends, Order
<1>10. CASE AppEnds \/ ServiceEnds
  BY <1>10 DEF AppEnds, ServiceEnds, Order
<1>11. ASSUME NEW c \in Copiers, Copy(c) \/ CopyWrites(c)
       PROVE  /\ UNCHANGED <<main, session, service, opened>>
              /\ \A d \in Copiers : copier'[d] = "none" <=> copier[d] = "none"
              /\ "sstream" \in open /\ "sconn" \notin opened => "sstream" \in open'
  <2>1. CASE CopyReads(c) \/ CopyEnds(c) \/ CopyWriteFails(c) \/ CopyWrites(c)
    BY <2>1 DEF CopyReads, CopyEnds, CopyWriteFails, CopyWrites, Chunks
  <2>2. CASE CopyCloses(c)
    BY <2>2, EndNames DEF CopyCloses, Chunks, Copiers, CopiersOf, Order
  <2>3. QED
    BY <1>11, <2>1, <2>2 DEF Copy
<1>12. ASSUME UNCHANGED <<main, session, service, opened>>,
              \A d \in Copiers : copier'[d] = "none" <=> copier[d] = "none",
              "sstream" \in open /\ "sconn" \notin opened => "sstream" \in open'
       PROVE  Order'
  BY <1>12 DEF Order, Copiers, CopiersOf
<1>13. QED
  BY <1>1, <1>3, <1>4, <1>5, <1>6, <1>7, <1>8, <1>9, <1>10, <1>11, <1>12 DEF SNext, Tunnel

\* What ends the quiet does so for good: a path, a session or a service that is
\* gone does not come back.
LEMMA QuietBefore ==
    ASSUME STyped, Chunks, Order, SNext, Quiet'
    PROVE  Quiet /\ \A e \in Sides : ~Exit(e)
<1>1. \A e \in Sides : ~Exit(e)
  BY DEF Exit, STyped, Quiet
<1>2. ASSUME NEW c \in Copiers, Copy(c) \/ CopyWrites(c)
      PROVE  /\ UNCHANGED <<link, session, service, opened, sent>>
             /\ open' \subseteq open
  BY <1>2 DEF Copy, CopyReads, CopyEnds, CopyWriteFails, CopyCloses, CopyWrites
<1>3. ASSUME UNCHANGED <<link, session, service, opened, sent>>, open' \subseteq open,
             "sconn" \notin opened /\ "sstream" \in open => "sstream" \in open'
      PROVE  Quiet
  BY <1>3 DEF Quiet
<1>4. ASSUME NEW c \in Copiers, Copy(c) \/ CopyWrites(c)
      PROVE  Quiet
  <2>1. "sconn" \notin opened /\ "sstream" \in open => "sstream" \in open'
    <3>1. CASE CopyCloses(c)
      BY <3>1, EndNames DEF CopyCloses, Chunks, Copiers, CopiersOf, Order
    <3>2. CASE ~CopyCloses(c)
      BY <1>4, <3>2 DEF Copy, CopyReads, CopyEnds, CopyWriteFails, CopyWrites
    <3>3. QED
      BY <3>1, <3>2
  <2>2. QED
    BY <1>2, <1>3, <1>4, <2>1
<1>5. ASSUME NEW e \in Sides, SessionDies(e) \/ AcceptFails(e)
      PROVE  Quiet
  BY <1>5 DEF SessionDies, AcceptFails, STyped, Quiet
<1>6. CASE ClientStarts
  BY <1>1, <1>6 DEF ClientStarts, STyped, Quiet, Order, Sides
<1>7. CASE ServerStarts
  BY <1>1, <1>7 DEF ServerStarts, STyped, Quiet, Order, Sides
<1>8. ASSUME UNCHANGED <<link, session, sent>>, service \in {"none", "open"},
              "sstream" \in opened \ open => "sstream" \in opened' \ open',
              "sconn" \in opened' => "sconn" \in opened
       PROVE  Quiet
  BY <1>8 DEF Quiet
<1>9. service' = service => service \in {"none", "open"}
  BY DEF Quiet
<1>10. CASE ClientAccepts
  <2>1. UNCHANGED <<link, session, sent, service>>
    BY <1>10 DEF ClientAccepts
  <2>2. /\ "sstream" \in opened \ open => "sstream" \in opened' \ open'
        /\ "sconn" \in opened' => "sconn" \in opened
    BY <1>10 DEF ClientAccepts, EndsOf
  <2>3. QED
    BY <1>1, <1>8, <1>9, <2>1, <2>2
<1>11. CASE ServerAccepts
  <2>1. UNCHANGED <<link, session, sent, service>>
    BY <1>11 DEF ServerAccepts
  <2>2. /\ "sstream" \in opened \ open => "sstream" \in opened' \ open'
        /\ "sconn" \in opened' => "sconn" \in opened
    BY <1>11 DEF ServerAccepts
  <2>3. QED
    BY <1>1, <1>8, <1>9, <2>1, <2>2
<1>12. CASE ServerDials
  <2>1. UNCHANGED <<link, session, sent>>
    BY <1>12 DEF ServerDials
  <2>2. service = "none" /\ "sstream" \in open
    BY <1>12 DEF ServerDials, Order
  <2>3. QED
    BY <1>1, <2>1, <2>2 DEF Quiet
<1>13. CASE WatchSession \/ LinkBreaks \/ AppConnects \/ AppSends \/ AppEnds
  <2>1. UNCHANGED <<session, service, open, opened>> /\ (link' => link)
    BY <1>13 DEF WatchSession, LinkBreaks, AppConnects, AppSends, AppEnds
  <2>2. sent'["service"] = sent["service"]
    BY <1>13 DEF WatchSession, LinkBreaks, AppConnects, AppSends, AppEnds, Chunks
  <2>3. QED
    BY <1>1, <2>1, <2>2 DEF Quiet
<1>14. CASE ServiceSends \/ ServiceEnds
  <2>1. ~ServiceSends
    <3>1. SUFFICES ASSUME ServiceSends
                   PROVE  FALSE
      OBVIOUS
    <3>2. sent["service"] \in Nat /\ sent'["service"] = sent["service"] + 1
      BY <3>1 DEF ServiceSends, Chunks
    <3>3. QED
      BY <3>2 DEF Quiet
  <2>2. UNCHANGED <<link, session, open, opened, sent>> /\ service \in {"open", "half"}
        /\ service' # service /\ service' \in {"half", "closed"}
    BY <1>14, <2>1 DEF ServiceEnds
  <2>3. QED
    BY <2>2 DEF Quiet
<1>15. QED
  BY <1>1, <1>4, <1>5, <1>6, <1>7, <1>10, <1>11, <1>12, <1>13, <1>14 DEF SNext, Tunnel, Cleanup

LEMMA NoneDown ==
    ASSUME Chunks, Quiet
    PROVE  /\ waits["serverDown"] = 0 /\ waits["clientDown"] = 0
           /\ copier["serverDown"] # "write" /\ copier["clientDown"] # "write"
  BY DEF Chunks, Quiet, DownFlow, Holds, Copiers

\* Each side's copiers end for one reason only.
LEMMA EndsOrderly ==
    ASSUME STyped, Chunks, Order, Quiet, InOrder, NEW c \in Copiers, CopyEnds(c)
    PROVE  InOrder'
<1>1. /\ UNCHANGED <<app, open, opened, waits, sent, got>>
      /\ copier[c] = "read" /\ copier' = [copier EXCEPT ![c] = "close"]
      /\ AtEOF(c) \/ Src[c] \notin open \/ Broken(Src[c])
  BY DEF CopyEnds
<1>2. UpFlow' = UpFlow
  BY <1>1 DEF UpFlow, Holds, Chunks, Copiers
<1>3. AtEOF(c) \/ Src[c] \notin open
  BY <1>1, EndNames DEF Broken, Stream, Quiet, Sides, Copiers
<1>4. CASE c = "clientUp"
  <2>1. app \in {"half", "closed"} /\ waits["clientUp"] = 0
    BY <1>1, <1>3, <1>4, EndNames
       DEF AtEOF, FinAt, Stream, InOrder, Ending, EndsOf, CopiersOf, Order, Copiers, STyped
  <2>2. QED
    BY <1>1, <1>2, <1>4, <2>1 DEF InOrder, Ending, CopiersOf, Copiers, Chunks
<1>5. CASE c = "clientDown"
  <2>1. Ending("client")
    BY <1>1, <1>3, <1>5, EndNames
       DEF AtEOF, FinAt, Stream, FarStream, InOrder, Ending, EndsOf, CopiersOf, Order, Copiers, STyped
  <2>2. QED
    BY <1>1, <1>2, <1>5, <2>1 DEF InOrder, Ending, CopiersOf, Copiers, Chunks
<1>6. CASE c = "serverUp"
  <2>1. "cstream" \in opened \ open /\ waits["serverUp"] = 0
    BY <1>1, <1>3, <1>6, EndNames
       DEF AtEOF, FinAt, Stream, FarStream, InOrder, Ending, EndsOf, CopiersOf, Order, Copiers, STyped
  <2>2. QED
    BY <1>1, <1>2, <1>6, <2>1 DEF InOrder, Ending, CopiersOf, Copiers, Chunks
<1>7. CASE c = "serverDown"
  <2>1. Ending("server")
    BY <1>1, <1>3, <1>7, EndNames
       DEF AtEOF, FinAt, Stream, Ending, EndsOf, CopiersOf, Order, Copiers, Quiet
  <2>2. QED
    BY <1>1, <1>2, <1>7, <2>1 DEF InOrder, Ending, CopiersOf, Copiers, Chunks
<1>8. QED
  BY <1>4, <1>5, <1>6, <1>7 DEF Copiers

LEMMA CopiesOrderly ==
    ASSUME STyped, Chunks, Order, Quiet, InOrder, NEW c \in Copiers, Copy(c) \/ CopyWrites(c)
    PROVE  InOrder'
<1>1. CASE CopyReads(c)
  <2>1. UpFlow' = UpFlow
    BY <1>1, NoneDown DEF CopyReads, UpFlow, Holds, Chunks, Copiers
  <2>2. QED
    BY <1>1, <2>1, NoneDown
       DEF CopyReads, InOrder, Ending, EndsOf, CopiersOf, Copiers, Chunks
<1>2. CASE CopyWriteFails(c)
  <2>1. FALSE
    <3>1. c \in {"clientUp", "serverUp"}
      BY <1>2, NoneDown DEF CopyWriteFails, Copiers
    <3>2. Dst[c] \notin open \/ FinAt(Dst[c])
      BY <1>2, <3>1, EndNames DEF CopyWriteFails, Broken, Stream, Quiet, Sides
    <3>3. CASE c = "clientUp"
      BY <1>2, <3>2, <3>3, EndNames
         DEF CopyWriteFails, FinAt, Stream, FarStream, InOrder, Ending, EndsOf, CopiersOf, Order,
             Copiers, STyped
    <3>4. CASE c = "serverUp"
      BY <1>2, <3>2, <3>4, EndNames
         DEF CopyWriteFails, FinAt, Stream, InOrder, Ending, EndsOf, CopiersOf, Order,
             Copiers, STyped, Quiet
    <3>5. QED
      BY <3>1, <3>3, <3>4
  <2>2. QED
    BY <2>1
<1>3. CASE CopyCloses(c)
  <2>1. UpFlow' = UpFlow
    BY <1>3 DEF CopyCloses, UpFlow, Holds, Chunks, Copiers
  <2>2. CASE c \in CopiersOf("client")
    <3>1. Ending("client")
      BY <1>3, <2>2 DEF CopyCloses, Ending
    <3>2. /\ EndsOf("server") \intersect (opened' \ open') = EndsOf("server") \intersect (opened \ open)
          /\ "cstream" \in opened \ open => "cstream" \in opened' \ open'
      BY <1>3, <2>2, EndNames DEF CopyCloses, EndsOf, CopiersOf, STyped
    <3>3. QED
      BY <1>3, <2>1, <2>2, <3>1, <3>2 DEF CopyCloses, InOrder, Ending, CopiersOf, Copiers, Chunks
  <2>3. CASE c \in CopiersOf("server")
    <3>1. Ending("server")
      BY <1>3, <2>3 DEF CopyCloses, Ending
    <3>2. /\ EndsOf("client") \intersect (opened' \ open') = EndsOf("client") \intersect (opened \ open)
          /\ "cstream" \in opened \ open => "cstream" \in opened' \ open'
      BY <1>3, <2>3, EndNames DEF CopyCloses, EndsOf, CopiersOf, STyped
    <3>3. QED
      BY <1>3, <2>1, <2>3, <3>1, <3>2 DEF CopyCloses, InOrder, Ending, CopiersOf, Copiers, Chunks
  <2>4. QED
    BY <2>2, <2>3 DEF Copiers, CopiersOf
<1>4. CASE CopyWrites(c)
  <2>1. c \in {"clientUp", "serverUp"} /\ copier[c] = "write"
    BY <1>4, NoneDown DEF CopyWrites, Copiers
  <2>2. /\ UNCHANGED <<app, open, opened, sent>>
        /\ copier' = [copier EXCEPT ![c] = "read"]
    BY <1>4 DEF CopyWrites
  <2>3. CASE c = "clientUp"
    <3>1. ~Ending("client") /\ "cstream" \in open
      BY <1>4, <2>1, <2>3, EndNames DEF InOrder, CopyWrites
    <3>2. ~Ending("server")
      BY <3>1 DEF InOrder
    <3>3. ~FinAt("cstream")
      BY <3>2 DEF FinAt, Stream, FarStream, Ending, EndsOf
    <3>4. waits' = [waits EXCEPT !["serverUp"] = @ + 1] /\ got' = got
      BY <1>4, <2>3, <3>3, EndNames DEF CopyWrites, Stream
    <3>5. UpFlow' = UpFlow
      BY <2>1, <2>2, <2>3, <3>4 DEF UpFlow, Holds, Chunks, Copiers
    <3>6. ~Ending("client")' /\ ~Ending("server")'
      BY <2>2, <2>3, <3>1, <3>2 DEF Ending, EndsOf, CopiersOf, Chunks, Copiers
    <3>7. QED
      BY <2>2, <3>5, <3>6 DEF InOrder
  <2>4. CASE c = "serverUp"
    <3>1. ~Ending("server")
      BY <2>1, <2>4 DEF InOrder
    <3>2. waits' = waits /\ got' = got + 1
      BY <1>4, <2>4, EndNames DEF CopyWrites, Stream, Quiet
    <3>3. UpFlow' = UpFlow
      BY <2>1, <2>2, <2>4, <3>2 DEF UpFlow, Holds, Chunks, Copiers
    <3>4. ~Ending("server")' /\ (Ending("client")' => Ending("client"))
      BY <2>2, <2>4, <3>1 DEF Ending, EndsOf, CopiersOf, Chunks, Copiers
    <3>5. copier'["clientUp"] = copier["clientUp"]
      BY <2>2, <2>4 DEF Chunks, Copiers
    <3>6. QED
      BY <2>2, <3>2, <3>3, <3>4, <3>5 DEF InOrder
  <2>5. QED
    BY <2>1, <2>3, <2>4
<1>5. QED
  BY <1>1, <1>2, <1>3, <1>4, EndsOrderly DEF Copy

LEMMA NextInOrder == StreamInv /\ [SNext]_svars => (Quiet => InOrder)'
<1> SUFFICES ASSUME StreamInv, [SNext]_svars, Quiet'
             PROVE  InOrder'
  OBVIOUS
<1>1. CASE UNCHANGED svars
  BY <1>1 DEF svars, StreamInv, Quiet, InOrder, UpFlow, Holds, Ending
<1>2. CASE SNext
  <2>1. /\ STyped /\ Chunks /\ Order /\ Quiet /\ InOrder
        /\ \A e \in Sides : ~Exit(e)
    BY <1>2, QuietBefore DEF StreamInv
  <2>2. ASSUME UNCHANGED <<app, open, opened, copier, waits, sent, got>>
        PROVE  InOrder'
    BY <2>1, <2>2 DEF InOrder, UpFlow, Holds, Ending
  <2>3. ASSUME NEW e \in Sides, SessionDies(e) \/ AcceptFails(e)
        PROVE  InOrder'
    BY <2>2, <2>3 DEF SessionDies, AcceptFails
  <2>4. CASE ClientStarts \/ ServerStarts
    BY <2>1, <2>2, <2>4 DEF ClientStarts, ServerStarts, Sides
  <2>5. CASE ClientAccepts
    <3>1. session["client"] # "closed"
      BY <2>1 DEF Quiet, Sides
    <3>2. /\ open' = open \union EndsOf("client") /\ opened' = opened \union EndsOf("client")
          /\ copier' = [copier EXCEPT !["clientUp"] = "read", !["clientDown"] = "read"]
          /\ UNCHANGED <<app, waits, sent, got>>
          /\ "cconn" \notin opened
      BY <2>5, <3>1 DEF ClientAccepts
    <3>3. copier["clientUp"] = "none" /\ "cstream" \notin opened
      BY <2>1, <3>2 DEF Order, CopiersOf
    <3>4. UpFlow' = UpFlow
      BY <2>1, <3>2, <3>3 DEF UpFlow, Holds, Chunks, Copiers
    <3>5. ~Ending("client")' /\ (Ending("server")' => Ending("server"))
      BY <2>1, <3>2 DEF Ending, EndsOf, CopiersOf, Chunks, Copiers
    <3>6. ~Ending("server")
      BY <2>1, <3>3 DEF InOrder
    <3>7. QED
      BY <2>1, <3>2, <3>4, <3>5, <3>6 DEF InOrder
  <2>6. CASE ServerAccepts
    <3>1. /\ open' = open \union {"sstream"} /\ opened' = opened \union {"sstream"}
          /\ UNCHANGED <<app, copier, waits, sent, got>>
      BY <2>6 DEF ServerAccepts
    <3>2. UpFlow' = UpFlow
      BY <3>1 DEF UpFlow, Holds
    <3>3. (Ending("client")' => Ending("client")) /\ (Ending("server")' => Ending("server"))
      BY <3>1 DEF Ending, EndsOf
    <3>4. QED
      BY <2>1, <3>1, <3>2, <3>3 DEF InOrder
  <2>7. CASE ServerDials
    <3>1. main["server"] = "dial" /\ "sconn" \notin opened /\ "sstream" \in open
      BY <2>1, <2>7 DEF ServerDials, Order
    <3>2. "sstream" \in opened
      BY <2>1, <3>1 DEF STyped
    <3>3. /\ open' = open \union {"sconn"} /\ opened' = opened \union {"sconn"}
          /\ copier' = [copier EXCEPT !["serverUp"] = "read", !["serverDown"] = "read"]
          /\ UNCHANGED <<app, waits, sent, got>>
      BY <2>7, <3>1, <3>2 DEF ServerDials, Quiet
    <3>4. copier["serverUp"] = "none" /\ copier["serverDown"] = "none"
      BY <2>1, <3>1 DEF Order, CopiersOf
    <3>5. UpFlow' = UpFlow
      BY <2>1, <3>3, <3>4 DEF UpFlow, Holds, Chunks, Copiers
    <3>6. ~Ending("server")' /\ (Ending("client")' => Ending("client"))
      BY <2>1, <3>1, <3>3 DEF Ending, EndsOf, CopiersOf, Chunks, Copiers
    <3>7. copier'["clientUp"] = copier["clientUp"]
      BY <2>1, <3>3 DEF Chunks, Copiers
    <3>8. QED
      BY <2>1, <3>3, <3>5, <3>6, <3>7 DEF InOrder
  <2>8. CASE WatchSession \/ LinkBreaks \/ ServiceEnds
    BY <2>2, <2>8 DEF WatchSession, LinkBreaks, ServiceEnds
  <2>9. CASE ServiceSends
    <3>1. sent["service"] \in Nat /\ sent'["service"] = sent["service"] + 1
      BY <2>1, <2>9 DEF ServiceSends, Chunks
    <3>2. QED
      BY <3>1 DEF Quiet
  <2>10. CASE AppConnects
    BY <2>1, <2>10 DEF AppConnects, InOrder, UpFlow, Holds, Ending
  <2>11. CASE AppEnds
    BY <2>1, <2>11 DEF AppEnds, InOrder, UpFlow, Holds, Ending
  <2>12. CASE AppSends
    <3>1. ~Ending("client") /\ UNCHANGED <<app, open, opened, copier, got>>
      BY <2>1, <2>12 DEF AppSends, InOrder
    <3>2. UpFlow' = UpFlow + 1 /\ sent'["app"] = sent["app"] + 1
      BY <2>1, <2>12 DEF AppSends, UpFlow, Holds, Chunks, Copiers
    <3>3. ~Ending("client")' /\ (Ending("server")' <=> Ending("server"))
      BY <3>1 DEF Ending
    <3>4. waits'["serverUp"] = waits["serverUp"]
      BY <2>1, <2>12 DEF AppSends, Chunks, Copiers
    <3>5. QED
      BY <2>1, <3>1, <3>2, <3>3, <3>4 DEF InOrder
  <2>13. QED
    BY <1>2, <2>1, <2>3, <2>4, <2>5, <2>6, <2>7, <2>8, <2>9, <2>10, <2>11, <2>12, CopiesOrderly
       DEF SNext, Tunnel, Cleanup
<1>3. QED
  BY <1>1, <1>2

LEMMA NextStream == StreamInv /\ [SNext]_svars => StreamInv'
  BY NextSTyped, NextChunks, NextOrder, NextInOrder DEF StreamInv

LEMMA StreamEOF == StreamInv => EOFAfterData
<1> SUFFICES ASSUME StreamInv, link, \A e \in Sides : session[e] = "open",
                    service = "open", sent["service"] = 0, "sconn" \notin open
             PROVE  got = sent["app"]
  BY DEF EOFAfterData
<1>1. "sconn" \in opened \ open /\ Quiet
  BY DEF StreamInv, Order, Quiet
<1>2. Ending("server") /\ InOrder
  BY <1>1 DEF StreamInv, Ending, EndsOf
<1>3. "cstream" \in opened \ open /\ waits["serverUp"] = 0 /\ copier["serverUp"] # "write"
  BY <1>2 DEF InOrder
<1>4. Ending("client")
  BY <1>3 DEF Ending, EndsOf
<1>5. waits["clientUp"] = 0 /\ copier["clientUp"] # "write"
  BY <1>2, <1>4 DEF InOrder
<1>6. QED
  BY <1>2, <1>3, <1>5 DEF InOrder, UpFlow, Holds, StreamInv, Chunks

LEMMA StreamTypes == STyped /\ Chunks => STypeOK
<1> SUFFICES ASSUME STyped, Chunks
             PROVE  waits \in [Copiers -> 0..MaxChunks] /\ got \in 0..MaxChunks
  BY DEF STyped, Chunks, STypeOK
<1>1. /\ \A c \in Copiers : waits[c] \in Nat /\ Holds(c) \in Nat
      /\ got \in Nat /\ MaxChunks \in Nat
      /\ sent["app"] \in 0..MaxChunks /\ sent["service"] \in 0..MaxChunks
  BY StreamTunnelAssumption DEF Chunks, Holds
<1>2. got \in 0..MaxChunks /\ waits["clientUp"] \in 0..MaxChunks /\ waits["serverUp"] \in 0..MaxChunks
  BY <1>1 DEF Chunks, UpFlow, Copiers
<1>3. waits["clientDown"] \in 0..MaxChunks /\ waits["serverDown"] \in 0..MaxChunks
  BY <1>1 DEF Chunks, DownFlow, Copiers
<1>4. QED
  BY <1>2, <1>3 DEF Chunks, Copiers

-----------------------------------------------------------------------------
(* The SOCKS5 server. *)

\* The handlers that have begun.
Begun == {h \in Handlers : pc[h] # "idle"}

\* Each of them has made Conns longer by one at most.
XTypeInv ==
    /\ XTypeOK
    /\ length <= Cardinality(Begun)
    /\ \A h \in Handlers : pc[h] = "store" => index[h] \in 1..Cardinality(Begun)
    /\ \A h \in Handlers : pc[h] \in {"scan", "cut"} => index[h] >= 1

\* A handler's connection is in Conns: the cleanup has not cut it out yet.
Listed(h) == \/ pc[h] \in {"hello", "request", "dial", "reply", "read", "write", "range", "cut"}
             \/ pc[h] = "scan" /\ limit[h] = length

\* Conns holds the listed connections, each once.
ListsOnce ==
    /\ \A i, j \in 1..length : array[i] = array[j] => i = j
    /\ \A h \in Handlers : Listed(h) <=> \E i \in 1..length : array[i] = h

\* Where the one handler that changes Conns is: behind the last element, on its
\* way to its own element, at it, or past it, with the array shifted and the
\* limit of its loop one more than there are elements.
AlonePlace(h) ==
    /\ pc[h] = "store" => index[h] = length + 1 /\ array[length + 1] = h
    /\ pc[h] = "cut" => limit[h] = length /\ index[h] \in 1..length /\ array[index[h]] = h
    /\ pc[h] = "scan" =>
          \/ limit[h] = length /\ \A i \in 1..(index[h] - 1) : array[i] # h
          \/ limit[h] = length + 1 /\ \A i \in index[h]..limit[h] : array[i] # h

Undisturbed ==
    /\ panic # "list"
    /\ \A g, h \in Handlers : Changing(g) /\ Changing(h) => g = h
    /\ ListsOnce
    /\ \A h \in Handlers : AlonePlace(h)

RaceInv == ~raced => Undisturbed

LEMMA BegunGrows ==
    ASSUME XTypeOK
    PROVE  /\ Cardinality(Handlers) \in Nat
           /\ Cardinality(Begun) \in Nat /\ Cardinality(Begun) <= Cardinality(Handlers)
<1>1. Begun \subseteq Handlers /\ IsFiniteSet(Handlers)
  BY Socks5Assumption DEF Begun
<1>2. QED
  BY <1>1, FS_Subset, FS_CardinalityType

LEMMA OneMoreBegins ==
    ASSUME XTypeOK, NEW h \in Handlers, AppendConn(h)
    PROVE  Cardinality(Begun') = Cardinality(Begun) + 1
<1>1. h \notin Begun /\ Begun' = Begun \union {h}
  BY DEF AppendConn, Moves, Begun, XTypeOK
<1>2. IsFiniteSet(Begun)
  BY Socks5Assumption, FS_Subset DEF Begun
<1>3. QED
  BY <1>1, <1>2, FS_AddElement

\* The steps that only move a handler on, one of its two copiers or its ends.
Passes(h) ==
    /\ UNCHANGED <<array, length, index, limit, raced>>
    /\ panic' \in {panic, "domain"}
    /\ \/ UNCHANGED pc
       \/ \E to \in {"request", "dial", "reply", "read", "write", "range"} :
             /\ pc[h] \in {"hello", "request", "dial", "reply", "read", "write"}
             /\ pc' = [pc EXCEPT ![h] = to]
       \/ pc[h] = "close" /\ pc' = [pc EXCEPT ![h] = "done"]

LEMMA PassingSteps ==
    ASSUME XTypeOK, NEW h \in Handlers,
           \/ CloseConn(h) \/ ClientGone(h) \/ DialRemote(h) \/ Writes(h) \/ RemoteDone(h)
           \/ UpEnds(h) \/ HandShake(h) \/ ParseTarget(h) \/ RemoteSends(h)
           \/ ClientCloses(h) \/ RemoteCloses(h)
    PROVE  Passes(h)
<1>1. CASE CloseConn(h)
  BY <1>1 DEF CloseConn, Moves, Passes
<1>2. CASE ClientGone(h)
  BY <1>2 DEF ClientGone, Moves, Passes
<1>3. CASE DialRemote(h) \/ Reply(h)
  BY <1>3 DEF DialRemote, Reply, Moves, Passes
<1>4. CASE WriteToClient(h) \/ RemoteDone(h) \/ RemoteSends(h)
  BY <1>4 DEF WriteToClient, RemoteDone, RemoteSends, Moves, Passes
<1>5. CASE UpEnds(h) \/ ClientCloses(h) \/ RemoteCloses(h)
  BY <1>5 DEF UpEnds, ClientCloses, RemoteCloses, Passes
<1>6. CASE HandShake(h)
  <2>1. PICK to \in {"request", "range"} : Moves(h, "hello", to)
    BY <1>6 DEF HandShake
  <2>2. QED
    BY <1>6, <2>1 DEF HandShake, Moves, Passes
<1>7. CASE ParseTarget(h)
  <2>1. /\ \E to \in {"dial", "range"} : Moves(h, "request", to)
        /\ panic' \in {panic, "domain"}
    BY <1>7 DEF ParseTarget
  <2>2. PICK to \in {"dial", "range"} : Moves(h, "request", to)
    BY <2>1
  <2>3. QED
    BY <1>7, <2>1, <2>2 DEF ParseTarget, Moves, Passes
<1>8. QED
  BY <1>1, <1>2, <1>3, <1>4, <1>5, <1>6, <1>7 DEF Writes

\* Every step is one of those, or one of the five that change Conns.
LEMMA SocksSteps ==
    ASSUME XTypeOK, [XNext]_xvars
    PROVE  \/ UNCHANGED xvars
           \/ \E h \in Handlers : \/ Passes(h)
                                  \/ AppendConn(h) \/ StoreLength(h) \/ RangeConns(h)
                                  \/ ScanConns(h) \/ CutConn(h)
  BY PassingSteps DEF XNext, Runs, UpRuns

\* What is left of a handler's state, whoever steps.
EndsTyped ==
    /\ up \in [Handlers -> {"none", "run", "done"}]
    /\ client \in [Handlers -> {"open", "closed"}]
    /\ remote \in [Handlers -> {"none", "open", "closed"}]
    /\ raced \in BOOLEAN
    /\ panic \in {"no", "list", "domain"}

LEMMA NextEndsTyped == EndsTyped /\ XTypeOK /\ [XNext]_xvars => EndsTyped'
<1> SUFFICES ASSUME EndsTyped, XTypeOK, [XNext]_xvars
             PROVE  EndsTyped'
  OBVIOUS
<1>1. CASE UNCHANGED xvars
  BY <1>1 DEF xvars, EndsTyped
<1>2. ASSUME NEW h \in Handlers,
             \/ CloseConn(h) \/ ClientGone(h) \/ WriteToClient(h) \/ RemoteDone(h)
             \/ HandShake(h) \/ RemoteSends(h) \/ StoreLength(h) \/ ScanConns(h)
      PROVE  UNCHANGED <<up, client, remote, raced, panic>>
  BY <1>2 DEF CloseConn, ClientGone, WriteToClient, RemoteDone, HandShake, RemoteSends,
              StoreLength, ScanConns
<1>3. CASE UNCHANGED <<up, client, remote, raced, panic>>
  BY <1>3 DEF EndsTyped
<1>4. ASSUME NEW h \in Handlers,
             UpEnds(h) \/ ClientCloses(h) \/ RemoteCloses(h) \/ DialRemote(h) \/ Reply(h)
      PROVE  EndsTyped'
  BY <1>4 DEF UpEnds, ClientCloses, RemoteCloses, DialRemote, Reply, EndsTyped
<1>5. ASSUME NEW h \in Handlers, AppendConn(h) \/ RangeConns(h)
      PROVE  EndsTyped'
  BY <1>5 DEF AppendConn, RangeConns, Begin, EndsTyped
<1>6. ASSUME NEW h \in Handlers, CutConn(h)
      PROVE  EndsTyped'
  BY <1>6 DEF CutConn, EndsTyped
<1>7. ASSUME NEW h \in Handlers, ParseTarget(h)
      PROVE  EndsTyped'
  <2>1. panic' \in {panic, "domain"}
    BY <1>7 DEF ParseTarget
  <2>2. QED
    BY <1>7, <2>1 DEF ParseTarget, EndsTyped
<1>8. QED
  BY <1>1, <1>2, <1>3, <1>4, <1>5, <1>6, <1>7 DEF XNext, Runs, UpRuns, Writes

LEMMA NextXTypes == XTypeInv /\ [XNext]_xvars => XTypeInv'
<1> SUFFICES ASSUME XTypeInv, [XNext]_xvars
             PROVE  XTypeInv'
  OBVIOUS
<1> DEFINE N == Cardinality(Handlers)
           b == Cardinality(Begun)
           PCs == {"idle", "store", "hello", "request", "dial", "reply", "read",
                   "write", "range", "scan", "cut", "close", "done"}
           List == /\ pc \in [Handlers -> PCs]
                   /\ array \in [1..N -> Handlers]
                   /\ length \in 0..N
                   /\ index \in [Handlers -> 0..(N + 1)]
                   /\ limit \in [Handlers -> 0..N]
                   /\ length <= b
                   /\ \A h \in Handlers : pc[h] = "store" => index[h] \in 1..b
                   /\ \A h \in Handlers : pc[h] \in {"scan", "cut"} => index[h] >= 1
<1>1. EndsTyped' /\ List /\ N \in Nat /\ b \in Nat /\ b <= N
  BY NextEndsTyped, BegunGrows DEF XTypeInv, XTypeOK, EndsTyped
<1>2. (EndsTyped /\ List)' => XTypeInv'
  BY DEF XTypeInv, XTypeOK, EndsTyped
<1>3. ASSUME pc' \in [Handlers -> PCs], \A h \in Handlers : pc'[h] = "idle" <=> pc[h] = "idle"
      PROVE  b' = b
  BY <1>3 DEF Begun
<1> HIDE DEF b
<1>4. CASE UNCHANGED xvars
  <2>1. b' = b
    BY <1>1, <1>3, <1>4 DEF xvars
  <2>2. QED
    BY <1>1, <1>2, <1>4, <2>1 DEF xvars
<1>5. ASSUME NEW h \in Handlers, Passes(h)
      PROVE  List'
  <2>1. /\ pc' \in [Handlers -> PCs]
        /\ \A g \in Handlers : /\ pc'[g] = "idle" <=> pc[g] = "idle"
                               /\ pc'[g] = "store" => pc[g] = "store"
                               /\ pc'[g] \in {"scan", "cut"} => pc[g] \in {"scan", "cut"}
    BY <1>1, <1>5 DEF Passes
  <2>2. b' = b
    BY <1>3, <2>1
  <2>3. QED
    BY <1>1, <1>5, <2>1, <2>2 DEF Passes
<1>6. ASSUME NEW h \in Handlers, AppendConn(h)
      PROVE  List'
  <2>1. b' = b + 1
    BY <1>6, OneMoreBegins DEF XTypeInv, b
  <2>2. b + 1 <= N
    <3>1. IsFiniteSet(Handlers) /\ Begun' \subseteq Handlers
      BY Socks5Assumption DEF Begun
    <3>2. Cardinality(Begun') <= N
      BY <3>1, FS_Subset
    <3>3. QED
      BY <2>1, <3>2 DEF b
  <2>3. QED
    BY <1>1, <1>6, <2>1, <2>2 DEF AppendConn, Moves
<1>7. ASSUME NEW h \in Handlers, StoreLength(h)
      PROVE  List'
  <2>1. pc' \in [Handlers -> PCs] /\ \A g \in Handlers : pc'[g] = "idle" <=> pc[g] = "idle"
    BY <1>1, <1>7 DEF StoreLength, Moves
  <2>2. b' = b
    BY <1>3, <2>1
  <2>3. QED
    BY <1>1, <1>7, <2>1, <2>2 DEF StoreLength, Moves
<1>8. ASSUME NEW h \in Handlers, RangeConns(h)
      PROVE  List'
  <2>1. pc' \in [Handlers -> PCs] /\ \A g \in Handlers : pc'[g] = "idle" <=> pc[g] = "idle"
    BY <1>1, <1>8 DEF RangeConns, Moves
  <2>2. b' = b
    BY <1>3, <2>1
  <2>3. QED
    BY <1>1, <1>8, <2>1, <2>2 DEF RangeConns, Moves
<1>9. ASSUME NEW h \in Handlers, ScanConns(h)
      PROVE  List'
  <2> DEFINE Step(to, i, l) ==
            /\ pc[h] = "scan" /\ pc' = [pc EXCEPT ![h] = to]
            /\ index' = [index EXCEPT ![h] = i] /\ limit' = [limit EXCEPT ![h] = l]
            /\ to # "close" => i >= 1
  <2>1. \E to \in {"scan", "cut", "close"}, i \in 0..(N + 1), l \in {0, limit[h]} : Step(to, i, l)
    <3>1. CASE index[h] > limit[h]
      <4>1. Step("close", 0, 0) /\ 0 \in 0..(N + 1)
        BY <1>1, <1>9, <3>1 DEF ScanConns, Moves
      <4>2. QED
        BY <4>1
    <3>2. CASE index[h] <= limit[h]
      <4>1. limit' = [limit EXCEPT ![h] = limit[h]] /\ pc[h] = "scan"
        BY <1>1, <1>9, <3>2 DEF ScanConns, Moves
      <4>2. index[h] \in 1..N /\ index[h] + 1 \in 1..(N + 1)
        BY <1>1, <3>2, <4>1
      <4>3. CASE array[index[h]] = h
        <5>1. pc' = [pc EXCEPT ![h] = "cut"] /\ index' = [index EXCEPT ![h] = index[h]]
          BY <1>1, <1>9, <3>2, <4>3 DEF ScanConns, Moves
        <5>2. Step("cut", index[h], limit[h]) /\ index[h] \in 0..(N + 1)
          BY <1>1, <4>1, <4>2, <5>1
        <5>3. QED
          BY <5>2
      <4>4. CASE array[index[h]] # h
        <5>1. pc' = [pc EXCEPT ![h] = "scan"] /\ index' = [index EXCEPT ![h] = index[h] + 1]
          BY <1>1, <1>9, <3>2, <4>4 DEF ScanConns, Moves
        <5>2. Step("scan", index[h] + 1, limit[h]) /\ index[h] + 1 \in 0..(N + 1)
          BY <1>1, <4>1, <4>2, <5>1
        <5>3. QED
          BY <5>2
      <4>5. QED
        BY <4>3, <4>4
    <3>3. index[h] > limit[h] \/ index[h] <= limit[h]
      BY <1>1
    <3>4. QED
      BY <3>1, <3>2, <3>3
  <2>2. PICK to \in {"scan", "cut", "close"}, i \in 0..(N + 1), l \in {0, limit[h]} : Step(to, i, l)
    BY <2>1
  <2>3. pc' \in [Handlers -> PCs] /\ \A g \in Handlers : pc'[g] = "idle" <=> pc[g] = "idle"
    BY <1>1, <2>2
  <2>4. b' = b
    BY <1>3, <2>3
  <2>5. index' \in [Handlers -> 0..(N + 1)] /\ limit' \in [Handlers -> 0..N]
    BY <1>1, <2>2
  <2>6. /\ \A g \in Handlers : pc'[g] = "store" => index'[g] \in 1..b
        /\ \A g \in Handlers : pc'[g] \in {"scan", "cut"} => index'[g] >= 1
    BY <1>1, <2>2
  <2>7. UNCHANGED <<array, length>>
    BY <1>9 DEF ScanConns
  <2>8. QED
    BY <1>1, <2>3, <2>4, <2>5, <2>6, <2>7
<1>10. ASSUME NEW h \in Handlers, CutConn(h)
       PROVE  List'
  <2>1. pc' \in [Handlers -> PCs] /\ \A g \in Handlers : pc'[g] = "idle" <=> pc[g] = "idle"
    BY <1>1, <1>10 DEF CutConn, Moves
  <2>2. b' = b
    BY <1>3, <2>1
  <2>3. CASE index[h] > length
    BY <1>1, <1>10, <2>1, <2>2, <2>3 DEF CutConn, Moves
  <2>4. CASE index[h] <= length
    <3>1. /\ array' = [j \in DOMAIN array |->
                          IF j \in index[h]..(length - 1) THEN array[j + 1] ELSE array[j]]
          /\ length' = length - 1
          /\ index' = [index EXCEPT ![h] = index[h] + 1]
          /\ limit' = limit
      BY <1>1, <1>10, <2>4 DEF CutConn, Cut
    <3>2. length \in 1..N /\ index[h] + 1 \in 1..(N + 1)
      BY <1>1, <1>10, <2>4 DEF CutConn, Moves
    <3>3. array' \in [1..N -> Handlers]
      BY <1>1, <3>1, <3>2
    <3>4. QED
      BY <1>1, <1>10, <2>1, <2>2, <3>1, <3>2, <3>3 DEF CutConn, Moves
  <2>5. QED
    BY <1>1, <2>3, <2>4
<1>11. QED
  BY <1>1, <1>2, <1>4, <1>5, <1>6, <1>7, <1>8, <1>9, <1>10, SocksSteps DEF XTypeInv

LEMMA PassingUndisturbed ==
    ASSUME XTypeInv, Undisturbed, NEW h \in Handlers, Passes(h)
    PROVE  Undisturbed'
<1>1. pc \in [Handlers -> {"idle", "store", "hello", "request", "dial", "reply", "read", "write", "range",
                           "scan", "cut", "close", "done"}]
  BY DEF XTypeInv, XTypeOK
<1>2. UNCHANGED <<array, length, index, limit>> /\ panic' # "list"
  BY DEF Passes, Undisturbed
<1>3. \A g \in Handlers :
          /\ pc'[g] \in {"store", "scan", "cut"} \/ pc[g] \in {"store", "scan", "cut"} => pc'[g] = pc[g]
          /\ pc'[g] \in {"hello", "request", "dial", "reply", "read", "write", "range"}
                <=> pc[g] \in {"hello", "request", "dial", "reply", "read", "write", "range"}
  BY <1>1 DEF Passes
<1>4. \A g \in Handlers : /\ Listed(g)' <=> Listed(g)
                          /\ Changing(g)' <=> Changing(g)
                          /\ AlonePlace(g)' <=> AlonePlace(g)
  BY <1>2, <1>3 DEF Listed, Changing, AlonePlace
<1>5. ListsOnce'
  BY <1>2, <1>4 DEF Undisturbed, ListsOnce
<1>6. QED
  BY <1>2, <1>4, <1>5 DEF Undisturbed

\* What stays when h alone changes Conns, or has just changed it: the others are
\* where they were, and not in the middle of a change.
LEMMA OthersUndisturbed ==
    ASSUME XTypeOK, XTypeOK', NEW h \in Handlers,
           \A g \in Handlers \ {h} : ~Changing(g) /\ pc'[g] = pc[g],
           panic' # "list", ListsOnce', AlonePlace(h)'
    PROVE  Undisturbed'
  BY DEF Undisturbed, Changing, AlonePlace

LEMMA OthersListed ==
    ASSUME NEW h \in Handlers, \A g \in Handlers \ {h} : ~Changing(g) /\ pc'[g] = pc[g]
    PROVE  \A g \in Handlers \ {h} : Listed(g)' <=> Listed(g)
  BY DEF Changing, Listed

LEMMA AppendUndisturbed ==
    ASSUME XTypeInv, XTypeInv', Undisturbed, NEW h \in Handlers, AppendConn(h), ~raced'
    PROVE  Undisturbed'
<1> DEFINE N == Cardinality(Handlers)
<1>1. /\ array \in [1..N -> Handlers] /\ length \in 0..N /\ N \in Nat
      /\ length' = length /\ pc[h] = "idle" /\ pc' = [pc EXCEPT ![h] = "store"]
      /\ pc \in [Handlers -> {"idle", "store", "hello", "request", "dial", "reply", "read", "write",
                              "range", "scan", "cut", "close", "done"}]
      /\ panic' = panic /\ index' = [index EXCEPT ![h] = length + 1]
      /\ index \in [Handlers -> 0..(N + 1)]
      /\ array' = [array EXCEPT ![length + 1] = h]
  BY BegunGrows DEF AppendConn, Moves, XTypeInv, XTypeOK
<1>2. \A g \in Handlers \ {h} : ~Changing(g) /\ pc'[g] = pc[g]
  BY <1>1 DEF AppendConn, Begin
<1>3. length + 1 \in 1..N
  <2>1. IsFiniteSet(Handlers) /\ Begun' \subseteq Handlers
    BY Socks5Assumption DEF Begun
  <2>2. Cardinality(Begun') <= N /\ Cardinality(Begun') = Cardinality(Begun) + 1
    BY <2>1, FS_Subset, OneMoreBegins DEF XTypeInv
  <2>3. Cardinality(Begun) \in Nat /\ length <= Cardinality(Begun)
    BY BegunGrows DEF XTypeInv
  <2>4. QED
    BY <1>1, <2>2, <2>3
<1>4. array'[length + 1] = h /\ \A i \in 1..length : array'[i] = array[i] /\ array[i] \in Handlers
  BY <1>1, <1>3
<1>5. ~Listed(h) /\ ~Listed(h)'
  BY <1>1 DEF Listed
<1>6. ListsOnce'
  <2>1. \A i, j \in 1..length : array'[i] = array'[j] => i = j
    BY <1>4 DEF Undisturbed, ListsOnce
  <2>2. \A g \in Handlers : Listed(g)' <=> \E i \in 1..length : array[i] = g
    BY <1>2, <1>5, OthersListed DEF Undisturbed, ListsOnce
  <2>3. \A g \in Handlers : Listed(g)' <=> \E i \in 1..length : array'[i] = g
    BY <1>4, <2>2
  <2>4. QED
    BY <1>1, <2>1, <2>3 DEF ListsOnce
<1>7. AlonePlace(h)'
  BY <1>1, <1>4 DEF AlonePlace
<1>8. QED
  BY <1>1, <1>2, <1>6, <1>7, OthersUndisturbed DEF XTypeInv, Undisturbed

\* In the middle of its change a handler is alone with it.
LEMMA AloneThere ==
    ASSUME Undisturbed, NEW h \in Handlers, Changing(h),
           XTypeOK, NEW to, pc' = [pc EXCEPT ![h] = to]
    PROVE  \A g \in Handlers \ {h} : ~Changing(g) /\ pc'[g] = pc[g]
  BY DEF Undisturbed, XTypeOK

LEMMA StoreUndisturbed ==
    ASSUME XTypeInv, XTypeInv', Undisturbed, NEW h \in Handlers, StoreLength(h)
    PROVE  Undisturbed'
<1> DEFINE N == Cardinality(Handlers)
<1>1. /\ array \in [1..N -> Handlers] /\ length \in 0..N /\ N \in Nat /\ length' \in 0..N
      /\ pc[h] = "store" /\ pc' = [pc EXCEPT ![h] = "hello"]
      /\ pc \in [Handlers -> {"idle", "store", "hello", "request", "dial", "reply", "read", "write",
                              "range", "scan", "cut", "close", "done"}]
      /\ panic' = panic /\ array' = array /\ length' = index[h]
  BY BegunGrows DEF StoreLength, Moves, XTypeInv, XTypeOK
<1>2. \A g \in Handlers \ {h} : ~Changing(g) /\ pc'[g] = pc[g]
  BY <1>1, AloneThere DEF Changing, XTypeInv
<1>3. length' = length + 1 /\ array[length + 1] = h
  BY <1>1 DEF Undisturbed, AlonePlace
<1>4. ~Listed(h) /\ Listed(h)'
  BY <1>1 DEF Listed
<1>5. \A i \in 1..length : array[i] \in Handlers /\ array[i] # h
  BY <1>1, <1>4 DEF Undisturbed, ListsOnce
<1>6. ListsOnce'
  <2>1. \A i \in 1..(length + 1) : i \in 1..length \/ i = length + 1
    BY <1>1
  <2>2. \A i, j \in 1..(length + 1) : array[i] = array[j] => i = j
    BY <1>3, <1>5, <2>1 DEF Undisturbed, ListsOnce
  <2>3. ASSUME NEW g \in Handlers
        PROVE  Listed(g)' <=> \E i \in 1..(length + 1) : array[i] = g
    <3>1. CASE g = h
      <4>1. length + 1 \in 1..(length + 1)
        BY <1>1
      <4>2. QED
        BY <1>3, <1>4, <3>1, <4>1
    <3>2. CASE g # h
      <4>1. Listed(g)' <=> \E i \in 1..length : array[i] = g
        BY <1>2, <3>2, OthersListed DEF Undisturbed, ListsOnce
      <4>2. \A i \in 1..length : i \in 1..(length + 1)
        BY <1>1
      <4>3. QED
        BY <1>3, <2>1, <3>2, <4>1, <4>2
    <3>3. QED
      BY <3>1, <3>2
  <2>4. QED
    BY <1>1, <1>3, <2>2, <2>3 DEF ListsOnce
<1>7. AlonePlace(h)'
  BY <1>1 DEF AlonePlace
<1>8. QED
  BY <1>1, <1>2, <1>6, <1>7, OthersUndisturbed DEF XTypeInv, Undisturbed

\* A step of the loop of h that leaves Conns as it is.
LEMMA LoopUndisturbed ==
    ASSUME XTypeInv, XTypeInv', Undisturbed, NEW h \in Handlers,
           \A g \in Handlers \ {h} : ~Changing(g) /\ pc'[g] = pc[g],
           UNCHANGED <<array, length, panic>>, Listed(h)' <=> Listed(h), AlonePlace(h)'
    PROVE  Undisturbed'
<1>1. \A g \in Handlers : Listed(g)' <=> Listed(g)
  BY OthersListed
<1>2. ListsOnce'
  BY <1>1 DEF Undisturbed, ListsOnce
<1>3. QED
  BY <1>2, OthersUndisturbed DEF XTypeInv, Undisturbed

LEMMA RangeUndisturbed ==
    ASSUME XTypeInv, XTypeInv', Undisturbed, NEW h \in Handlers, RangeConns(h), ~raced'
    PROVE  Undisturbed'
<1>1. /\ pc[h] = "range" /\ pc' = [pc EXCEPT ![h] = "scan"] /\ length \in Nat
      /\ pc \in [Handlers -> {"idle", "store", "hello", "request", "dial", "reply", "read", "write",
                              "range", "scan", "cut", "close", "done"}]
      /\ UNCHANGED <<array, length, panic>>
      /\ index'[h] = 1 /\ limit'[h] = length
  BY DEF RangeConns, Moves, XTypeInv, XTypeOK
<1>2. \A g \in Handlers \ {h} : ~Changing(g) /\ pc'[g] = pc[g]
  BY <1>1 DEF RangeConns, Begin
<1>3. (Listed(h)' <=> Listed(h)) /\ AlonePlace(h)'
  BY <1>1 DEF Listed, AlonePlace
<1>4. QED
  BY <1>1, <1>2, <1>3, LoopUndisturbed

LEMMA ScanUndisturbed ==
    ASSUME XTypeInv, XTypeInv', Undisturbed, NEW h \in Handlers, ScanConns(h)
    PROVE  Undisturbed'
<1> DEFINE N == Cardinality(Handlers)
<1>1. /\ length \in 0..N /\ N \in Nat /\ pc[h] = "scan"
      /\ pc \in [Handlers -> {"idle", "store", "hello", "request", "dial", "reply", "read", "write",
                              "range", "scan", "cut", "close", "done"}]
      /\ index \in [Handlers -> 0..(N + 1)] /\ limit \in [Handlers -> 0..N]
      /\ index[h] >= 1 /\ index[h] \in Nat /\ limit[h] \in Nat
      /\ UNCHANGED <<array, length, panic>>
  BY BegunGrows DEF ScanConns, Moves, XTypeInv, XTypeOK
<1>2. PICK to \in {"scan", "cut", "close"} : pc' = [pc EXCEPT ![h] = to]
  BY DEF ScanConns, Moves
<1>3. \A g \in Handlers \ {h} : ~Changing(g) /\ pc'[g] = pc[g]
  BY <1>1, <1>2, AloneThere DEF Changing, XTypeInv
<1>4. \/ limit[h] = length /\ \A i \in 1..(index[h] - 1) : array[i] # h
      \/ limit[h] = length + 1 /\ \A i \in index[h]..limit[h] : array[i] # h
  BY <1>1 DEF Undisturbed, AlonePlace
<1>5. CASE index[h] > limit[h]
  <2>1. pc'[h] = "close"
    BY <1>1, <1>5 DEF ScanConns, Moves
  <2>2. limit[h] # length
    <3>1. SUFFICES ASSUME limit[h] = length
                   PROVE  FALSE
      OBVIOUS
    <3>2. PICK i \in 1..length : array[i] = h
      BY <1>1, <3>1 DEF Undisturbed, ListsOnce, Listed
    <3>3. i \in 1..(index[h] - 1)
      BY <1>1, <1>5, <3>1
    <3>4. QED
      BY <1>1, <1>4, <3>1, <3>2, <3>3
  <2>3. (Listed(h)' <=> Listed(h)) /\ AlonePlace(h)'
    BY <1>1, <2>1, <2>2 DEF Listed, AlonePlace
  <2>4. QED
    BY <1>1, <1>3, <2>3, LoopUndisturbed
<1>6. CASE index[h] <= limit[h] /\ array[index[h]] = h
  <2>1. pc'[h] = "cut" /\ index'[h] = index[h] /\ limit'[h] = limit[h]
    BY <1>1, <1>6 DEF ScanConns, Moves
  <2>2. limit[h] = length /\ index[h] \in 1..length
    BY <1>1, <1>4, <1>6
  <2>3. (Listed(h)' <=> Listed(h)) /\ AlonePlace(h)'
    BY <1>1, <1>6, <2>1, <2>2 DEF Listed, AlonePlace
  <2>4. QED
    BY <1>1, <1>3, <2>3, LoopUndisturbed
<1>7. CASE index[h] <= limit[h] /\ array[index[h]] # h
  <2>1. pc'[h] = "scan" /\ index'[h] = index[h] + 1 /\ limit'[h] = limit[h]
    BY <1>1, <1>7 DEF ScanConns, Moves
  <2>2. \/ limit[h] = length /\ \A i \in 1..(index[h] + 1 - 1) : array[i] # h
        \/ limit[h] = length + 1 /\ \A i \in (index[h] + 1)..limit[h] : array[i] # h
    <3>1. CASE limit[h] = length /\ \A i \in 1..(index[h] - 1) : array[i] # h
      <4>1. \A i \in 1..(index[h] + 1 - 1) : i \in 1..(index[h] - 1) \/ i = index[h]
        BY <1>1
      <4>2. QED
        BY <1>7, <3>1, <4>1
    <3>2. CASE limit[h] = length + 1 /\ \A i \in index[h]..limit[h] : array[i] # h
      <4>1. \A i \in (index[h] + 1)..limit[h] : i \in index[h]..limit[h]
        BY <1>1
      <4>2. QED
        BY <3>2, <4>1
    <3>3. QED
      BY <1>4, <3>1, <3>2
  <2>3. AlonePlace(h)'
    BY <1>1, <2>1, <2>2 DEF AlonePlace
  <2>4. Listed(h)' <=> Listed(h)
    BY <1>1, <2>1 DEF Listed
  <2>5. QED
    BY <1>1, <1>3, <2>3, <2>4, LoopUndisturbed
<1>8. index[h] > limit[h] \/ index[h] <= limit[h]
  BY <1>1
<1>9. QED
  BY <1>5, <1>6, <1>7, <1>8

LEMMA CutUndisturbed ==
    ASSUME XTypeInv, XTypeInv', Undisturbed, NEW h \in Handlers, CutConn(h)
    PROVE  Undisturbed'
<1> DEFINE N == Cardinality(Handlers)
<1>1. /\ array \in [1..N -> Handlers] /\ length \in 0..N /\ N \in Nat /\ pc[h] = "cut"
      /\ pc \in [Handlers -> {"idle", "store", "hello", "request", "dial", "reply", "read", "write",
                              "range", "scan", "cut", "close", "done"}]
      /\ pc' = [pc EXCEPT ![h] = "scan"]
      /\ index \in [Handlers -> 0..(N + 1)] /\ limit' = limit
  BY BegunGrows DEF CutConn, Moves, XTypeInv, XTypeOK
<1>2. PICK k \in 1..length : k = index[h] /\ array[k] = h /\ limit[h] = length
  BY <1>1 DEF Undisturbed, AlonePlace
<1>3. ~(index[h] > length)
  BY <1>1, <1>2
<1>4. /\ array' = [j \in 1..N |-> IF j \in k..(length - 1) THEN array[j + 1] ELSE array[j]]
      /\ length' = length - 1 /\ panic' = panic /\ index'[h] = k + 1
  BY <1>1, <1>2, <1>3 DEF CutConn, Cut
<1>5. \A g \in Handlers \ {h} : ~Changing(g) /\ pc'[g] = pc[g]
  BY <1>1, AloneThere DEF Changing, XTypeInv
<1>6. ~Listed(h)'
  BY <1>1, <1>2, <1>4 DEF Listed
<1>7. \A i, j \in 1..length : array[i] = array[j] => i = j
  BY DEF Undisturbed, ListsOnce
\* Where an element of the new Conns has been before.
<1> DEFINE Before(j) == IF j < k THEN j ELSE j + 1
<1>8. \A j \in 1..(length - 1) : /\ Before(j) \in 1..length /\ Before(j) # k
                                 /\ array'[j] = array[Before(j)]
  BY <1>1, <1>4
<1>9. \A i \in 1..length : i # k => \E j \in 1..(length - 1) : Before(j) = i
  <2>1. ASSUME NEW i \in 1..length, i < k
        PROVE  i \in 1..(length - 1) /\ Before(i) = i
    BY <1>1, <2>1
  <2>2. ASSUME NEW i \in 1..length, i > k
        PROVE  i - 1 \in 1..(length - 1) /\ Before(i - 1) = i
    BY <1>1, <2>2
  <2>3. \A i \in 1..length : i # k => i < k \/ i > k
    BY <1>1
  <2>4. QED
    BY <2>1, <2>2, <2>3
<1>10. \A i, j \in 1..(length - 1) : Before(i) = Before(j) => i = j
  BY <1>1
<1> HIDE DEF Before
<1>11. \A i \in 1..length : array[i] \in Handlers /\ (i # k => array[i] # h)
  <2> TAKE i \in 1..length
  <2>1. array \in [1..N -> Handlers] /\ i \in 1..N
    BY <1>1
  <2>2. i # k => array[i] # h
    BY <1>2, <1>7
  <2>3. QED
    BY <2>1, <2>2
<1>12. ListsOnce'
  <2>1. \A i, j \in 1..(length - 1) : array'[i] = array'[j] => i = j
    BY <1>7, <1>8, <1>10
  <2>2. \A j \in 1..(length - 1) : array'[j] # h
    BY <1>8, <1>11
  <2>3. \A g \in Handlers \ {h} : Listed(g)' <=> \E i \in 1..length : array[i] = g
    BY <1>5, OthersListed DEF Undisturbed, ListsOnce
  <2>4. ASSUME NEW g \in Handlers \ {h}
        PROVE  (\E i \in 1..length : array[i] = g) <=> \E j \in 1..(length - 1) : array'[j] = g
    BY <1>2, <1>8, <1>9
  <2>5. ASSUME NEW g \in Handlers
        PROVE  Listed(g)' <=> \E j \in 1..(length - 1) : array'[j] = g
    <3>1. CASE g = h
      BY <1>6, <2>2, <3>1
    <3>2. CASE g # h
      BY <2>3, <2>4, <3>2
    <3>3. QED
      BY <3>1, <3>2
  <2>6. QED
    BY <1>4, <2>1, <2>5 DEF ListsOnce
<1>13. \A i \in (k + 1)..length : array'[i] # h
  <2>1. ASSUME NEW i \in (k + 1)..length, i < length
        PROVE  array'[i] # h
    <3>1. i \in 1..(length - 1) /\ i \in k..(length - 1) /\ i + 1 \in 1..length /\ i + 1 # k
      BY <1>1, <2>1
    <3>2. i \in 1..N
      BY <1>1, <3>1
    <3>3. QED
      BY <1>4, <1>11, <3>1, <3>2
  <2>2. ASSUME k + 1 <= length
        PROVE  array'[length] # h
    <3>1. length \in 1..length /\ length # k /\ length \notin k..(length - 1) /\ length \in 1..N
      BY <1>1, <2>2
    <3>2. QED
      BY <1>4, <1>11, <3>1
  <2>3. QED
    BY <1>1, <2>1, <2>2
<1>14. AlonePlace(h)'
  <2>1. limit'[h] = length /\ length' + 1 = length
    BY <1>1, <1>2, <1>4
  <2>2. pc'[h] = "scan"
    BY <1>1
  <2>3. \A i \in index'[h]..limit'[h] : array'[i] # h
    BY <1>4, <1>13, <2>1
  <2>4. QED
    BY <2>1, <2>2, <2>3 DEF AlonePlace
<1>15. QED
  BY <1>4, <1>5, <1>12, <1>14, OthersUndisturbed DEF XTypeInv, Undisturbed

LEMMA NextRace == XTypeInv /\ RaceInv /\ [XNext]_xvars => RaceInv'
<1> SUFFICES ASSUME XTypeInv, RaceInv, [XNext]_xvars, ~raced'
             PROVE  Undisturbed'
  BY DEF RaceInv
<1>1. XTypeInv'
  BY NextXTypes
<1>2. CASE UNCHANGED xvars
  BY <1>2 DEF xvars, RaceInv, Undisturbed, ListsOnce, Listed, AlonePlace, Changing
<1>3. ASSUME NEW h \in Handlers,
             Passes(h) \/ AppendConn(h) \/ StoreLength(h) \/ RangeConns(h) \/ ScanConns(h) \/ CutConn(h)
      PROVE  Undisturbed
  BY <1>3 DEF Passes, AppendConn, StoreLength, RangeConns, ScanConns, CutConn, Begin, RaceInv
<1>4. QED
  BY <1>1, <1>2, <1>3, SocksSteps, PassingUndisturbed, AppendUndisturbed, StoreUndisturbed,
     RangeUndisturbed, ScanUndisturbed, CutUndisturbed DEF XTypeInv

LEMMA UndisturbedConns == XTypeInv /\ RaceInv => ConnsNeedsRace
<1> SUFFICES ASSUME XTypeInv, Undisturbed, \A h \in Handlers : ~Changing(h), NEW h \in Handlers
             PROVE  Cardinality({i \in DOMAIN Conns : Conns[i] = h})
                        = IF pc[h] \in {"idle", "close", "done"} THEN 0 ELSE 1
  BY DEF RaceInv, Undisturbed, ConnsNeedsRace
<1>1. Cardinality(Handlers) \in Nat /\ length \in 0..Cardinality(Handlers)
      /\ array \in [1..Cardinality(Handlers) -> Handlers]
      /\ pc[h] \in {"idle", "store", "hello", "request", "dial", "reply", "read", "write",
                    "range", "scan", "cut", "close", "done"}
  BY BegunGrows DEF XTypeInv, XTypeOK
<1>2. DOMAIN Conns = 1..length /\ \A i \in 1..length : Conns[i] = array[i]
  BY <1>1 DEF Conns
<1>3. {i \in DOMAIN Conns : Conns[i] = h} = {i \in 1..length : array[i] = h}
  BY <1>2
<1>4. CASE Listed(h)
  <2>1. PICK k \in 1..length : array[k] = h
    BY <1>4 DEF Undisturbed, ListsOnce
  <2>2. {i \in 1..length : array[i] = h} = {k}
    BY <2>1 DEF Undisturbed, ListsOnce
  <2>3. Cardinality({k}) = 1
    BY FS_Singleton
  <2>4. pc[h] \notin {"idle", "close", "done"}
    BY <1>4 DEF Listed
  <2>5. QED
    BY <1>3, <2>2, <2>3, <2>4
<1>5. CASE ~Listed(h)
  <2>1. {i \in 1..length : array[i] = h} = {}
    BY <1>5 DEF Undisturbed, ListsOnce
  <2>2. Cardinality({}) = 0
    BY FS_EmptySet
  <2>3. pc[h] \in {"idle", "close", "done"}
    BY <1>1, <1>5 DEF Listed, Changing
  <2>4. QED
    BY <1>3, <2>1, <2>2, <2>3
<1>6. QED
  BY <1>4, <1>5

-----------------------------------------------------------------------------
(* Results. *)

\* The parts of a run that its mode does not lead to stand still.
LEMMA EachPart ==
    [Next]_vars => [PNext]_pvars /\ [UNext]_uvars /\ [SNext]_svars /\ [XNext]_xvars
  BY DEF Next, vars

LEMMA CipherStarts == Init => CipherInv
<1> SUFFICES ASSUME Init
             PROVE  CipherInv
  OBVIOUS
<1>1. 0 \in Positions /\ 0 % KeyLen = 0
  BY PunchTCPAssumption DEF Positions
<1>2. Keys(0, 0) = <<>>
  BY DEF Keys
<1>3. Len(<<>>) = 0 /\ <<>> \in Seq(Positions)
  OBVIOUS
<1>4. InStep(<<>>, 0)
  BY <1>1, <1>2, <1>3 DEF InStep
<1>5. QED
  BY <1>1, <1>3, <1>4, PunchTCPAssumption DEF Init, PInit, CipherInv

LEMMA AlwaysCipher == Spec => []CipherInv
<1>1. CipherInv /\ [Next]_vars => CipherInv'
  BY NextCipher, EachPart
<1>2. QED
  BY <1>1, CipherStarts, PTL DEF Spec

\* Both ends of a connection that PunchTCP has made use the key in step, for any
\* length of the key, of the HELO and of what follows it, and however the reads
\* cut the stream (crypt.go, EConnXor).
THEOREM CipherAgrees == Spec => []CipherStreamsAgree
  BY AlwaysCipher, CipherInvAgrees, PTL

\* The client writes what comes out of the tunnel to an application that has
\* spoken, however many there are (client.go, StartClientUDP).
THEOREM RepliesReachSpeakers == Spec => []RepliesGoToSpeakers
<1>1. Init => AddrInv
  BY DEF Init, UInit, AddrInv, TunnelEnds
<1>2. AddrInv => RepliesGoToSpeakers
  BY DEF AddrInv, RepliesGoToSpeakers
<1>3. QED
  BY <1>1, <1>2, NextAddr, PTL DEF Spec

LEMMA StreamStarts == Init => StreamInv
<1> SUFFICES ASSUME SInit
             PROVE  StreamInv
  BY DEF Init
<1>1. UpFlow = 0 /\ DownFlow = 0
  BY DEF SInit, UpFlow, DownFlow, Holds, Copiers
<1>2. STyped /\ Order
  BY DEF SInit, STyped, Order, Sides, CopiersOf, Copiers
<1>3. Chunks
  BY <1>1, StreamTunnelAssumption DEF SInit, Chunks
<1>4. ~Ending("client") /\ ~Ending("server")
  BY DEF SInit, Ending, EndsOf, CopiersOf, Copiers
<1>5. InOrder
  BY <1>1, <1>4 DEF SInit, InOrder
<1>6. QED
  BY <1>2, <1>3, <1>5 DEF StreamInv

LEMMA AlwaysStream == Spec => []StreamInv
<1>1. StreamInv /\ [Next]_vars => StreamInv'
  BY NextStream, EachPart
<1>2. QED
  BY <1>1, StreamStarts, PTL DEF Spec

\* The service's connection is closed after the app's data, all of them, for any
\* number of chunks (common.go, copyIO).
THEOREM DataBeforeEOF == Spec => []EOFAfterData
  BY AlwaysStream, StreamEOF, PTL

LEMMA SocksStarts == Init => XTypeInv /\ RaceInv
<1> SUFFICES ASSUME XInit
             PROVE  XTypeInv /\ RaceInv
  BY DEF Init
<1>1. Begun = {} /\ Cardinality({}) = 0
  BY FS_EmptySet DEF XInit, Begun
<1>2. Cardinality(Handlers) \in Nat
  BY Socks5Assumption, FS_CardinalityType
<1>3. array \in [1..Cardinality(Handlers) -> Handlers]
  <2>1. CASE Handlers = {}
    <3>1. Cardinality(Handlers) = 0
      BY <2>1, FS_EmptySet
    <3>2. QED
      BY <3>1 DEF XInit
  <2>2. CASE Handlers # {}
    <3>1. (CHOOSE h \in Handlers : TRUE) \in Handlers
      BY <2>2
    <3>2. QED
      BY <3>1 DEF XInit
  <2>3. QED
    BY <2>1, <2>2
<1>4. XTypeInv
  <2>1. Cardinality(Begun) = 0
    BY <1>1
  <2>2. \A h \in Handlers : pc[h] = "idle"
    BY DEF XInit
  <2>3. XTypeOK
    <3>1. 0 \in 0..Cardinality(Handlers) /\ 0 \in 0..(Cardinality(Handlers) + 1)
      BY <1>2
    <3>2. /\ length = 0 /\ index = [h \in Handlers |-> 0] /\ limit = [h \in Handlers |-> 0]
          /\ pc = [h \in Handlers |-> "idle"] /\ up = [h \in Handlers |-> "none"]
          /\ client = [h \in Handlers |-> "open"] /\ remote = [h \in Handlers |-> "none"]
          /\ raced = FALSE /\ panic = "no"
      BY DEF XInit
    <3>3. QED
      BY <1>3, <3>1, <3>2 DEF XTypeOK
  <2>4. length = 0
    BY DEF XInit
  <2>5. QED
    BY <2>1, <2>2, <2>3, <2>4 DEF XTypeInv
<1>5. Undisturbed
  BY DEF XInit, Undisturbed, ListsOnce, Listed, AlonePlace, Changing
<1>6. QED
  BY <1>4, <1>5 DEF RaceInv

LEMMA AlwaysSocks == Spec => [](XTypeInv /\ RaceInv)
<1>1. XTypeInv /\ RaceInv /\ [Next]_vars => XTypeInv' /\ RaceInv'
  BY NextXTypes, NextRace, EachPart
<1>2. QED
  BY <1>1, SocksStarts, PTL DEF Spec

\* Conns is only damaged by two handlers that change it at the same time, however
\* many there are (s5/s5.go, HandleConnection).
THEOREM DamageNeedsRace == Spec => []ConnsNeedsRace
  BY AlwaysSocks, UndisturbedConns, PTL

\* The variables of every part have their types, whatever the mode; for the
\* chunks of the stream tunnel and the slice Conns, a raced one included, that is
\* a bound as well.
THEOREM GoleTypes == Spec => []TypeOK
<1> DEFINE Types == mode \in Modes /\ PTypeOK /\ UTypeInv
<1>1. Init => Types
  <2>1. Init => mode \in Modes /\ UTypeInv
    <3> SUFFICES ASSUME UInit
                 PROVE  UTypeInv
      BY DEF Init
    <3>1. 0 \in 0..MaxRequests
      BY UdpTunnelAssumption
    <3>2. tunnel \in [TunnelEnds -> Nat]
      BY DEF UInit
    <3>3. readBy \in [TunnelEnds -> {"none", "ahead", "passed"}]
      BY DEF UInit
    <3>4. asking \in [Apps -> 0..MaxRequests] /\ \A a \in Apps : asking[a] <= requests
      BY <3>1 DEF UInit
    <3>5. requests \in 0..MaxRequests
      BY <3>1 DEF UInit
    <3>6. QED
      BY <3>2, <3>3, <3>4, <3>5 DEF UInit, UTypeInv, UTypeOK
  <2>2. Init => PTypeOK
    BY PunchTCPAssumption DEF Init, PInit, PTypeOK
  <2>3. QED
    BY <2>1, <2>2
<1>2. Types /\ CipherInv' /\ [Next]_vars => Types'
  <2>1. mode \in Modes /\ [Next]_vars => mode' \in Modes
    BY DEF Next, vars
  <2>2. QED
    BY <2>1, NextPTypes, NextUTypes, EachPart
<1>3. Types /\ StreamInv /\ XTypeInv => TypeOK
  BY StreamTypes DEF TypeOK, UTypeInv, XTypeInv, StreamInv
<1> HIDE DEF Types
<1>4. Spec => []Types
  BY <1>1, <1>2, AlwaysCipher, PTL DEF Spec
<1>5. QED
  BY <1>3, <1>4, AlwaysStream, AlwaysSocks, PTL
=============================================================================
