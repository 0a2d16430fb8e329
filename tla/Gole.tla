---------------------------------- MODULE Gole ----------------------------------
(***************************************************************************)
(* The command gole (main.go): a punched connection, and the tunnel that   *)
(* the configuration asks for on it.  Its parts follow each other in a     *)
(* process and share nothing but the connection, so each run of the        *)
(* command is looked at from the part that its mode leads to:              *)
(*                                                                         *)
(*   "punch"   mode tcp, PunchTCP and the first bytes of the tunnel;       *)
(*   "udp"     mode udp, proto udp: the UDP tunnel after PunchUDP;         *)
(*   "stream"  mode tcp, or proto kcp: port mapping over smux;             *)
(*   "socks5"  the same without a forward address at the server.           *)
(*                                                                         *)
(* PunchUDP has a module of its own, HolePunchUDP.  What it leaves behind  *)
(* are the initial states of the UDP tunnel.                               *)
(***************************************************************************)
EXTENDS HolePunchTCP, UdpTunnel, StreamTunnel, Socks5

VARIABLE mode

vars == <<mode, pvars, uvars, svars, xvars>>

Modes == {"punch", "udp", "stream", "socks5"}

\* A part that the mode does not lead to has no choices to make.
Init ==
    /\ mode \in Modes
    /\ PInit /\ UInit /\ SInit /\ XInit
    /\ mode # "punch" => sameKey
    /\ mode # "udp" => \A e \in TunnelEnds : ~leftover[e] /\ tunnel[e] = 0

\* StartClient and StartServer, by mode and protocol; HandleConnection in place
\* of stream2conn when there is no forward address.
Next ==
    /\ mode' = mode
    /\ \/ mode = "punch"  /\ PNext /\ UNCHANGED <<uvars, svars, xvars>>
       \/ mode = "udp"    /\ UNext /\ UNCHANGED <<pvars, svars, xvars>>
       \/ mode = "stream" /\ SNext /\ UNCHANGED <<pvars, uvars, xvars>>
       \/ mode = "socks5" /\ XNext /\ UNCHANGED <<pvars, uvars, svars>>

Spec == Init /\ [][Next]_vars

\* No part stands still while something in it can happen: a goroutine can run, a
\* deadline, a dial or a keepalive can come to its end.  SOCKS5 handlers do not
\* wait for each other.  Nothing is assumed of the network, the applications, the
\* services and the other hosts: a Write of the stream tunnel, or of a SOCKS5
\* handler to a client that stays, need not come to its end.
FairSpec ==
    /\ Spec
    /\ WF_pvars(mode = "punch" /\ \E p \in Peers : PunchTCP(p))
    /\ WF_uvars(mode = "udp" /\ \E e \in TunnelEnds : UdpLoops(e) \/ DeadlinePasses(e))
    /\ WF_svars(mode = "stream" /\ ((\E e \in Sides : Tunnel(e)) \/ \E c \in Copiers : Copy(c)))
    /\ \A h \in Handlers : WF_xvars(mode = "socks5" /\ (Runs(h) \/ UpRuns(h)))

-----------------------------------------------------------------------------
(* Properties: those of the part that the mode leads to. *)

\* The variables of every part have their types.
TypeOK == mode \in Modes /\ PTypeOK /\ UTypeOK /\ STypeOK /\ XTypeOK

\* PunchTCP comes to an end (HolePunchTCP).
PunchingEnds == mode = "punch" => PunchTCPEnds

\* An idle UDP tunnel comes to an end (UdpTunnel).
UdpTunnelEnds == mode = "udp" => IdleTunnelEnds

\* Copiers end together, and with them a tunnel that has lost its path (StreamTunnel).
StreamTunnelEnds == mode = "stream" => StreamsEnd

\* SOCKS5 handlers end with their remote, or with their client (Socks5).
SocksEnds == mode = "socks5" => SocksHandlersEnd
=============================================================================
