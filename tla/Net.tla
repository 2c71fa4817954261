-------------------------------- MODULE Net ---------------------------------
(***************************************************************************)
(* The network stack: a TCP connection and the UDP queue, fed by the same  *)
(* card under one lock. They share no other state, so a behaviour moves    *)
(* data in one of them.                                                    *)
(***************************************************************************)
EXTENDS Tcp, Udp

netVars == <<vars, udpVars>>

NetInit == Init /\ udpInit
NetNext ==
    \/ Next /\ UNCHANGED udpVars
    \/ load = <<0, 0>> /\ udpNext /\ UNCHANGED vars
NetSpec == NetInit /\ [][NetNext]_netVars

\* Some process keeps making network calls, and each of them runs the timers.
FairNetSpec == NetSpec /\ WF_vars(tcp_timers)

\* And the network delivers what is sent again and again.
FairDelivery ==
    /\ FairNetSpec
    /\ SF_vars(\E m \in toPeer : PeerReceive(m))
    /\ SF_vars(\E m \in FromPeer(peer) : "SYN" \in m.flags /\ tcp_input(m))
=============================================================================
