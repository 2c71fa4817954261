-------------------------------- MODULE Udp ---------------------------------
(***************************************************************************)
(* The queue of received datagrams (kernel/src/net.rs), one ring for every *)
(* port, under NET_LOCK. A datagram is the port it is for and the order it *)
(* arrived in, which stands for its contents.                              *)
(***************************************************************************)
EXTENDS Integers

CONSTANTS
    UDP_Q,        \* slots of the ring
    Ports,        \* destination ports
    MaxArrivals   \* bound: datagrams that arrive

ASSUME UdpAssumption == UDP_Q \in Nat \ {0} /\ MaxArrivals \in Nat

VARIABLES
    udpq,      \* slot -> [used, dst_port, id]
    UDP_NEXT,  \* slot the next datagram goes to
    arrived,   \* datagrams so far
    taken      \* newest datagram each port has read

udpVars == <<udpq, UDP_NEXT, arrived, taken>>

Slots == 0 .. UDP_Q - 1
Live(i, port) == udpq[i].used /\ udpq[i].dst_port = port

\* Kept whether or not the slot is still used.
udp_input(port) ==
    /\ arrived < MaxArrivals
    /\ udpq' = [udpq EXCEPT ![UDP_NEXT] =
                  [used |-> TRUE, dst_port |-> port, id |-> arrived + 1]]
    /\ UDP_NEXT' = (UDP_NEXT + 1) % UDP_Q
    /\ arrived' = arrived + 1
    /\ UNCHANGED taken

\* Mutant: the search begins at slot 0.
FirstLive_FromZero(port) ==
    CHOOSE i \in Slots : Live(i, port) /\ \A j \in 0 .. i - 1 : ~Live(j, port)
\* The first live slot in ring order from UDP_NEXT.
FirstLive(port) ==
    LET at(k) == (UDP_NEXT + k) % UDP_Q
    IN  at(CHOOSE k \in Slots : Live(at(k), port) /\ \A j \in 0 .. k - 1 : ~Live(at(j), port))

udp_recv(port) ==
    /\ \E i \in Slots : Live(i, port)
    /\ udpq' = [udpq EXCEPT ![FirstLive(port)].used = FALSE]
    /\ taken' = [taken EXCEPT ![port] = udpq[FirstLive(port)].id]
    /\ UNCHANGED <<UDP_NEXT, arrived>>

\* udp_next_len (FIONREAD): the slot whose length it returns
NextLen(port) == CHOOSE i \in Slots : Live(i, port) /\ \A j \in 0 .. i - 1 : ~Live(j, port)

udpInit ==
    /\ udpq = [i \in Slots |-> [used |-> FALSE, dst_port |-> CHOOSE p \in Ports : TRUE, id |-> 0]]
    /\ UDP_NEXT = 0 /\ arrived = 0
    /\ taken = [p \in Ports |-> 0]

udpNext == \E p \in Ports : udp_input(p) \/ udp_recv(p)

\* A port reads its datagrams oldest first, whatever the ring overwrote in
\* between: nothing older than what it has read is left for it.
OldestFirst ==
    \A i \in Slots : udpq[i].used => udpq[i].id > taken[udpq[i].dst_port]

\* FIONREAD gives the size of the datagram that the next read returns.
NextLenIsNext ==
    \A p \in Ports : (\E i \in Slots : Live(i, p)) => NextLen(p) = FirstLive(p)

\* A datagram is overwritten only when the ring is full.
LostOnlyWhenFull ==
    [][\A i \in Slots : udpq[i].used /\ udpq'[i].id # udpq[i].id
          => \A j \in Slots : udpq[j].used]_udpVars
=============================================================================
