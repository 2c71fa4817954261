-------------------------------- MODULE Tcp ---------------------------------
(***************************************************************************)
(* One TCP connection of the kernel (kernel/src/net.rs): the calls of the  *)
(* socket layer, the segments that arrive and the retransmission timer,    *)
(* each under NET_LOCK, against a network that loses, duplicates and       *)
(* reorders segments and a peer that follows the protocol. A call drains   *)
(* the card and runs the timers first (poll): frames and timers are        *)
(* actions of their own here. Time is left out: a timer may expire         *)
(* whenever it is armed. Sequence numbers wrap at W and start just below.  *)
(***************************************************************************)
EXTENDS Integers, Sequences, FiniteSets

CONSTANTS
    W,          \* sequence numbers (2^32)
    RXCAP,      \* receive buffer
    TXCAP,      \* send buffer
    Mss,        \* maximum segment size
    MAX_RETRIES,
    Windows,    \* windows the peer announces
    MaxWire,    \* segments in flight to the peer
    Loads       \* <<bytes the program sends, bytes the peer sends>>

ASSUME TcpAssumption ==
    /\ {RXCAP, TXCAP, Mss} \subseteq Nat \ {0}
    /\ Windows \subseteq Nat
    /\ MAX_RETRIES \in Nat /\ MaxWire \in Nat
    /\ Loads \subseteq Nat \X Nat
    /\ W \in Nat
    /\ \A l \in Loads : 2 * (l[1] + 2) < W /\ 2 * (l[2] + 2) < W

VARIABLES
    t,        \* the connection (struct Tcp)
    accepted, \* bytes tcp_send has taken so far
    got,      \* bytes tcp_recv has handed out
    sawEof,   \* tcp_recv has returned 0
    peer,     \* the other end
    toPeer,   \* segments on their way to it
    load      \* what this behaviour sends each way

kernelVars == <<t, accepted, got, sawEof>>
vars == <<kernelVars, peer, toPeer, load>>

Isn == W - 1        \* the kernel's first sequence number, so that it wraps
PeerIsn == W - 2

MinOf(a, b) == IF a <= b THEN a ELSE b
Plus(a, b) == (a + b) % W           \* wrapping_add
Minus(a, b) == (a - b + W) % W      \* wrapping_sub
Drop(s, n) == SubSeq(s, n + 1, Len(s))
Bytes(from, n) == [i \in 1 .. n |-> from + i]


-----------------------------------------------------------------------------
(* The kernel's side.                                                      *)

NoConnection ==
    [state |-> "Free", snd_una |-> 0, snd_nxt |-> 0, rcv_nxt |-> 0, peer_wnd |-> 0,
     tx |-> <<>>, rx |-> <<>>, adv_wnd |-> 0, retries |-> 0, syn_pending |-> FALSE]

Alive == {"SynSent", "Established", "PeerClosed", "Error"}     \* # Free

Wnd(c) == MinOf(RXCAP - Len(c.rx), RXCAP - 1)       \* .min(65535)
InFlight(c) == Minus(c.snd_nxt, c.snd_una)

tcp_segment(c, flags, seq, data) ==
    [flags |-> flags, seq |-> seq, data |-> data,
     ack |-> IF "ACK" \in flags THEN c.rcv_nxt ELSE 0, wnd |-> Wnd(c)]

\* A state of the connection and what it sends with it.
With(c, segs) == [conn |-> IF segs = {} THEN c ELSE [c EXCEPT !.adv_wnd = Wnd(c)],
                  segs |-> segs]

\* Mutant: a closed window lets nothing through.
SendWindow_Closed(c) == c.peer_wnd
\* What may be in flight: a closed window lets one byte through.
SendWindow(c) == IF c.peer_wnd = 0 THEN 1 ELSE c.peer_wnd

\* tcp_output, its loop in one step: the unsent bytes up to `last`, cut into
\* pieces of at most Mss.
tcp_output(c) ==
    LET last == MinOf(Len(c.tx), SendWindow(c))
        todo == last - InFlight(c)
        starts == {InFlight(c) + k * Mss : k \in 0 .. (todo - 1) \div Mss}
    IN  IF c.state \notin {"Established", "PeerClosed"} \/ todo <= 0 THEN With(c, {})
        ELSE With([c EXCEPT !.snd_nxt = Plus(c.snd_una, last)],
                  {tcp_segment(c, {"ACK"}, Plus(c.snd_una, i),
                               SubSeq(c.tx, i + 1, MinOf(i + Mss, last))) : i \in starts})

\* tcp_segment followed by tcp_output
Reply(c, segs) == LET out == tcp_output(c) IN With(out.conn, segs \cup out.segs)

\* The connection after a handler. The network loses and holds back any of
\* what it sends.
Handled(r) ==
    /\ t' = r.conn
    /\ toPeer' \in {s \in SUBSET (toPeer \cup r.segs) : Cardinality(s) <= MaxWire}

tcp_connect ==
    /\ t.state = "Free"
    /\ LET c == [t EXCEPT !.state = "SynSent", !.snd_una = Isn, !.snd_nxt = Isn,
                          !.syn_pending = TRUE]
       IN  Handled(With(c, {tcp_segment(c, {"SYN"}, Isn, <<>>)}))
    /\ UNCHANGED <<accepted, got, sawEof, peer, load>>

\* The answer to the SYN.
Handshake(m) ==
    LET c == [t EXCEPT !.snd_una = m.ack, !.snd_nxt = m.ack, !.rcv_nxt = Plus(m.seq, 1),
                       !.peer_wnd = m.wnd, !.state = "Established",
                       !.syn_pending = FALSE, !.retries = 0]
    IN  IF {"SYN", "ACK"} \subseteq m.flags /\ m.ack = Plus(t.snd_una, 1)
        THEN Reply(c, {tcp_segment(c, {"ACK"}, c.snd_nxt, <<>>)})
        ELSE With(t, {})

\* Mutant: the bytes acknowledged stay in the buffer.
Acked_Keeps(c, m) ==
    LET n == Minus(m.ack, c.snd_una)
        d == IF n > 0 /\ n <= InFlight(c)
             THEN [c EXCEPT !.snd_una = m.ack, !.retries = 0] ELSE c
    IN  IF "ACK" \in m.flags THEN [d EXCEPT !.peer_wnd = m.wnd] ELSE c

\* What the peer has received leaves the send buffer.
Acked(c, m) ==
    LET n == Minus(m.ack, c.snd_una)
        d == IF n > 0 /\ n <= InFlight(c)
             THEN [c EXCEPT !.tx = Drop(@, n), !.snd_una = m.ack, !.retries = 0]
             ELSE c
    IN  IF "ACK" \in m.flags THEN [d EXCEPT !.peer_wnd = m.wnd] ELSE c

\* Mutant: a segment that begins before rcv_nxt is taken from its first byte.
Fresh_NoTrim(c, m) ==
    IF Minus(c.rcv_nxt, m.seq) < Len(m.data)
    THEN SubSeq(m.data, 1, MinOf(Len(m.data), RXCAP - Len(c.rx)))
    ELSE <<>>

\* The new bytes of a segment in order, as many as fit.
Fresh(c, m) ==
    LET behind == Minus(c.rcv_nxt, m.seq)
    IN  IF behind < Len(m.data)
        THEN SubSeq(m.data, behind + 1, MinOf(Len(m.data), behind + RXCAP - Len(c.rx)))
        ELSE <<>>
AllTaken(c, m) ==
    \/ m.data = <<>>
    \/ /\ Minus(c.rcv_nxt, m.seq) < Len(m.data)
       /\ Len(m.data) - Minus(c.rcv_nxt, m.seq) <= RXCAP - Len(c.rx)

Segment(m) ==
    LET a == Acked(t, m)
        d == [a EXCEPT !.rx = @ \o Fresh(a, m), !.rcv_nxt = Plus(@, Len(Fresh(a, m)))]
        fin == /\ "FIN" \in m.flags /\ AllTaken(a, m)
               /\ Plus(m.seq, Len(m.data)) = d.rcv_nxt
               /\ d.state = "Established"
        e == IF fin THEN [d EXCEPT !.rcv_nxt = Plus(@, 1), !.state = "PeerClosed"] ELSE d
    IN  Reply(e, IF m.data # <<>> \/ fin
                 THEN {tcp_segment(e, {"ACK"}, e.snd_nxt, <<>>)} ELSE {})

tcp_input(m) ==
    /\ t.state \in Alive
    /\ Handled(CASE "RST" \in m.flags -> With([t EXCEPT !.state = "Error"], {})
                 [] "RST" \notin m.flags /\ t.state = "SynSent" -> Handshake(m)
                 [] OTHER -> Segment(m))
    /\ UNCHANGED <<accepted, got, sawEof, peer, load>>

Waiting(c) == c.syn_pending \/ c.snd_nxt # c.snd_una

\* Mutant: the attempts are not counted.
tcp_timers_NoCount ==
    /\ t.state \in Alive \ {"Error"}
    /\ Waiting(t)
    /\ Handled(IF t.syn_pending THEN With(t, {tcp_segment(t, {"SYN"}, t.snd_una, <<>>)})
               ELSE tcp_output([t EXCEPT !.snd_nxt = t.snd_una]))
    /\ UNCHANGED <<accepted, got, sawEof, peer, load>>

\* tcp_timers, once the time to wait has passed
tcp_timers ==
    /\ t.state \in Alive \ {"Error"}
    /\ Waiting(t)
    /\ LET c == [t EXCEPT !.retries = @ + 1]
       IN  Handled(CASE c.retries > MAX_RETRIES -> With([c EXCEPT !.state = "Error"], {})
                     [] c.retries <= MAX_RETRIES /\ c.syn_pending ->
                            With(c, {tcp_segment(c, {"SYN"}, c.snd_una, <<>>)})
                     [] OTHER -> tcp_output([c EXCEPT !.snd_nxt = c.snd_una]))
    /\ UNCHANGED <<accepted, got, sawEof, peer, load>>

tcp_send ==
    /\ t.state = "Established"
    /\ \E n \in 1 .. MinOf(load[1] - accepted, TXCAP - Len(t.tx)) :
          /\ Handled(tcp_output([t EXCEPT !.tx = @ \o Bytes(accepted, n)]))
          /\ accepted' = accepted + n
    /\ UNCHANGED <<got, sawEof, peer, load>>


\* The window update of tcp_recv, once half of the buffer is free.
Update(c) ==
    IF c.state = "Established" /\ 4 * c.adv_wnd < RXCAP /\ 2 * Wnd(c) >= RXCAP
    THEN With(c, {tcp_segment(c, {"ACK"}, c.snd_nxt, <<>>)})
    ELSE With(c, {})
tcp_recv ==
    /\ t.state \in Alive
    /\ \/ \E n \in 1 .. Len(t.rx) :
             /\ Handled(Update([t EXCEPT !.rx = Drop(@, n)]))
             /\ got' = got \o SubSeq(t.rx, 1, n)
             /\ UNCHANGED sawEof
       \/ /\ t.rx = <<>> /\ t.state = "PeerClosed"
          /\ sawEof' = TRUE
          /\ UNCHANGED <<t, toPeer, got>>
    /\ UNCHANGED <<accepted, peer, load>>

\* The slot is Free, for another connection with a port of its own: nothing
\* of this one ("Gone") is read or sent again.
tcp_close ==
    /\ t.state \in Alive
    /\ Handled([conn |-> [NoConnection EXCEPT !.state = "Gone"],
                segs |-> CASE t.state \in {"Established", "PeerClosed"} ->
                                {tcp_segment(t, {"FIN", "ACK"}, t.snd_nxt, <<>>)}
                           [] t.state = "SynSent" -> {tcp_segment(t, {"RST"}, t.snd_nxt, <<>>)}
                           [] OTHER -> {}])
    /\ UNCHANGED <<accepted, got, sawEof, peer, load>>

-----------------------------------------------------------------------------
(* The peer: a server that follows the protocol. Byte i of its stream is i *)
(* and has sequence number PeerIsn + i.                                    *)

\* Everything the peer may have sent so far, with any acknowledgment it may
\* have given and any window it may have announced: the network can deliver
\* any of it at any time, again, and out of order.
FromPeer(p) ==
    LET says(flags, from, n, ack, wnd) ==
            [flags |-> flags, seq |-> Plus(PeerIsn, from), data |-> Bytes(from - 1, n),
             ack |-> Plus(Isn, 1 + ack), wnd |-> wnd]
        acks == 0 .. Len(p.rcv) + (IF p.eof THEN 1 ELSE 0)
        parts == {x \in (1 .. p.wrote + 1) \X (0 .. p.wrote) : x[1] + x[2] <= p.wrote + 1}
        ends == {x \in parts : p.fin /\ x[1] + x[2] = p.wrote + 1}
        talk(flags, ps) == {says(flags, x[1], x[2], a, w) : x \in ps, a \in acks, w \in Windows}
    IN  CASE p.state = "Listen" -> {}
          [] p.state = "SynReceived" -> {says({"SYN", "ACK"}, 0, 0, 0, w) : w \in Windows}
          [] p.state = "Established" ->
                {says({"RST"}, 0, 0, 0, 0)} \cup {says({"SYN", "ACK"}, 0, 0, 0, w) : w \in Windows}
                \cup talk({"ACK"}, parts) \cup talk({"ACK", "FIN"}, ends)
          [] p.state = "Reset" -> {says({"RST"}, 0, 0, 0, 0)}

\* A segment from the kernel; it may come again.
PeerGets(m, p) ==
    /\ peer' = p
    /\ toPeer' \in {toPeer, toPeer \ {m}}
    /\ UNCHANGED <<kernelVars, load>>

PeerSyn(m) ==
    /\ m.flags = {"SYN"} /\ peer.state = "Listen"
    /\ PeerGets(m, [peer EXCEPT !.state = "SynReceived"])

\* The peer keeps as much as it has room for of the bytes it did not have.
PeerReceive(m) ==
    /\ "ACK" \in m.flags /\ peer.state \in {"SynReceived", "Established"}
    /\ LET missing == Minus(Plus(Isn, 1 + Len(peer.rcv)), m.seq)
           fresh == IF missing < Len(m.data) /\ ~peer.eof THEN Drop(m.data, missing) ELSE <<>>
       IN  \E n \in 0 .. Len(fresh) :
              PeerGets(m, [peer EXCEPT !.state = "Established",
                                       !.rcv = @ \o SubSeq(fresh, 1, n),
                                       !.eof = @ \/ ("FIN" \in m.flags /\ missing = 0)])

PeerAborted(m) ==
    /\ m.flags = {"RST"} /\ peer.state # "Listen"
    /\ PeerGets(m, [peer EXCEPT !.state = "Reset"])

\* The program at the other end writes, whatever the window is.
PeerWrite ==
    /\ peer.state = "Established" /\ ~peer.fin
    /\ peer.wrote < load[2]
    /\ peer' = [peer EXCEPT !.wrote = @ + 1]
    /\ UNCHANGED <<kernelVars, toPeer, load>>

PeerClose ==
    /\ peer.state = "Established" /\ peer.wrote = load[2]
    /\ peer' = [peer EXCEPT !.fin = TRUE]
    /\ UNCHANGED <<kernelVars, toPeer, load>>

-----------------------------------------------------------------------------
Init ==
    /\ t = NoConnection
    /\ accepted = 0 /\ got = <<>> /\ sawEof = FALSE
    /\ peer = [state |-> "Listen", rcv |-> <<>>, eof |-> FALSE,
               wrote |-> 0, fin |-> FALSE]
    /\ toPeer = {}
    /\ load \in Loads

Next ==
    \/ tcp_connect \/ tcp_send \/ tcp_recv \/ tcp_close \/ tcp_timers
    \/ \E m \in FromPeer(peer) : tcp_input(m)
    \/ \E m \in toPeer : PeerSyn(m) \/ PeerReceive(m) \/ PeerAborted(m)
    \/ PeerWrite \/ PeerClose
Spec == Init /\ [][Next]_vars

-----------------------------------------------------------------------------
SeqNo == 0 .. W - 1
TypeOK ==
    /\ t.state \in Alive \cup {"Free", "Gone"}
    /\ {t.snd_una, t.snd_nxt, t.rcv_nxt} \subseteq SeqNo
    /\ Len(t.tx) <= TXCAP /\ Len(t.rx) <= RXCAP
    /\ InFlight(t) <= Len(t.tx)
    /\ t.retries \in 0 .. MAX_RETRIES + 1
    /\ accepted \in 0 .. load[1]

\* No direction waits for ever. Bytes accepted and not yet confirmed have
\* something in flight, so that a timer is armed for them whatever the order
\* of acknowledgments and window updates, a closed window included; a program
\* that has read everything left the peer a window to send into.
NeverStuck ==
    /\ t.state \in {"Established", "PeerClosed"} /\ t.tx # <<>> => t.snd_nxt # t.snd_una
    /\ t.state = "Established" /\ t.rx = <<>> => 4 * t.adv_wnd >= RXCAP

\* Every accepted byte is confirmed in the end, or the connection is over.
Answered ==
    (t.tx # <<>>) ~> (t.tx = <<>> \/ t.state \in {"Gone", "Error"})

\* What the peer reads is what tcp_send took, in order and once.
Outbound == INSTANCE ByteStream WITH
    sent <- Bytes(0, accepted), rcvd <- peer.rcv, shut <- FALSE, eof <- FALSE
OutboundStream == Outbound!Spec

\* What tcp_recv returns is what the peer sent, in order and once, and the
\* end (0) only after all of it.
Inbound == INSTANCE ByteStream WITH
    sent <- Bytes(0, peer.wrote), rcvd <- got, shut <- peer.fin, eof <- sawEof
InboundStream == Inbound!Spec

\* A connection that is established here becomes established at the peer.
HandshakeEnds ==
    (t.state = "Established") ~> (peer.state # "SynReceived" \/ t.state # "Established")

\* The end the peer sees comes after everything tcp_send accepted.
ClosedWhole == peer.eof => Len(peer.rcv) = accepted
=============================================================================
