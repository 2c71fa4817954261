----------------------------- MODULE NetProofs ------------------------------
(***************************************************************************)
(* Proofs about a connection (Tcp), for every size of buffers, windows and *)
(* streams: both directions implement ByteStream, and no window or buffer  *)
(* stays stuck. Then about the datagrams of Net (Udp), for every size of   *)
(* the ring, and the two side by side.                                     *)
(***************************************************************************)
EXTENDS Net, SequenceTheorems, WellFoundedInduction, TLAPS

-----------------------------------------------------------------------------
(* Sequence numbers.                                                       *)

\* Remainders of the sums that sequence numbers take.
LEMMA ModSmall == ASSUME NEW w \in Nat, NEW x \in 0 .. w - 1 PROVE x % w = x
OBVIOUS

\* The same, once round.
LEMMA ModBig == ASSUME NEW w \in Nat \ {0}, NEW x \in w .. 2 * w - 1 PROVE x % w = x - w
OBVIOUS

\* A piece of a segment that starts below the last byte.
LEMMA DivMul ==
  ASSUME NEW a \in Nat, NEW m \in Nat \ {0}, NEW k \in 0 .. a \div m
  PROVE  k * m \in 0 .. a
<1>1. a = m * (a \div m) + (a % m) /\ a % m \in 0 .. m - 1 /\ a \div m \in Nat
  OBVIOUS
<1>2. k * m <= (a \div m) * m /\ k * m \in Nat
  BY <1>1
<1> QED  BY <1>1, <1>2

\* The peer's sequence numbers, for byte i of its stream.
PeerSeq(i) == IF i < 2 THEN W - 2 + i ELSE i - 2

\* A sum below the wrap.
LEMMA PlusSmall ==
  ASSUME W \in Nat, NEW a \in Nat, NEW b \in Nat, a + b < W
  PROVE  Plus(a, b) = a + b
BY ModSmall DEF Plus

\* The kernel's sequence numbers are the bytes they follow.
LEMMA OurSeq ==
  ASSUME W \in Nat \ {0}, NEW k \in 0 .. W - 1
  PROVE  Plus(Isn, 1 + k) = k
<1> DEFINE x == Isn + (1 + k)
<1>1. x \in W .. 2 * W - 1 /\ x - W = k
  BY DEF Isn
<1>2. x % W = x - W
  BY <1>1, ModBig
<1> QED  BY <1>1, <1>2 DEF Plus

\* wrapping_sub of two sequence numbers.
LEMMA MinusIs ==
  ASSUME W \in Nat \ {0}, NEW a \in 0 .. W - 1, NEW b \in 0 .. W - 1
  PROVE  Minus(a, b) = IF a >= b THEN a - b ELSE a - b + W
<1>1. CASE a >= b
  <2>1. a - b + W \in W .. 2 * W - 1 /\ (a - b + W) - W = a - b
    BY <1>1
  <2> QED  BY <2>1, <1>1, ModBig DEF Minus
<1>2. CASE a < b
  <2>1. a - b + W \in 0 .. W - 1
    BY <1>2
  <2> QED  BY <2>1, <1>2, ModSmall DEF Minus
<1> QED  BY <1>1, <1>2

\* PeerSeq is what the peer puts into its segments.
LEMMA PeerSeqIs ==
  ASSUME W \in Nat, W > 4, NEW i \in 0 .. W - 1
  PROVE  /\ PeerSeq(i) \in 0 .. W - 1
         /\ Plus(PeerIsn, i) = PeerSeq(i)
<1>1. CASE i < 2
  BY <1>1, ModSmall DEF Plus, PeerIsn, PeerSeq
<1>2. CASE i >= 2
  <2> DEFINE x == PeerIsn + i
  <2>1. x \in W .. 2 * W - 1 /\ x - W = i - 2
    BY <1>2 DEF PeerIsn
  <2>2. x % W = x - W
    BY <2>1, ModBig
  <2> QED  BY <2>1, <2>2, <1>2 DEF Plus, PeerSeq
<1> QED  BY <1>1, <1>2

\* n bytes further in the peer's stream.
LEMMA PeerSeqPlus ==
  ASSUME W \in Nat, W > 4, NEW i \in Nat, NEW n \in Nat, i + n < W
  PROVE  Plus(PeerSeq(i), n) = PeerSeq(i + n)
<1>1. CASE i >= 2
  BY <1>1, PlusSmall DEF PeerSeq
<1>2. CASE i < 2 /\ i + n < 2
  BY <1>2, PlusSmall DEF PeerSeq
<1>3. CASE i < 2 /\ i + n >= 2
  <2>1. W - 2 + i + n \in W .. 2 * W - 1 /\ (W - 2 + i + n) - W = i + n - 2
    BY <1>3
  <2> QED  BY <2>1, <1>3, ModBig DEF Plus, PeerSeq
<1> QED  BY <1>1, <1>2, <1>3

\* The distance of two bytes of the peer's stream, modulo W.
LEMMA PeerSeqMinus ==
  ASSUME W \in Nat, W > 4, NEW i \in 0 .. W - 1, NEW j \in 0 .. W - 1
  PROVE  Minus(PeerSeq(i), PeerSeq(j)) = IF i >= j THEN i - j ELSE i - j + W
<1>1. PeerSeq(i) \in 0 .. W - 1 /\ PeerSeq(j) \in 0 .. W - 1
  BY PeerSeqIs
<1>2. Minus(PeerSeq(i), PeerSeq(j)) =
        IF PeerSeq(i) >= PeerSeq(j) THEN PeerSeq(i) - PeerSeq(j) ELSE PeerSeq(i) - PeerSeq(j) + W
  BY <1>1, MinusIs
<1> QED  BY <1>2 DEF PeerSeq

-----------------------------------------------------------------------------
(* Streams: pieces of the sequence 1, 2, 3, ...                            *)

\* A piece of the stream is a sequence of its length.
LEMMA BytesType ==
  ASSUME NEW f \in Nat, NEW n \in Nat
  PROVE  Bytes(f, n) \in Seq(Nat) /\ Len(Bytes(f, n)) = n /\ \A i \in 1 .. n : Bytes(f, n)[i] = f + i
BY DEF Bytes

\* A sequence of consecutive bytes is a piece of the stream.
LEMMA BytesAre ==
  ASSUME NEW s \in Seq(Nat), NEW f \in Nat, \A i \in 1 .. Len(s) : s[i] = f + i
  PROVE  s = Bytes(f, Len(s))
<1>1. Len(s) \in Nat
  OBVIOUS
<1>2. Bytes(f, Len(s)) \in Seq(Nat) /\ Len(Bytes(f, Len(s))) = Len(s)
      /\ \A i \in 1 .. Len(s) : Bytes(f, Len(s))[i] = f + i
  BY <1>1, BytesType
<1> QED  BY <1>2, SeqEqual

\* The empty piece.
LEMMA BytesEmpty == ASSUME NEW f \in Nat PROVE Bytes(f, 0) = <<>>
<1>1. Bytes(f, 0) \in Seq(Nat) /\ Len(Bytes(f, 0)) = 0
  BY BytesType
<1> QED  BY <1>1, EmptySeq

\* Consecutive pieces join.
LEMMA BytesJoin ==
  ASSUME NEW f \in Nat, NEW n \in Nat, NEW m \in Nat
  PROVE  Bytes(f, n) \o Bytes(f + n, m) = Bytes(f, n + m)
<1> DEFINE a == Bytes(f, n)
           b == Bytes(f + n, m)
<1>1. /\ a \in Seq(Nat) /\ Len(a) = n /\ \A i \in 1 .. n : a[i] = f + i
      /\ b \in Seq(Nat) /\ Len(b) = m /\ \A i \in 1 .. m : b[i] = f + n + i
  <2>1. f + n \in Nat
    OBVIOUS
  <2> QED  BY <2>1, BytesType
<1> HIDE DEF a, b
<1>2. /\ a \o b \in Seq(Nat) /\ Len(a \o b) = n + m
      /\ \A i \in 1 .. n + m : (a \o b)[i] = IF i <= n THEN a[i] ELSE b[i - n]
  BY <1>1, ConcatProperties
<1>3. \A i \in 1 .. Len(a \o b) : (a \o b)[i] = f + i
  BY <1>1, <1>2
<1>4. a \o b = Bytes(f, n + m)
  BY <1>2, <1>3, BytesAre
<1> QED  BY <1>4 DEF a, b

\* A part of a piece is a piece.
LEMMA BytesPart ==
  ASSUME NEW f \in Nat, NEW n \in Nat, NEW a \in 1 .. n + 1, NEW b \in a - 1 .. n
  PROVE  SubSeq(Bytes(f, n), a, b) = Bytes(f + a - 1, b - a + 1)
<1> DEFINE s == Bytes(f, n)
           g == f + a - 1
<1>1. s \in Seq(Nat) /\ Len(s) = n /\ \A i \in 1 .. n : s[i] = f + i
  BY BytesType
<1> HIDE DEF s
<1>2. \A i \in a .. b : s[i] \in Nat
  BY <1>1
<1>3. /\ SubSeq(s, a, b) \in Seq(Nat)
      /\ Len(SubSeq(s, a, b)) = b - a + 1
      /\ \A i \in 1 .. b - a + 1 : SubSeq(s, a, b)[i] = s[a + i - 1]
  BY <1>2, SubSeqProperties
<1>4. \A i \in 1 .. b - a + 1 : SubSeq(s, a, b)[i] = g + i
  BY <1>1, <1>3
<1>5. g \in Nat
  OBVIOUS
<1>6. SubSeq(s, a, b) = Bytes(g, b - a + 1)
  BY <1>3, <1>4, <1>5, BytesAre
<1> QED  BY <1>6 DEF s

\* A piece without its first k bytes.
LEMMA BytesDrop ==
  ASSUME NEW f \in Nat, NEW n \in Nat, NEW k \in 0 .. n
  PROVE  Drop(Bytes(f, n), k) = Bytes(f + k, n - k)
<1>1. Len(Bytes(f, n)) = n
  BY BytesType
<1>2. \A a \in 1 .. n + 1 : SubSeq(Bytes(f, n), a, n) = Bytes(f + a - 1, n - a + 1)
  <2> TAKE a \in 1 .. n + 1
  <2>1. n \in a - 1 .. n
    OBVIOUS
  <2> QED  BY <2>1, BytesPart
<1>3. k + 1 \in 1 .. n + 1 /\ f + (k + 1) - 1 = f + k /\ n - (k + 1) + 1 = n - k
  OBVIOUS
<1>4. SubSeq(Bytes(f, n), k + 1, n) = Bytes(f + k, n - k)
  BY <1>2, <1>3
<1> QED  BY <1>1, <1>4 DEF Drop

-----------------------------------------------------------------------------
(* The inductive invariant.                                                *)

ConnTypes(c) ==
    c \in [state : Alive \cup {"Free", "Gone"}, snd_una : Nat, snd_nxt : Nat, rcv_nxt : Nat,
           peer_wnd : Nat, tx : Seq(Nat), rx : Seq(Nat), adv_wnd : Int, retries : Nat,
           syn_pending : BOOLEAN]

PeerTypes ==
    peer \in [state : {"Listen", "SynReceived", "Established", "Reset"},
              rcv : Seq(Nat), eof : BOOLEAN, wrote : Nat, fin : BOOLEAN]

\* The send buffer holds what was accepted and not yet acknowledged.
Sender(c, acc) ==
    /\ c.snd_una \in 0 .. acc
    /\ c.snd_nxt \in c.snd_una .. acc
    /\ c.tx = Bytes(c.snd_una, acc - c.snd_una)

\* Bytes received in order: read by the program, or in the buffer.
Rcvd(c, g) == Len(g) + Len(c.rx)

\* The buffer holds what comes next for the program; rcv_nxt is the byte after
\* it, or past the end of the peer's stream.
Receiver(c, g, p) ==
    /\ Len(c.rx) <= RXCAP
    /\ c.rx = Bytes(Len(g), Len(c.rx))
    /\ Rcvd(c, g) <= p.wrote
    /\ \/ c.rcv_nxt = PeerSeq(1 + Rcvd(c, g)) /\ c.state # "PeerClosed"
       \/ /\ c.rcv_nxt = PeerSeq(2 + Rcvd(c, g)) /\ c.state # "Established"
          /\ p.fin /\ Rcvd(c, g) = p.wrote

\* No connection was made: the peer has been sent nothing but SYNs.
Unopened(c) ==
    /\ c.state \in {"Free", "SynSent", "Error"}
    /\ c.state # "Free" => c.snd_una = Isn
    /\ c.snd_nxt = c.snd_una /\ c.rcv_nxt = 0
    /\ c.tx = <<>> /\ c.rx = <<>>
    /\ accepted = 0 /\ got = <<>>
    /\ peer.state \in {"Listen", "SynReceived"}
    /\ \A m \in toPeer : m.flags = {"SYN"}

\* Bytes accepted and not acknowledged keep something in flight.
Probe(c) == c.state \in {"Established", "PeerClosed"} /\ c.tx # <<>> => c.snd_nxt # c.snd_una

\* Who has read everything left the peer a window.
Room(c) == c.state = "Established" /\ c.rx = <<>> => 4 * c.adv_wnd >= RXCAP

Opened(c, acc, g, p) ==
    /\ c.state \in {"Established", "PeerClosed", "Error"}
    /\ Sender(c, acc) /\ Receiver(c, g, p)
    /\ Probe(c) /\ (RXCAP > 1 => Room(c))

\* What is on its way to the peer is a piece of the stream at its place.
Piece(m, acc) ==
    "ACK" \in m.flags =>
        /\ m.seq \in 0 .. acc
        /\ \E n \in 0 .. acc - m.seq : m.data = Bytes(m.seq, n)

\* Both streams.
Streams ==
    /\ load \in Loads
    /\ accepted \in 0 .. load[1] /\ peer.wrote \in 0 .. load[2]
    /\ Len(peer.rcv) <= accepted /\ peer.rcv = Bytes(0, Len(peer.rcv))
    /\ got \in Seq(Nat) /\ Len(got) <= peer.wrote /\ got = Bytes(0, Len(got))
    /\ sawEof \in BOOLEAN
    /\ sawEof => peer.fin /\ Len(got) = peer.wrote
    /\ peer.fin => peer.wrote = load[2]

TcpInv ==
    /\ ConnTypes(t) /\ PeerTypes /\ Streams
    /\ \A m \in toPeer : Piece(m, accepted)
    /\ \/ Unopened(t)
       \/ Opened(t, accepted, got, peer)
       \/ t.state = "Gone"

-----------------------------------------------------------------------------
(* What the kernel sends.                                                  *)

\* The sequence numbers are more than twice what a stream needs.
LEMMA Sizes ==
  ASSUME load \in Loads
  PROVE  /\ W \in Nat /\ W > 4
         /\ load[1] \in Nat /\ load[2] \in Nat
         /\ 2 * (load[1] + 2) < W /\ 2 * (load[2] + 2) < W
BY TcpAssumption DEF TcpAssumption

\* What the sizes of the streams leave for sums of sequence numbers.
LEMMA Limits ==
  ASSUME PeerTypes, Streams
  PROVE  /\ W \in Nat /\ W > 4
         /\ accepted \in Nat /\ accepted + 2 < W /\ accepted <= load[1] /\ load[1] + 2 < W
         /\ peer.wrote \in Nat /\ 2 * (peer.wrote + 2) < W
         /\ got \in Seq(Nat) /\ Len(got) \in Nat /\ peer.rcv \in Seq(Nat) /\ Len(peer.rcv) \in Nat
<1>1. load \in Loads /\ accepted \in 0 .. load[1] /\ peer.wrote \in 0 .. load[2]
  BY DEF Streams
<1>2. PICK l1 \in Nat, l2 \in Nat, ww \in Nat :
        /\ l1 = load[1] /\ l2 = load[2] /\ ww = W
        /\ ww > 4 /\ 2 * (l1 + 2) < ww /\ 2 * (l2 + 2) < ww
  BY <1>1, Sizes
<1>3. accepted \in Nat /\ accepted <= l1 /\ peer.wrote \in Nat /\ peer.wrote <= l2
  BY <1>1, <1>2
<1>4. PICK a \in Nat, w \in Nat : /\ a = accepted /\ a <= l1 /\ w = peer.wrote
                                /\ a + 2 < ww /\ l1 + 2 < ww /\ 2 * (w + 2) < ww
  <2>1. PICK a \in Nat, w \in Nat : a = accepted /\ a <= l1 /\ w = peer.wrote /\ w <= l2
    BY <1>3
  <2>2. a + 2 < ww /\ l1 + 2 < ww /\ 2 * (w + 2) < ww
    BY <1>2, <2>1
  <2> QED  BY <2>1, <2>2
<1>5. got \in Seq(Nat) /\ peer.rcv \in Seq(Nat)
  BY DEF Streams, PeerTypes
<1>6. Len(got) \in Nat /\ Len(peer.rcv) \in Nat
  BY <1>5
<1> QED  BY <1>2, <1>4, <1>5, <1>6

\* What a transmission leaves alone.
Same(c, d) ==
    /\ d.state = c.state /\ d.snd_una = c.snd_una /\ d.rcv_nxt = c.rcv_nxt
    /\ d.tx = c.tx /\ d.rx = c.rx

\* Sending changes only the window announced.
LEMMA WithIs ==
  ASSUME NEW c, ConnTypes(c), NEW S
  PROVE  LET d == With(c, S).conn
         IN  /\ With(c, S).segs = S
             /\ ConnTypes(d) /\ Same(c, d) /\ d.snd_nxt = c.snd_nxt
             /\ S = {} => d = c
             /\ RXCAP > 1 /\ (Room(c) \/ S # {}) => Room(d)
<1> DEFINE d == With(c, S).conn
<1>1. With(c, S).segs = S /\ d = IF S = {} THEN c ELSE [c EXCEPT !.adv_wnd = Wnd(c)]
  BY DEF With
<1>2. RXCAP \in Nat \ {0} /\ Len(c.rx) \in Nat
  BY TcpAssumption DEF TcpAssumption, ConnTypes
<1>3. Wnd(c) \in Int /\ (c.rx = <<>> => Wnd(c) = RXCAP - 1)
  BY <1>2, EmptySeq DEF Wnd, MinOf
<1>4. ConnTypes(d) /\ Same(c, d) /\ d.snd_nxt = c.snd_nxt
  BY <1>1, <1>3 DEF ConnTypes, Same
<1>5. RXCAP > 1 /\ (Room(c) \/ S # {}) => Room(d)
  <2> SUFFICES ASSUME RXCAP > 1, Room(c) \/ S # {} PROVE Room(d)
    OBVIOUS
  <2>1. CASE S = {}
    BY <2>1, <1>1
  <2>2. CASE S # {}
    <3>1. d.adv_wnd = Wnd(c)
      BY <2>2, <1>1 DEF ConnTypes
    <3> QED  BY <3>1, <1>2, <1>3, <1>4 DEF Room, Same
  <2> QED  BY <2>1, <2>2
<1> QED  BY <1>1, <1>4, <1>5

\* tcp_output sends pieces of the buffer and leaves something in flight.
LEMMA OutputIs ==
  ASSUME NEW c, ConnTypes(c), NEW acc \in Nat, W \in Nat, acc < W, Sender(c, acc)
  PROVE  LET d == tcp_output(c).conn
         IN  /\ ConnTypes(d) /\ Same(c, d) /\ Sender(d, acc) /\ Probe(d)
             /\ RXCAP > 1 /\ Room(c) => Room(d)
             /\ \A m \in tcp_output(c).segs : Piece(m, acc)
<1> DEFINE last == MinOf(Len(c.tx), SendWindow(c))
           todo == last - InFlight(c)
           starts == {InFlight(c) + k * Mss : k \in 0 .. (todo - 1) \div Mss}
           Seg(i) == tcp_segment(c, {"ACK"}, Plus(c.snd_una, i), SubSeq(c.tx, i + 1, MinOf(i + Mss, last)))
           e == [c EXCEPT !.snd_nxt = Plus(c.snd_una, last)]
           d == tcp_output(c).conn
<1>1. /\ c.snd_una \in Nat /\ c.snd_nxt \in Nat /\ acc - c.snd_una \in Nat
      /\ c.snd_nxt >= c.snd_una /\ c.snd_nxt <= acc
      /\ c.tx = Bytes(c.snd_una, acc - c.snd_una)
  BY DEF Sender
<1>2. Len(c.tx) \in Nat /\ c.snd_una + Len(c.tx) = acc
  <2>1. Len(Bytes(c.snd_una, acc - c.snd_una)) = acc - c.snd_una
    BY <1>1, BytesType
  <2> QED  BY <1>1, <2>1
<1>3. InFlight(c) \in Nat /\ c.snd_una + InFlight(c) = c.snd_nxt
  <2>1. c.snd_una \in 0 .. W - 1 /\ c.snd_nxt \in 0 .. W - 1
    BY <1>1
  <2>2. InFlight(c) = c.snd_nxt - c.snd_una
    BY <1>1, <2>1, MinusIs DEF InFlight
  <2> QED  BY <1>1, <2>2
<1>4. last \in Nat /\ last <= Len(c.tx) /\ (c.tx # <<>> => last > 0)
  <2>1. SendWindow(c) \in Nat \ {0}
    BY DEF SendWindow, ConnTypes
  <2>2. c.tx # <<>> => Len(c.tx) > 0
    BY <1>2, EmptySeq DEF ConnTypes
  <2> QED  BY <2>1, <2>2, <1>2 DEF MinOf
<1>5. todo = last - InFlight(c) /\ todo \in Int
  BY <1>3, <1>4
<1>6. tcp_output(c) = IF c.state \notin {"Established", "PeerClosed"} \/ todo <= 0 THEN With(c, {})
                      ELSE With(e, {Seg(i) : i \in starts})
  BY DEF tcp_output
<1>7. \A i \in starts : \E k \in 0 .. (todo - 1) \div Mss : i = InFlight(c) + k * Mss
  OBVIOUS
<1>8. e = [c EXCEPT !.snd_nxt = Plus(c.snd_una, last)]
  OBVIOUS
<1>9. \A i : /\ Seg(i).seq = Plus(c.snd_una, i)
             /\ Seg(i).data = SubSeq(c.tx, i + 1, MinOf(i + Mss, last))
  BY DEF tcp_segment
<1> HIDE DEF last, todo, starts, Seg, e
<1>10. CASE c.state \notin {"Established", "PeerClosed"} \/ todo <= 0
  <2>1. tcp_output(c) = With(c, {})
    BY <1>10, <1>6
  <2>2. d = c /\ tcp_output(c).segs = {}
    BY <2>1, WithIs
  <2>3. Probe(c)
    BY <1>1, <1>3, <1>4, <1>5, <1>10 DEF Probe
  <2> QED  BY <2>2, <2>3 DEF Same
<1>11. CASE c.state \in {"Established", "PeerClosed"} /\ todo > 0
  <2>1. tcp_output(c) = With(e, {Seg(i) : i \in starts})
    BY <1>11, <1>5, <1>6
  <2>2. Plus(c.snd_una, last) = c.snd_una + last /\ c.snd_una + last \in Nat
    BY <1>1, <1>2, <1>4, PlusSmall
  <2>3. ConnTypes(e) /\ e.snd_nxt = c.snd_una + last /\ Same(c, e) /\ (Room(c) => Room(e))
    BY <2>2, <1>8 DEF ConnTypes, Same, Room
  <2>4. /\ ConnTypes(d) /\ Same(e, d) /\ d.snd_nxt = e.snd_nxt
        /\ RXCAP > 1 /\ Room(e) => Room(d)
        /\ tcp_output(c).segs = {Seg(i) : i \in starts}
    BY <2>1, <2>3, WithIs
  <2>5. Same(c, d) /\ d.snd_nxt = c.snd_una + last
    BY <2>3, <2>4 DEF Same
  <2>6. Sender(d, acc)
    BY <2>5, <1>1, <1>2, <1>4 DEF Same, Sender
  <2>7. Probe(d)
    BY <2>5, <1>1, <1>4 DEF Probe, Same
  <2>8. ASSUME NEW i \in starts PROVE Piece(Seg(i), acc)
    <3>1. PICK k \in 0 .. (todo - 1) \div Mss : i = InFlight(c) + k * Mss
      BY <1>7
    <3>2. todo - 1 \in Nat /\ Mss \in Nat \ {0}
      BY <1>5, <1>11, TcpAssumption DEF TcpAssumption
    <3>3. k * Mss \in 0 .. todo - 1
      BY <3>2, DivMul
    <3>4. i \in Nat /\ i < last
      BY <3>1, <3>3, <1>3, <1>4, <1>5
    <3>5. Plus(c.snd_una, i) = c.snd_una + i
      BY <3>4, <1>1, <1>2, <1>4, PlusSmall
    <3> DEFINE b == MinOf(i + Mss, last)
    <3>6. b \in Nat /\ b > i /\ b <= last
      BY <3>2, <3>4, <1>4 DEF MinOf
    <3>7. Seg(i).seq = c.snd_una + i /\ Seg(i).data = SubSeq(c.tx, i + 1, b)
      BY <3>5, <1>9
    <3> HIDE DEF b
    <3>8. SubSeq(c.tx, i + 1, b) = Bytes(c.snd_una + i, b - i)
      <4> DEFINE n == acc - c.snd_una
                 a == i + 1
      <4>1. n \in Nat /\ a \in 1 .. n + 1 /\ b \in a - 1 .. n
        BY <3>4, <3>6, <1>1, <1>2, <1>4
      <4>2. c.snd_una + a - 1 = c.snd_una + i /\ b - a + 1 = b - i
        BY <3>4, <3>6, <1>1
      <4> HIDE DEF n, a
      <4>3. SubSeq(Bytes(c.snd_una, n), a, b) = Bytes(c.snd_una + a - 1, b - a + 1)
        BY <4>1, <1>1, BytesPart
      <4> QED  BY <4>2, <4>3, <1>1 DEF n, a
    <3>9. c.snd_una + i \in 0 .. acc /\ b - i \in 0 .. acc - (c.snd_una + i)
      <4>1. PICK u \in Nat, l \in Nat : u = c.snd_una /\ l = last /\ u + l <= acc
        BY <1>1, <1>2, <1>4
      <4>2. i \in Nat /\ i < l /\ b \in Nat /\ b > i /\ b <= l
        BY <3>4, <3>6, <4>1
      <4>3. u + i \in 0 .. acc /\ b - i \in 0 .. acc - (u + i)
        BY <4>1, <4>2
      <4> QED  BY <4>1, <4>3
    <3> QED  BY <3>7, <3>8, <3>9 DEF Piece
  <2> QED  BY <2>3, <2>4, <2>5, <2>6, <2>7, <2>8
<1> QED  BY <1>5, <1>10, <1>11

\* An answer followed by what tcp_output can send.
LEMMA ReplyIs ==
  ASSUME NEW c, ConnTypes(c), NEW acc \in Nat, W \in Nat, acc < W, Sender(c, acc),
         NEW S, \A m \in S : Piece(m, acc)
  PROVE  LET d == Reply(c, S).conn
         IN  /\ ConnTypes(d) /\ Same(c, d) /\ Sender(d, acc) /\ Probe(d)
             /\ RXCAP > 1 /\ (Room(c) \/ S # {}) => Room(d)
             /\ \A m \in Reply(c, S).segs : Piece(m, acc)
<1> DEFINE out == tcp_output(c)
           T == S \cup out.segs
           d == Reply(c, S).conn
<1>1. /\ ConnTypes(out.conn) /\ Same(c, out.conn) /\ Sender(out.conn, acc) /\ Probe(out.conn)
      /\ RXCAP > 1 /\ Room(c) => Room(out.conn)
      /\ \A m \in out.segs : Piece(m, acc)
  BY OutputIs
<1>2. Reply(c, S) = With(out.conn, T)
  BY DEF Reply
<1> HIDE DEF out
<1>3. /\ Reply(c, S).segs = T /\ ConnTypes(d) /\ Same(out.conn, d) /\ d.snd_nxt = out.conn.snd_nxt
      /\ RXCAP > 1 /\ (Room(out.conn) \/ T # {}) => Room(d)
  BY <1>1, <1>2, WithIs
<1>4. S # {} => T # {}
  OBVIOUS
<1>5. \A m \in T : Piece(m, acc)
  BY <1>1
<1> HIDE DEF T, d
<1>6. Same(c, d) /\ Sender(d, acc) /\ Probe(d)
  BY <1>1, <1>3 DEF Same, Sender, Probe
<1>7. RXCAP > 1 /\ (Room(c) \/ S # {}) => Room(d)
  BY <1>1, <1>3, <1>4
<1> QED  BY <1>3, <1>5, <1>6, <1>7 DEF d

\* An acknowledgment by itself repeats no byte of the stream.
LEMMA AckIsPiece ==
  ASSUME NEW c, NEW flags, NEW acc \in Nat, NEW q \in 0 .. acc
  PROVE  Piece(tcp_segment(c, flags, q, <<>>), acc)
<1>1. 0 \in 0 .. acc - q /\ Bytes(q, 0) = <<>>
  BY BytesEmpty
<1> QED  BY <1>1 DEF Piece, tcp_segment

-----------------------------------------------------------------------------
(* What the kernel makes of a segment.                                     *)

\* A segment of the peer's stream, from its byte `from`.
Talk(m, p, from, n) ==
    /\ from + n <= p.wrote + 1
    /\ m.seq = PeerSeq(from) /\ m.data = Bytes(from - 1, n)
    /\ "FIN" \in m.flags => p.fin /\ from + n = p.wrote + 1

\* What a segment that is no reset says.
Says(m, p, acc) ==
    /\ m.flags \in {{"SYN", "ACK"}, {"ACK"}, {"ACK", "FIN"}}
    /\ m.ack \in 0 .. acc + 1 /\ m.wnd \in Nat
    /\ \/ m.flags = {"SYN", "ACK"} /\ m.data = <<>> /\ m.ack = 0 /\ m.seq = PeerSeq(0)
       \/ /\ p.state = "Established" /\ m.flags # {"SYN", "ACK"}
          /\ \E from \in Nat \ {0}, n \in Nat : Talk(m, p, from, n)

\* What FromPeer contains, in terms of the streams.
LEMMA PeerSays ==
  ASSUME PeerTypes, Streams, NEW m \in FromPeer(peer)
  PROVE  m.flags = {"RST"} \/ Says(m, peer, accepted)
<1> DEFINE says(flags, from, n, ack, wnd) ==
             [flags |-> flags, seq |-> Plus(PeerIsn, from), data |-> Bytes(from - 1, n),
              ack |-> Plus(Isn, 1 + ack), wnd |-> wnd]
           acks == 0 .. Len(peer.rcv) + (IF peer.eof THEN 1 ELSE 0)
           parts == {x \in (1 .. peer.wrote + 1) \X (0 .. peer.wrote) : x[1] + x[2] <= peer.wrote + 1}
           ends == {x \in parts : peer.fin /\ x[1] + x[2] = peer.wrote + 1}
           talk(flags, ps) == {says(flags, x[1], x[2], a, w) : x \in ps, a \in acks, w \in Windows}
<1>1. /\ W \in Nat /\ W > 4 /\ accepted \in Nat /\ peer.wrote \in Nat
      /\ accepted + 1 < W /\ peer.wrote + 1 < W /\ Len(peer.rcv) \in Nat /\ Len(peer.rcv) <= accepted
  <2>1. /\ W \in Nat /\ W > 4 /\ accepted \in Nat /\ accepted + 2 < W
        /\ peer.wrote \in Nat /\ 2 * (peer.wrote + 2) < W /\ Len(peer.rcv) \in Nat
    BY Limits
  <2>2. PICK a \in Nat, w \in Nat : a = accepted /\ w = peer.wrote /\ a + 2 < W /\ 2 * (w + 2) < W
    BY <2>1
  <2>3. a + 1 < W /\ w + 1 < W
    BY <2>1, <2>2
  <2>4. Len(peer.rcv) <= accepted
    BY DEF Streams
  <2> QED  BY <2>1, <2>2, <2>3, <2>4
<1>2. ASSUME NEW w \in Windows, m = says({"SYN", "ACK"}, 0, 0, 0, w)
      PROVE  Says(m, peer, accepted)
  <2>1. Plus(PeerIsn, 0) = PeerSeq(0) /\ Plus(Isn, 1 + 0) = 0
    BY <1>1, PeerSeqIs, OurSeq
  <2>2. Bytes(0 - 1, 0) = <<>>
    <3>1. Bytes(0 - 1, 0) \in Seq(Nat) /\ Len(Bytes(0 - 1, 0)) = 0
      BY DEF Bytes
    <3> QED  BY <3>1, EmptySeq
  <2>3. w \in Nat
    BY TcpAssumption DEF TcpAssumption
  <2> QED  BY <2>1, <2>2, <2>3, <1>1, <1>2 DEF Says
<1>3. ASSUME peer.state = "Established", NEW flags \in {{"ACK"}, {"ACK", "FIN"}},
             NEW x \in parts, NEW a \in acks, NEW w \in Windows,
             "FIN" \in flags => x \in ends, m = says(flags, x[1], x[2], a, w)
      PROVE  Says(m, peer, accepted)
  <2>1. x[1] \in Nat \ {0} /\ x[2] \in Nat /\ x[1] + x[2] <= peer.wrote + 1 /\ x[1] < W
    <3>1. x \in (1 .. peer.wrote + 1) \X (0 .. peer.wrote) /\ x[1] + x[2] <= peer.wrote + 1
      OBVIOUS
    <3>2. x[1] \in 1 .. peer.wrote + 1 /\ x[2] \in 0 .. peer.wrote
      BY <3>1
    <3> QED  BY <3>1, <3>2, <1>1
  <2>2. Plus(PeerIsn, x[1]) = PeerSeq(x[1])
    BY <1>1, <2>1, PeerSeqIs
  <2>3. a \in Nat /\ a <= accepted + 1
    <3>1. CASE peer.eof
      BY <3>1, <1>1
    <3>2. CASE ~peer.eof
      BY <3>2, <1>1
    <3> QED  BY <3>1, <3>2
  <2>4. Plus(Isn, 1 + a) = a
    BY <1>1, <2>3, OurSeq
  <2>5. w \in Nat
    BY TcpAssumption DEF TcpAssumption
  <2>6. "FIN" \in flags => peer.fin /\ x[1] + x[2] = peer.wrote + 1
    BY <1>3
  <2>7. Talk(m, peer, x[1], x[2])
    BY <1>3, <2>1, <2>2, <2>6 DEF Talk
  <2>8. m.flags = flags /\ flags # {"SYN", "ACK"}
    <3>1. m.flags = flags
      BY <1>3
    <3>2. "SYN" \notin flags
      OBVIOUS
    <3> QED  BY <3>1, <3>2
  <2>9. \E from \in Nat \ {0}, n \in Nat : Talk(m, peer, from, n)
    BY <2>1, <2>7
  <2>10. m.ack = a /\ m.wnd = w /\ a \in 0 .. accepted + 1
    BY <1>1, <1>3, <2>3, <2>4
  <2> QED  BY <1>3, <2>5, <2>8, <2>9, <2>10 DEF Says
<1>d. FromPeer(peer) =
        CASE peer.state = "Listen" -> {}
          [] peer.state = "SynReceived" -> {says({"SYN", "ACK"}, 0, 0, 0, w) : w \in Windows}
          [] peer.state = "Established" ->
                {says({"RST"}, 0, 0, 0, 0)} \cup {says({"SYN", "ACK"}, 0, 0, 0, w) : w \in Windows}
                \cup talk({"ACK"}, parts) \cup talk({"ACK", "FIN"}, ends)
          [] peer.state = "Reset" -> {says({"RST"}, 0, 0, 0, 0)}
  BY DEF FromPeer
<1> HIDE DEF says, acks, parts, ends
<1>4. CASE peer.state \in {"Listen", "Reset"}
  <2>1. m = says({"RST"}, 0, 0, 0, 0)
    BY <1>4, <1>d
  <2> QED  BY <2>1 DEF says
<1>5. CASE peer.state = "SynReceived"
  <2>1. m \in {says({"SYN", "ACK"}, 0, 0, 0, w) : w \in Windows}
    BY <1>5, <1>d
  <2> QED  BY <2>1, <1>2
<1>6. CASE peer.state = "Established"
  <2>1. m \in {says({"RST"}, 0, 0, 0, 0)} \cup {says({"SYN", "ACK"}, 0, 0, 0, w) : w \in Windows}
              \cup talk({"ACK"}, parts) \cup talk({"ACK", "FIN"}, ends)
    BY <1>6, <1>d
  <2>2. CASE m = says({"RST"}, 0, 0, 0, 0)
    BY <2>2 DEF says
  <2>3. CASE m \in {says({"SYN", "ACK"}, 0, 0, 0, w) : w \in Windows}
    BY <2>3, <1>2
  <2>4. CASE m \in talk({"ACK"}, parts)
    <3>1. PICK x \in parts, a \in acks, w \in Windows : m = says({"ACK"}, x[1], x[2], a, w)
      BY <2>4
    <3>2. "FIN" \notin {"ACK"}
      OBVIOUS
    <3> QED  BY <3>1, <3>2, <1>3, <1>6
  <2>5. CASE m \in talk({"ACK", "FIN"}, ends)
    <3>1. PICK x \in ends, a \in acks, w \in Windows : m = says({"ACK", "FIN"}, x[1], x[2], a, w)
      BY <2>5
    <3>2. x \in parts
      BY DEF ends
    <3> QED  BY <3>1, <3>2, <1>3, <1>6
  <2> QED  BY <2>1, <2>2, <2>3, <2>4, <2>5
<1> QED  BY <1>4, <1>5, <1>6 DEF PeerTypes

\* What the peer has confirmed leaves the buffer, and only that.
LEMMA AckedIs ==
  ASSUME NEW c, ConnTypes(c), NEW acc \in Nat, W \in Nat, acc + 1 < W, Sender(c, acc),
         NEW m, m.ack \in 0 .. acc + 1, m.wnd \in Nat
  PROVE  LET d == Acked(c, m)
         IN  /\ ConnTypes(d) /\ Sender(d, acc)
             /\ d.state = c.state /\ d.rx = c.rx /\ d.rcv_nxt = c.rcv_nxt /\ d.adv_wnd = c.adv_wnd
<1> DEFINE n == Minus(m.ack, c.snd_una)
           cut == [c EXCEPT !.tx = Drop(@, n), !.snd_una = m.ack, !.retries = 0]
           d == IF n > 0 /\ n <= InFlight(c) THEN cut ELSE c
<1>1. /\ c.snd_una \in Nat /\ c.snd_nxt \in Nat /\ acc - c.snd_una \in Nat /\ m.ack \in Nat
      /\ c.snd_una <= c.snd_nxt /\ c.snd_nxt <= acc
      /\ c.tx = Bytes(c.snd_una, acc - c.snd_una)
  BY DEF Sender
<1>2. InFlight(c) = c.snd_nxt - c.snd_una
  <2>1. c.snd_una \in 0 .. W - 1 /\ c.snd_nxt \in 0 .. W - 1
    BY <1>1
  <2> QED  BY <2>1, <1>1, MinusIs DEF InFlight
<1>3. n = IF m.ack >= c.snd_una THEN m.ack - c.snd_una ELSE m.ack - c.snd_una + W
  <2>1. c.snd_una \in 0 .. W - 1 /\ m.ack \in 0 .. W - 1
    BY <1>1
  <2> QED  BY <2>1, MinusIs
<1>4. Acked(c, m) = IF "ACK" \in m.flags THEN [d EXCEPT !.peer_wnd = m.wnd] ELSE c
  BY DEF Acked
<1>5. cut = [c EXCEPT !.tx = Drop(@, n), !.snd_una = m.ack, !.retries = 0]
  OBVIOUS
<1> HIDE DEF n, cut
<1>6. ConnTypes(d) /\ Sender(d, acc) /\ d.state = c.state /\ d.rx = c.rx
      /\ d.rcv_nxt = c.rcv_nxt /\ d.adv_wnd = c.adv_wnd
  <2>1. CASE n > 0 /\ n <= InFlight(c)
    <3>1. n = m.ack - c.snd_una /\ m.ack > c.snd_una /\ m.ack <= c.snd_nxt
      BY <2>1, <1>1, <1>2, <1>3
    <3>2. n \in 0 .. acc - c.snd_una /\ c.snd_una + n = m.ack /\ acc - c.snd_una - n = acc - m.ack
      BY <3>1, <1>1
    <3>3. Drop(c.tx, n) = Bytes(c.snd_una + n, acc - c.snd_una - n)
      <4> DEFINE k == acc - c.snd_una
      <4>1. c.snd_una \in Nat /\ k \in Nat /\ n \in 0 .. k /\ c.tx = Bytes(c.snd_una, k)
        BY <3>2, <1>1
      <4> HIDE DEF k
      <4>2. Drop(Bytes(c.snd_una, k), n) = Bytes(c.snd_una + n, k - n)
        BY <4>1, BytesDrop
      <4>3. Drop(c.tx, n) = Bytes(c.snd_una + n, k - n)
        BY <4>1, <4>2
      <4> QED  BY <4>3 DEF k
    <3>4. Drop(c.tx, n) = Bytes(m.ack, acc - m.ack) /\ acc - m.ack \in Nat
      BY <3>1, <3>2, <3>3, <1>1
    <3>5. Drop(c.tx, n) \in Seq(Nat)
      <4>1. PICK a \in Nat, k \in Nat : Drop(c.tx, n) = Bytes(a, k)
        BY <3>4, <1>1
      <4>2. Bytes(a, k) \in Seq(Nat)
        BY BytesType
      <4> QED  BY <4>1, <4>2
    <3>6. ConnTypes(cut) /\ cut.tx = Drop(c.tx, n) /\ cut.snd_una = m.ack /\ cut.snd_nxt = c.snd_nxt
          /\ cut.state = c.state /\ cut.rx = c.rx /\ cut.rcv_nxt = c.rcv_nxt /\ cut.adv_wnd = c.adv_wnd
      BY <3>5, <1>1, <1>5 DEF ConnTypes
    <3>7. Sender(cut, acc)
      BY <3>1, <3>4, <3>6, <1>1 DEF Sender
    <3> QED  BY <2>1, <3>6, <3>7
  <2>2. CASE ~(n > 0 /\ n <= InFlight(c))
    BY <2>2
  <2> QED  BY <2>1, <2>2
<1> HIDE DEF d
<1>7. [d EXCEPT !.peer_wnd = m.wnd] \in {[d EXCEPT !.peer_wnd = w] : w \in Nat}
  OBVIOUS
<1> QED  BY <1>4, <1>6 DEF ConnTypes, Sender

\* How far behind byte q of the peer's stream its byte j is.
LEMMA Behind ==
  ASSUME W \in Nat, W > 4, NEW q \in Nat, NEW j \in Nat, q < W, j < W
  PROVE  /\ Minus(PeerSeq(q), PeerSeq(j)) \in Nat
         /\ q >= j => Minus(PeerSeq(q), PeerSeq(j)) = q - j
         /\ q < j => Minus(PeerSeq(q), PeerSeq(j)) = q - j + W
<1>1. q \in 0 .. W - 1 /\ j \in 0 .. W - 1
  OBVIOUS
<1>2. Minus(PeerSeq(q), PeerSeq(j)) = IF q >= j THEN q - j ELSE q - j + W
  BY <1>1, PeerSeqMinus
<1> QED  BY <1>2

\* At most `room` bytes of a segment of bytes `from` and on, the first b left out.
Rest(from, n, b, room) == SubSeq(Bytes(from - 1, n), b + 1, MinOf(n, b + room))

\* The rest of a segment continues the stream, and is cut only by the room.
LEMMA RestIs ==
  ASSUME NEW from \in Nat \ {0}, NEW n \in Nat, NEW room \in Nat, NEW b \in Nat, b < n
  PROVE  \E k \in Nat : /\ Rest(from, n, b, room) = Bytes(from + b - 1, k)
                         /\ Len(Rest(from, n, b, room)) = k
                         /\ k <= room /\ k <= n - b /\ (k = n - b \/ k = room)
<1> DEFINE e == MinOf(n, b + room)
           k == e - b
           s == Rest(from, n, b, room)
<1>1. e \in Nat /\ e >= b /\ e <= n /\ k \in Nat /\ k <= room /\ k <= n - b /\ (k = n - b \/ k = room)
  BY DEF MinOf
<1>2. from - 1 \in Nat /\ b + 1 \in 1 .. n + 1 /\ e \in (b + 1) - 1 .. n
  BY <1>1
<1>3. s = SubSeq(Bytes(from - 1, n), b + 1, e)
  BY DEF Rest
<1>4. (from - 1) + (b + 1) - 1 = from + b - 1 /\ e - (b + 1) + 1 = k /\ from + b - 1 \in Nat
  BY <1>1
<1> HIDE DEF e
<1>5. SubSeq(Bytes(from - 1, n), b + 1, e) = Bytes((from - 1) + (b + 1) - 1, e - (b + 1) + 1)
  BY <1>2, BytesPart
<1> HIDE DEF k, s
<1>6. s = Bytes(from + b - 1, k)
  BY <1>3, <1>4, <1>5
<1>7. Len(Bytes(from + b - 1, k)) = k
  BY <1>1, <1>4, BytesType
<1>8. Len(s) = k
  BY <1>6, <1>7
<1>9. k \in Nat /\ k <= room /\ k <= n - b /\ (k = n - b \/ k = room)
  BY <1>1 DEF k
<1> QED  BY <1>6, <1>8, <1>9 DEF s

\* What the receiver does with a piece, as numbers.
FreshRight(c, g, p, m) ==
    LET f == Fresh(c, m)
    IN  /\ f = Bytes(Rcvd(c, g), Len(f)) /\ Len(f) \in Nat
        /\ Len(c.rx) + Len(f) <= RXCAP /\ Rcvd(c, g) + Len(f) <= p.wrote
        /\ f # <<>> => c.rcv_nxt = PeerSeq(1 + Rcvd(c, g))
        /\ m.data = <<>> => f = <<>>

\* The bytes of a segment that are taken are the next of the stream.
LEMMA FreshIs ==
  ASSUME NEW c, ConnTypes(c), NEW g \in Seq(Nat), NEW p, p.wrote \in Nat, Receiver(c, g, p),
         W \in Nat, 2 * (p.wrote + 2) < W, NEW acc, NEW m, Says(m, p, acc)
  PROVE  FreshRight(c, g, p, m)
<1> DEFINE B == Minus(c.rcv_nxt, m.seq)
<1>1. PICK R \in Nat, L \in Nat, w \in Nat :
         R = Rcvd(c, g) /\ L = Len(c.rx) /\ w = p.wrote /\ R <= w /\ L <= RXCAP
  <2>1. Len(c.rx) \in Nat /\ Len(g) \in Nat
    BY DEF ConnTypes
  <2>2. Rcvd(c, g) \in Nat
    BY <2>1 DEF Rcvd
  <2> QED  BY <2>1, <2>2 DEF Receiver
<1>2. W > 4 /\ 2 + R < W /\ RXCAP \in Nat /\ w = p.wrote /\ w + 2 < W
  BY <1>1, TcpAssumption DEF TcpAssumption
<1>3. Fresh(c, m) = IF B < Len(m.data) THEN SubSeq(m.data, B + 1, MinOf(Len(m.data), B + RXCAP - L))
                    ELSE <<>>
  BY <1>1 DEF Fresh
<1>4. ASSUME Fresh(c, m) = <<>> PROVE FreshRight(c, g, p, m)
  <2>1. Bytes(R, 0) = <<>> /\ Len(<<>>) = 0
    BY BytesEmpty
  <2> QED  BY <1>1, <1>2, <1>4, <2>1 DEF FreshRight
<1>5. \/ c.rcv_nxt = PeerSeq(1 + R)
      \/ c.rcv_nxt = PeerSeq(2 + R) /\ R = w
  BY <1>1 DEF Receiver
<1> HIDE DEF B
<1>6. ASSUME m.data = <<>>, B \in Nat PROVE FreshRight(c, g, p, m)
  <2>1. Len(m.data) = 0
    BY <1>6
  <2>2. ~(B < Len(m.data))
    BY <2>1, <1>6
  <2> QED  BY <1>3, <1>4, <2>2
<1>7. ASSUME NEW from \in Nat, from < W, m.seq = PeerSeq(from)
      PROVE  /\ B \in Nat
             /\ c.rcv_nxt = PeerSeq(1 + R) /\ 1 + R >= from => B = 1 + R - from
             /\ c.rcv_nxt = PeerSeq(1 + R) /\ 1 + R < from => B = 1 + R - from + W
             /\ c.rcv_nxt = PeerSeq(2 + R) /\ 2 + R >= from => B = 2 + R - from
             /\ c.rcv_nxt = PeerSeq(2 + R) /\ 2 + R < from => B = 2 + R - from + W
  <2>1. 1 + R \in Nat /\ 1 + R < W /\ 2 + R \in Nat /\ 2 + R < W
    BY <1>2
  <2> DEFINE q1 == 1 + R
             q2 == 2 + R
  <2>2. /\ Minus(PeerSeq(q1), PeerSeq(from)) \in Nat
        /\ q1 >= from => Minus(PeerSeq(q1), PeerSeq(from)) = q1 - from
        /\ q1 < from => Minus(PeerSeq(q1), PeerSeq(from)) = q1 - from + W
    <3> HIDE DEF q1
    <3> QED  BY <1>2, <1>7, <2>1, Behind DEF q1
  <2>3. /\ Minus(PeerSeq(q2), PeerSeq(from)) \in Nat
        /\ q2 >= from => Minus(PeerSeq(q2), PeerSeq(from)) = q2 - from
        /\ q2 < from => Minus(PeerSeq(q2), PeerSeq(from)) = q2 - from + W
    <3> QED  BY <1>2, <1>7, <2>1, Behind
  <2>4. B = Minus(c.rcv_nxt, PeerSeq(from))
    BY <1>7 DEF B
  <2>5. CASE c.rcv_nxt = PeerSeq(1 + R) /\ c.rcv_nxt # PeerSeq(2 + R)
    BY <2>5, <2>2, <2>4
  <2>6. CASE c.rcv_nxt = PeerSeq(2 + R) /\ c.rcv_nxt # PeerSeq(1 + R)
    BY <2>6, <2>3, <2>4
  <2>7. CASE c.rcv_nxt = PeerSeq(2 + R) /\ c.rcv_nxt = PeerSeq(1 + R)
    BY <2>7, <2>2, <2>3, <2>4
  <2> QED  BY <2>5, <2>6, <2>7, <1>5
<1>8. CASE m.data = <<>> /\ m.seq = PeerSeq(0)
  <2>1. 0 \in Nat /\ 0 < W
    BY <1>2
  <2>2. B \in Nat
    BY <1>7, <1>8, <2>1
  <2> QED  BY <2>2, <1>6, <1>8
<1>9. ASSUME NEW from \in Nat \ {0}, NEW n \in Nat, Talk(m, p, from, n)
      PROVE  FreshRight(c, g, p, m)
  <2>1. /\ from - 1 \in Nat /\ from + n <= w + 1 /\ from < W
        /\ m.seq = PeerSeq(from) /\ m.data = Bytes(from - 1, n)
    BY <1>1, <1>2, <1>9 DEF Talk
  <2>2. Len(m.data) = n
    BY <2>1, BytesType
  <2>3. B \in Nat
    BY <1>7, <2>1
  <2>4. CASE B < n
    <3>1. c.rcv_nxt = PeerSeq(1 + R) /\ B = 1 + R - from
      <4>1. CASE c.rcv_nxt = PeerSeq(1 + R)
        <5>1. 1 + R >= from
          <6>1. 1 + R < from => B = 1 + R - from + W
            BY <4>1, <1>7, <2>1
          <6>2. R \in Nat /\ w \in Nat /\ W \in Nat /\ W > w + 1
            BY <1>2
          <6>3. from + n <= w + 1
            BY <2>1
          <6> QED  BY <6>1, <6>2, <6>3, <2>4
        <5> QED  BY <5>1, <4>1, <1>7, <2>1
      <4>2. CASE c.rcv_nxt = PeerSeq(2 + R) /\ R = w
        <5>1. 2 + R >= from
          BY <4>2, <2>1
        <5>2. B = 2 + R - from
          BY <5>1, <4>2, <1>7, <2>1
        <5>3. ~(B < n)
          BY <5>2, <4>2, <2>1
        <5> QED  BY <5>3, <2>4
      <4> QED  BY <4>1, <4>2, <1>5
    <3> DEFINE s == Fresh(c, m)
               room == RXCAP - L
    <3>2. room \in Nat /\ B + RXCAP - L = B + room /\ L + room = RXCAP
      BY <1>1, <1>2, <2>3
    <3>3. s = Rest(from, n, B, room)
      BY <1>3, <2>1, <2>2, <2>4, <3>2 DEF Rest
    <3>x. from + B - 1 = R
      BY <3>1
    <3> HIDE DEF s, room
    <3>r. \E k \in Nat : /\ Rest(from, n, B, room) = Bytes(from + B - 1, k)
                         /\ Len(Rest(from, n, B, room)) = k
                         /\ k <= room /\ k <= n - B
      <4>1. from \in Nat \ {0} /\ n \in Nat /\ B \in Nat /\ B < n /\ room \in Nat
        BY <2>3, <2>4, <3>2
      <4> QED  BY <4>1, RestIs
    <3>s. Len(s) \in Nat /\ s = Bytes(R, Len(s)) /\ Len(s) <= room /\ Len(s) <= n - B
      BY <3>3, <3>r, <3>x
    <3>4. s = Bytes(R, Len(s)) /\ Len(s) \in Nat /\ Len(s) <= room /\ R + Len(s) <= w
      <4>1. R = from + B - 1 /\ from + n <= w + 1
        BY <2>1, <3>x
      <4>2. R + Len(s) <= w
        BY <4>1, <3>s, <2>3
      <4> QED  BY <4>2, <3>s
    <3>5. L + Len(s) <= RXCAP
      BY <3>2, <3>4
    <3>6. m.data # <<>>
      <4>1. n > 0
        BY <2>3, <2>4
      <4>2. Len(<<>>) = 0
        OBVIOUS
      <4> QED  BY <4>1, <4>2, <2>2
    <3> QED  BY <1>1, <3>1, <3>4, <3>5, <3>6 DEF FreshRight, s
  <2>5. CASE ~(B < n)
    BY <1>3, <1>4, <2>2, <2>5
  <2> QED  BY <2>4, <2>5
<1> QED  BY <1>8, <1>9 DEF Says

\* Different bytes have different sequence numbers.
LEMMA PeerSeqOne ==
  ASSUME W \in Nat, W > 4, NEW i \in Nat, NEW j \in Nat, i < W, j < W, PeerSeq(i) = PeerSeq(j)
  PROVE  i = j
BY DEF PeerSeq

-----------------------------------------------------------------------------
(* The handlers of a segment.                                              *)

\* What an arriving segment leaves of an open connection.
SegmentRight(m) ==
    LET r == Segment(m)
    IN  /\ ConnTypes(r.conn)
        /\ Opened(r.conn, accepted, got, peer)
        /\ \A s \in r.segs : Piece(s, accepted)

\* Acknowledgment, data and FIN of a segment, in that order.
LEMMA SegmentIs ==
  ASSUME ConnTypes(t), PeerTypes, Streams, Opened(t, accepted, got, peer),
         NEW m, Says(m, peer, accepted)
  PROVE  SegmentRight(m)
<1> DEFINE a == Acked(t, m)
           f == Fresh(a, m)
           d == [a EXCEPT !.rx = @ \o f, !.rcv_nxt = Plus(@, Len(f))]
           fin == /\ "FIN" \in m.flags /\ AllTaken(a, m)
                  /\ Plus(m.seq, Len(m.data)) = d.rcv_nxt
                  /\ d.state = "Established"
           e == IF fin THEN [d EXCEPT !.rcv_nxt = Plus(@, 1), !.state = "PeerClosed"] ELSE d
           S == IF m.data # <<>> \/ fin THEN {tcp_segment(e, {"ACK"}, e.snd_nxt, <<>>)} ELSE {}
           R == Rcvd(t, got)
           N == R + Len(f)
<1>1. /\ W \in Nat /\ W > 4 /\ accepted \in Nat /\ accepted + 1 < W
      /\ peer.wrote \in Nat /\ 2 * (peer.wrote + 2) < W /\ got \in Seq(Nat)
  BY Limits
<1>2. /\ ConnTypes(a) /\ Sender(a, accepted)
      /\ a.state = t.state /\ a.rx = t.rx /\ a.rcv_nxt = t.rcv_nxt /\ a.adv_wnd = t.adv_wnd
  <2>1. m.ack \in 0 .. accepted + 1 /\ m.wnd \in Nat
    BY DEF Says
  <2>2. Sender(t, accepted)
    BY DEF Opened
  <2> QED  BY <1>1, <2>1, <2>2, AckedIs
<1>3. Receiver(a, got, peer) /\ Rcvd(a, got) = R
  BY <1>2 DEF Opened, Receiver, Rcvd
<1>4. FreshRight(a, got, peer, m)
  BY <1>1, <1>2, <1>3, FreshIs
<1>5. /\ f = Bytes(R, Len(f)) /\ Len(f) \in Nat
      /\ Len(t.rx) + Len(f) <= RXCAP /\ N <= peer.wrote
      /\ f # <<>> => t.rcv_nxt = PeerSeq(1 + R)
      /\ m.data = <<>> => f = <<>>
  BY <1>2, <1>3, <1>4 DEF FreshRight
<1>r. R = Rcvd(t, got) /\ N = R + Len(f)
  OBVIOUS
<1>6. R \in Nat /\ N \in Nat /\ 2 + N < W /\ 2 + R < W /\ Len(t.rx) \in Nat /\ Len(got) \in Nat
      /\ R = Len(got) + Len(t.rx) /\ N = R + Len(f) /\ R <= N
  <2>1. Len(t.rx) \in Nat /\ Len(got) \in Nat
    BY <1>1 DEF ConnTypes
  <2>2. R = Len(got) + Len(t.rx) /\ N = R + Len(f)
    BY <1>r DEF Rcvd
  <2> HIDE DEF R, N, f
  <2>3. PICK l \in Nat, ff \in Nat, w \in Nat : l = Len(got) + Len(t.rx) /\ ff = Len(f) /\ w = peer.wrote
    <3>1. Len(got) + Len(t.rx) \in Nat
      BY <2>1
    <3>2. Len(f) \in Nat
      BY <1>5
    <3>3. peer.wrote \in Nat
      BY <1>1
    <3> QED  BY <3>1, <3>2, <3>3
  <2>4. R = l /\ N = l + ff /\ l + ff <= w /\ 2 * (w + 2) < W
    BY <1>1, <1>5, <2>2, <2>3
  <2>5. R \in Nat /\ N \in Nat /\ 2 + N < W /\ 2 + R < W /\ R <= N
    BY <1>1, <2>4
  <2> QED  BY <2>1, <2>2, <2>5
<1>d. d = [a EXCEPT !.rx = @ \o f, !.rcv_nxt = Plus(@, Len(f))]
  OBVIOUS
<1>e. Segment(m) = Reply(e, S)
  BY DEF Segment
<1>s. /\ e = IF fin THEN [d EXCEPT !.rcv_nxt = Plus(@, 1), !.state = "PeerClosed"] ELSE d
      /\ S = IF m.data # <<>> \/ fin THEN {tcp_segment(e, {"ACK"}, e.snd_nxt, <<>>)} ELSE {}
      /\ fin = /\ "FIN" \in m.flags /\ AllTaken(a, m)
               /\ Plus(m.seq, Len(m.data)) = d.rcv_nxt
               /\ d.state = "Established"
  OBVIOUS
<1> HIDE DEF a, f, d, fin, e, S, R, N
<1>u. 1 + R \in 0 .. W - 1 /\ 2 + R \in 0 .. W - 1
  <2>1. R \in Nat /\ 2 + R < W
    BY <1>6
  <2>2. W \in Nat
    BY <1>1
  <2> QED  BY <2>1, <2>2
<1>7. Plus(t.rcv_nxt, 0) = t.rcv_nxt /\ t.rcv_nxt \in Nat
  <2>1. t.rcv_nxt = PeerSeq(1 + R) \/ t.rcv_nxt = PeerSeq(2 + R)
    BY DEF Opened, Receiver, R
  <2>2. 1 + R \in 0 .. W - 1 /\ 2 + R \in 0 .. W - 1
    BY <1>u
  <2>3. t.rcv_nxt \in 0 .. W - 1
    BY <2>1, <2>2, <1>1, PeerSeqIs
  <2>4. t.rcv_nxt \in Nat /\ t.rcv_nxt + 0 < W /\ t.rcv_nxt + 0 = t.rcv_nxt
    BY <2>3, <1>1
  <2> QED  BY <2>4, <1>1, PlusSmall
<1>8. /\ f = <<>> => Plus(t.rcv_nxt, Len(f)) = t.rcv_nxt /\ Len(f) = 0
      /\ f # <<>> => Plus(t.rcv_nxt, Len(f)) = PeerSeq(1 + N)
      /\ Plus(t.rcv_nxt, Len(f)) \in Nat
  <2>1. CASE f = <<>>
    BY <2>1, <1>7
  <2>2. CASE f # <<>>
    <3> DEFINE q == 1 + R
    <3>1. q \in Nat /\ q + Len(f) < W /\ q + Len(f) = 1 + N /\ 1 + N \in 0 .. W - 1
      <4>1. PICK k \in Nat : k = Len(f)
        BY <1>5
      <4>2. R \in Nat /\ N = R + k /\ 2 + N < W /\ W \in Nat
        BY <1>1, <1>6, <4>1
      <4>3. q \in Nat /\ q + k < W /\ q + k = 1 + N /\ 1 + N \in 0 .. W - 1
        BY <4>2
      <4> QED  BY <4>1, <4>3
    <3>2. t.rcv_nxt = PeerSeq(q)
      BY <2>2, <1>5
    <3> HIDE DEF q
    <3>3. Plus(PeerSeq(q), Len(f)) = PeerSeq(q + Len(f))
      BY <3>1, <1>1, <1>5, PeerSeqPlus
    <3>4. PeerSeq(1 + N) \in 0 .. W - 1
      BY <3>1, <1>1, PeerSeqIs
    <3> QED  BY <2>2, <3>1, <3>2, <3>3, <3>4
  <2> QED  BY <2>1, <2>2
<1>9. /\ ConnTypes(d) /\ Sender(d, accepted) /\ d.state = t.state /\ d.adv_wnd = t.adv_wnd
      /\ d.rx = t.rx \o f /\ d.rcv_nxt = Plus(t.rcv_nxt, Len(f))
  <2>1. f \in Seq(Nat)
    <3>1. Bytes(R, Len(f)) \in Seq(Nat)
      BY <1>5, <1>6, BytesType
    <3> QED  BY <3>1, <1>5
  <2>2. t.rx \o f \in Seq(Nat)
    BY <2>1, ConcatProperties DEF ConnTypes
  <2>3. a.rx \o f = t.rx \o f /\ Plus(a.rcv_nxt, Len(f)) = Plus(t.rcv_nxt, Len(f))
    BY <1>2
  <2>4. /\ ConnTypes(d) /\ d.state = a.state /\ d.adv_wnd = a.adv_wnd /\ d.tx = a.tx
        /\ d.snd_una = a.snd_una /\ d.snd_nxt = a.snd_nxt
        /\ d.rx = t.rx \o f /\ d.rcv_nxt = Plus(t.rcv_nxt, Len(f))
    BY <2>2, <2>3, <1>2, <1>8, <1>d DEF ConnTypes
  <2> QED  BY <2>4, <1>2 DEF Sender
<1>10. d.rx = Bytes(Len(got), Len(d.rx)) /\ Len(d.rx) = Len(t.rx) + Len(f) /\ Rcvd(d, got) = N
  <2> DEFINE g == Len(got)
             k == Len(t.rx)
             j == Len(f)
  <2>1. t.rx = Bytes(g, k) /\ f = Bytes(g + k, j) /\ g \in Nat /\ k \in Nat /\ j \in Nat /\ k + j \in Nat
    <3>1. g + k = R
      BY <1>6
    <3> QED  BY <3>1, <1>5, <1>6 DEF Opened, Receiver
  <2> HIDE DEF g, k, j
  <2>2. Bytes(g, k) \o Bytes(g + k, j) = Bytes(g, k + j)
    BY <2>1, BytesJoin
  <2>3. d.rx = Bytes(g, k + j)
    BY <2>1, <2>2, <1>9
  <2>4. Len(Bytes(g, k + j)) = k + j
    BY <2>1, BytesType
  <2>5. Len(d.rx) = k + j
    BY <2>3, <2>4
  <2>6. Len(got) + Len(d.rx) = N
    BY <2>5, <1>6 DEF g, k, j
  <2> QED  BY <2>3, <2>5, <2>6 DEF g, k, j, Rcvd
<1>11. Receiver(d, got, peer)
  <2>1. Len(d.rx) <= RXCAP /\ Rcvd(d, got) <= peer.wrote
    BY <1>5, <1>10
  <2>2. CASE f = <<>>
    <3>1. N = R
      BY <2>2, <1>6, <1>8
    <3>2. d.rcv_nxt = t.rcv_nxt /\ Rcvd(d, got) = R
      BY <2>2, <3>1, <1>8, <1>9, <1>10
    <3> QED  BY <2>1, <3>2, <1>9, <1>10 DEF Opened, Receiver, R
  <2>3. CASE f # <<>>
    <3>1. d.rcv_nxt = PeerSeq(1 + Rcvd(d, got))
      BY <2>3, <1>8, <1>9, <1>10
    <3>2. t.state # "PeerClosed"
      <4>1. t.rcv_nxt = PeerSeq(1 + R)
        BY <2>3, <1>5
      <4>2. t.state = "PeerClosed" => t.rcv_nxt = PeerSeq(2 + R)
        BY DEF Opened, Receiver, R
      <4>3. PeerSeq(1 + R) # PeerSeq(2 + R)
        <5> DEFINE q == 1 + R
                   r == 2 + R
        <5>1. q \in Nat /\ r \in Nat /\ q < W /\ r < W /\ q # r
          <6>1. R \in Nat /\ 2 + R < W
            BY <1>6
          <6>2. W \in Nat
            BY <1>1
          <6> QED  BY <6>1, <6>2
        <5> HIDE DEF q, r
        <5>2. PeerSeq(q) # PeerSeq(r)
          BY <5>1, <1>1, PeerSeqOne
        <5> QED  BY <5>2 DEF q, r
      <4> QED  BY <4>1, <4>2, <4>3
    <3> QED  BY <2>1, <3>1, <3>2, <1>9, <1>10 DEF Receiver
  <2> QED  BY <2>2, <2>3
<1>12. /\ ConnTypes(e) /\ Sender(e, accepted) /\ Receiver(e, got, peer)
       /\ e.state \in {t.state, "PeerClosed"} /\ e.rx = d.rx
       /\ ~fin => e.adv_wnd = t.adv_wnd /\ e.state = t.state
  <2>1. CASE ~fin
    <3>1. e = d
      BY <2>1, <1>s
    <3> QED  BY <2>1, <3>1, <1>9, <1>11
  <2>2. CASE fin
    <3>1. /\ "FIN" \in m.flags /\ Plus(m.seq, Len(m.data)) = d.rcv_nxt /\ d.state = "Established"
          /\ e = [d EXCEPT !.rcv_nxt = Plus(@, 1), !.state = "PeerClosed"]
      BY <2>2, <1>s
    <3>2. PICK from \in Nat \ {0}, n \in Nat : Talk(m, peer, from, n)
      <4>1. m.flags # {"SYN", "ACK"}
        BY <3>1
      <4> QED  BY <4>1 DEF Says
    <3>3. /\ peer.fin /\ from + n = peer.wrote + 1 /\ m.seq = PeerSeq(from) /\ from - 1 \in Nat
          /\ m.data = Bytes(from - 1, n)
      BY <3>1, <3>2 DEF Talk
    <3>4. Len(m.data) = n
      BY <3>3, BytesType
    <3> DEFINE q == peer.wrote + 1
               r == 1 + N
    <3>5. q \in Nat /\ q < W /\ q + 1 < W /\ r \in Nat /\ r < W /\ from + n = q /\ q + 1 = 2 + peer.wrote
      <4>1. PICK w \in Nat : w = peer.wrote /\ 2 * (w + 2) < W
        BY <1>1
      <4>2. w + 1 \in Nat /\ w + 1 < W /\ w + 1 + 1 < W /\ w + 1 + 1 = 2 + w
        BY <1>1, <4>1
      <4>3. r \in Nat /\ r < W
        <5>1. N \in Nat /\ 2 + N < W
          BY <1>6
        <5>2. W \in Nat
          BY <1>1
        <5> QED  BY <5>1, <5>2
      <4> QED  BY <3>3, <4>1, <4>2, <4>3
    <3>6. d.rcv_nxt = PeerSeq(r)
      BY <1>10, <1>11, <3>1 DEF Receiver
    <3> HIDE DEF q, r
    <3>7. Plus(PeerSeq(from), n) = PeerSeq(from + n)
      BY <1>1, <3>5, PeerSeqPlus
    <3>8. PeerSeq(q) = PeerSeq(r)
      BY <3>1, <3>3, <3>4, <3>5, <3>6, <3>7
    <3>9. q = r
      BY <3>8, <3>5, <1>1, PeerSeqOne
    <3>10. N = peer.wrote
      <4>1. peer.wrote + 1 = 1 + N
        BY <3>9 DEF q, r
      <4>2. peer.wrote \in Nat /\ N \in Nat
        BY <1>1, <1>6
      <4> QED  BY <4>1, <4>2
    <3>11. Plus(PeerSeq(q), 1) = PeerSeq(q + 1)
      BY <3>5, <1>1, PeerSeqPlus
    <3>12. PeerSeq(q + 1) \in Nat
      <4>1. q + 1 \in 0 .. W - 1
        BY <1>1, <3>5
      <4>2. PeerSeq(q + 1) \in 0 .. W - 1
        BY <4>1, <1>1, PeerSeqIs
      <4> QED  BY <4>2
    <3>13. Plus(d.rcv_nxt, 1) = PeerSeq(q + 1)
      BY <3>6, <3>9, <3>11
    <3>14. /\ ConnTypes(e) /\ e.state = "PeerClosed" /\ e.rcv_nxt = PeerSeq(q + 1) /\ e.rx = d.rx
           /\ e.tx = d.tx /\ e.snd_una = d.snd_una /\ e.snd_nxt = d.snd_nxt
      BY <3>1, <3>12, <3>13, <1>9 DEF ConnTypes, Alive
    <3>15. Sender(e, accepted)
      BY <3>14, <1>9 DEF Sender
    <3>16. Rcvd(e, got) = N
      BY <3>14, <1>10 DEF Rcvd
    <3>17. e.rcv_nxt = PeerSeq(2 + Rcvd(e, got))
      BY <3>5, <3>10, <3>14, <3>16
    <3>18. Receiver(e, got, peer)
      <4>1. Len(e.rx) <= RXCAP /\ e.rx = Bytes(Len(got), Len(e.rx)) /\ Rcvd(e, got) <= peer.wrote
        BY <3>14, <3>16, <1>10, <1>11 DEF Receiver
      <4> QED  BY <3>3, <3>10, <3>14, <3>16, <3>17, <4>1 DEF Receiver
    <3> QED  BY <2>2, <3>14, <3>15, <3>18
  <2> QED  BY <2>1, <2>2
<1>13. \A s \in S : Piece(s, accepted)
  <2>1. e.snd_nxt \in 0 .. accepted
    BY <1>1, <1>12 DEF Sender
  <2>2. Piece(tcp_segment(e, {"ACK"}, e.snd_nxt, <<>>), accepted)
    BY <2>1, <1>1, AckIsPiece
  <2> QED  BY <2>2, <1>s
<1>14. RXCAP > 1 => Room(e) \/ S # {}
  <2>1. CASE m.data # <<>> \/ fin
    BY <2>1, <1>s
  <2>2. CASE m.data = <<>> /\ ~fin
    <3>1. f = <<>> /\ Len(f) = 0
      BY <2>2, <1>5, <1>8
    <3>2. e.rx = <<>> => t.rx = <<>>
      <4>1. Len(d.rx) = Len(t.rx)
        BY <3>1, <1>6, <1>10
      <4>2. d.rx = <<>> => Len(t.rx) = 0
        BY <4>1
      <4> QED  BY <4>2, <1>12, EmptySeq DEF ConnTypes
    <3> QED  BY <2>2, <3>2, <1>12 DEF Opened, Room
  <2> QED  BY <2>1, <2>2
<1> DEFINE x == Reply(e, S).conn
<1>15. accepted < W
  BY <1>1
<1>16. /\ ConnTypes(x) /\ Same(e, x) /\ Sender(x, accepted) /\ Probe(x)
       /\ RXCAP > 1 /\ (Room(e) \/ S # {}) => Room(x)
       /\ \A s \in Reply(e, S).segs : Piece(s, accepted)
  BY <1>1, <1>12, <1>13, <1>15, ReplyIs
<1> HIDE DEF x
<1>17. Receiver(x, got, peer) /\ x.state \in {"Established", "PeerClosed", "Error"}
  BY <1>12, <1>16 DEF Same, Receiver, Rcvd, Opened
<1>18. Opened(x, accepted, got, peer)
  BY <1>14, <1>16, <1>17 DEF Opened
<1> QED  BY <1>16, <1>18, <1>e DEF SegmentRight, x

\* The answer to the SYN opens the connection.
LEMMA HandshakeIs ==
  ASSUME ConnTypes(t), PeerTypes, Streams, Unopened(t), t.state = "SynSent",
         NEW m, Says(m, peer, accepted)
  PROVE  LET r == Handshake(m)
         IN  \/ r.conn = t /\ r.segs = {}
             \/ /\ ConnTypes(r.conn) /\ Opened(r.conn, accepted, got, peer)
                /\ \A s \in r.segs : Piece(s, accepted)
<1> DEFINE c == [t EXCEPT !.snd_una = m.ack, !.snd_nxt = m.ack, !.rcv_nxt = Plus(m.seq, 1),
                          !.peer_wnd = m.wnd, !.state = "Established",
                          !.syn_pending = FALSE, !.retries = 0]
           S == {tcp_segment(c, {"ACK"}, c.snd_nxt, <<>>)}
           ok == {"SYN", "ACK"} \subseteq m.flags /\ m.ack = Plus(t.snd_una, 1)
           d == Reply(c, S).conn
<1>1. /\ W \in Nat /\ W > 4 /\ accepted < W /\ peer.wrote \in Nat /\ got \in Seq(Nat)
  BY Limits
<1>2. Handshake(m) = IF ok THEN Reply(c, S) ELSE With(t, {})
  BY DEF Handshake
<1>3. /\ t.snd_una = Isn /\ t.tx = <<>> /\ t.rx = <<>> /\ accepted = 0 /\ got = <<>>
  BY DEF Unopened
<1>4. c = [t EXCEPT !.snd_una = m.ack, !.snd_nxt = m.ack, !.rcv_nxt = Plus(m.seq, 1),
                    !.peer_wnd = m.wnd, !.state = "Established",
                    !.syn_pending = FALSE, !.retries = 0]
  OBVIOUS
<1> HIDE DEF c, ok, S, d
<1>5. CASE ~ok
  BY <1>2, <1>5, WithIs
<1>6. CASE ok
  <2>1. m.flags = {"SYN", "ACK"} /\ m.ack = 0 /\ m.seq = PeerSeq(0) /\ m.wnd \in Nat
    <3>1. m.ack = Plus(Isn, 1)
      BY <1>3, <1>6 DEF ok
    <3>2. Plus(Isn, 1 + 0) = 0 /\ 1 + 0 = 1
      BY <1>1, OurSeq
    <3>3. "SYN" \in m.flags
      BY <1>6 DEF ok
    <3>4. m.flags = {"SYN", "ACK"}
      BY <3>3 DEF Says
    <3> QED  BY <3>1, <3>2, <3>4 DEF Says
  <2>2. Plus(PeerSeq(0), 1) = PeerSeq(1) /\ PeerSeq(1) \in Nat
    <3>1. Plus(PeerSeq(0), 1) = PeerSeq(0 + 1) /\ 0 + 1 = 1
      BY <1>1, PeerSeqPlus
    <3>2. PeerSeq(1) \in 0 .. W - 1
      BY <1>1, PeerSeqIs
    <3> QED  BY <3>1, <3>2
  <2>3. /\ ConnTypes(c) /\ c.snd_una = 0 /\ c.snd_nxt = 0 /\ c.rcv_nxt = PeerSeq(1)
        /\ c.state = "Established" /\ c.tx = <<>> /\ c.rx = <<>>
    <3> DEFINE q == PeerSeq(1)
    <3>1. c = [t EXCEPT !.snd_una = 0, !.snd_nxt = 0, !.rcv_nxt = q,
                        !.peer_wnd = m.wnd, !.state = "Established",
                        !.syn_pending = FALSE, !.retries = 0]
      BY <1>4, <2>1, <2>2
    <3>2. q \in Nat /\ m.wnd \in Nat /\ "Established" \in Alive
      BY <2>1, <2>2 DEF Alive
    <3> HIDE DEF q
    <3>3. ConnTypes(c) /\ c.snd_una = 0 /\ c.snd_nxt = 0 /\ c.rcv_nxt = q /\ c.state = "Established"
          /\ c.tx = t.tx /\ c.rx = t.rx
      BY <3>1, <3>2 DEF ConnTypes
    <3> QED  BY <1>3, <3>3 DEF q
  <2>4. <<>> = Bytes(0, 0) /\ Len(<<>>) = 0
    BY BytesEmpty
  <2>5. Sender(c, accepted)
    BY <1>3, <2>3, <2>4 DEF Sender
  <2>6. Receiver(c, got, peer)
    <3>1. Rcvd(c, got) = 0 /\ Len(c.rx) = 0 /\ Len(got) = 0 /\ 1 + 0 = 1
      BY <1>3, <2>3, <2>4 DEF Rcvd
    <3>2. RXCAP \in Nat
      BY TcpAssumption DEF TcpAssumption
    <3>3. c.rcv_nxt = PeerSeq(1 + Rcvd(c, got))
      BY <2>3, <3>1
    <3>4. c.rx = Bytes(Len(got), Len(c.rx))
      BY <2>3, <2>4, <3>1
    <3> QED  BY <1>1, <2>3, <3>1, <3>2, <3>3, <3>4 DEF Receiver
  <2>7. \A s \in S : Piece(s, accepted)
    <3>1. c.snd_nxt \in 0 .. accepted /\ accepted \in Nat
      BY <1>3, <2>3
    <3>2. Piece(tcp_segment(c, {"ACK"}, c.snd_nxt, <<>>), accepted)
      BY <3>1, AckIsPiece
    <3> QED  BY <3>2 DEF S
  <2>8. S # {} /\ accepted \in Nat
    BY <1>3 DEF S
  <2>9. /\ ConnTypes(d) /\ Same(c, d) /\ Sender(d, accepted) /\ Probe(d) /\ (RXCAP > 1 => Room(d))
        /\ \A s \in Reply(c, S).segs : Piece(s, accepted)
    BY <1>1, <2>3, <2>5, <2>7, <2>8, ReplyIs DEF d
  <2>10. Receiver(d, got, peer) /\ d.state = "Established"
    BY <2>3, <2>6, <2>9 DEF Same, Receiver, Rcvd
  <2> QED  BY <1>2, <1>6, <2>9, <2>10 DEF Opened, d
<1> QED  BY <1>5, <1>6

\* A segment for a connection that failed before it was open changes nothing.
LEMMA LateSegmentIs ==
  ASSUME ConnTypes(t), PeerTypes, Streams, Unopened(t), t.state = "Error",
         NEW m, Says(m, peer, accepted)
  PROVE  LET r == Segment(m)
         IN  /\ r.segs = {}
             /\ ConnTypes(r.conn) /\ Unopened(r.conn) /\ r.conn.state = "Error"
<1> DEFINE a == Acked(t, m)
           f == Fresh(a, m)
           d == [a EXCEPT !.rx = @ \o f, !.rcv_nxt = Plus(@, Len(f))]
           fin == /\ "FIN" \in m.flags /\ AllTaken(a, m)
                  /\ Plus(m.seq, Len(m.data)) = d.rcv_nxt
                  /\ d.state = "Established"
           e == IF fin THEN [d EXCEPT !.rcv_nxt = Plus(@, 1), !.state = "PeerClosed"] ELSE d
           S == IF m.data # <<>> \/ fin THEN {tcp_segment(e, {"ACK"}, e.snd_nxt, <<>>)} ELSE {}
<1>1. W \in Nat /\ W > 4
  BY Limits
<1>2. m.flags = {"SYN", "ACK"} /\ m.data = <<>> /\ m.seq = PeerSeq(0) /\ m.ack = 0 /\ m.wnd \in Nat
  BY DEF Says, Unopened
<1>3. /\ t.snd_una = Isn /\ t.snd_nxt = Isn /\ t.rcv_nxt = 0 /\ t.tx = <<>> /\ t.rx = <<>>
  BY DEF Unopened
<1>4. a = [t EXCEPT !.peer_wnd = m.wnd]
  <2>1. InFlight(t) = 0
    <3>1. Isn \in 0 .. W - 1
      BY <1>1 DEF Isn
    <3>2. Minus(Isn, Isn) = IF Isn >= Isn THEN Isn - Isn ELSE Isn - Isn + W
      BY <1>1, <3>1, MinusIs
    <3> QED  BY <1>3, <3>1, <3>2 DEF InFlight
  <2> DEFINE n == Minus(m.ack, t.snd_una)
             b == [t EXCEPT !.tx = Drop(@, n), !.snd_una = m.ack, !.retries = 0]
  <2>2. Acked(t, m) = IF "ACK" \in m.flags
                      THEN [(IF n > 0 /\ n <= InFlight(t) THEN b ELSE t) EXCEPT !.peer_wnd = m.wnd]
                      ELSE t
    BY DEF Acked
  <2>3. n \in Int
    BY <1>1, <1>2, <1>3 DEF Minus, Isn
  <2> HIDE DEF n, b
  <2>4. ~(n > 0 /\ n <= InFlight(t))
    BY <2>1, <2>3
  <2> QED  BY <1>2, <2>2, <2>4
<1>5. /\ ConnTypes(a) /\ a.state = "Error" /\ a.rcv_nxt = 0 /\ a.rx = <<>> /\ a.tx = <<>>
      /\ a.snd_una = Isn /\ a.snd_nxt = Isn
  BY <1>2, <1>3, <1>4 DEF ConnTypes
<1> HIDE DEF a
<1>6. f = <<>>
  <2>1. Minus(PeerSeq(2), PeerSeq(0)) = 2
    BY <1>1, Behind
  <2>2. PeerSeq(2) = 0
    BY DEF PeerSeq
  <2>3. Minus(a.rcv_nxt, m.seq) = 2 /\ Len(m.data) = 0
    BY <1>2, <1>5, <2>1, <2>2
  <2> QED  BY <2>3 DEF Fresh
<1> HIDE DEF f
<1>7. d = a
  <2>1. Plus(0, 0) = 0
    BY <1>1, PlusSmall
  <2>2. <<>> \o <<>> = <<>> /\ Len(<<>>) = 0
    OBVIOUS
  <2>3. d = [a EXCEPT !.rx = <<>>, !.rcv_nxt = 0]
    BY <1>5, <1>6, <2>1, <2>2
  <2> QED  BY <1>5, <2>3 DEF ConnTypes
<1> HIDE DEF d
<1>8. e = a /\ S = {}
  BY <1>2, <1>5, <1>7
<1>9. Segment(m) = Reply(e, S)
  BY DEF Segment, a, f, d
<1>10. Reply(a, {}) = With(With(a, {}).conn, {} \cup With(a, {}).segs)
  BY <1>5 DEF Reply, tcp_output
<1>11. With(a, {}).conn = a /\ With(a, {}).segs = {}
  BY <1>5, WithIs
<1>12. Reply(a, {}).conn = a /\ Reply(a, {}).segs = {}
  <2>1. Reply(a, {}) = With(a, {})
    BY <1>10, <1>11
  <2> QED  BY <2>1, <1>11
<1>13. Unopened(a)
  BY <1>5 DEF Unopened
<1> HIDE DEF e, S
<1> QED  BY <1>5, <1>8, <1>9, <1>12, <1>13

-----------------------------------------------------------------------------
(* Every step keeps the invariant.                                         *)

\* What is in flight after a handler.
LEMMA SentIs ==
  ASSUME NEW r, Handled(r), NEW acc, \A m \in toPeer : Piece(m, acc), \A m \in r.segs : Piece(m, acc)
  PROVE  t' = r.conn /\ \A m \in toPeer' : Piece(m, acc)
BY DEF Handled

\* More accepted bytes leave the pieces in place.
LEMMA PieceLater ==
  ASSUME NEW a \in Nat, NEW b \in Nat, a <= b, NEW m, Piece(m, a)
  PROVE  Piece(m, b)
<1> SUFFICES ASSUME "ACK" \in m.flags
             PROVE  m.seq \in 0 .. b /\ \E n \in 0 .. b - m.seq : m.data = Bytes(m.seq, n)
  BY DEF Piece
<1>1. m.seq \in 0 .. a /\ \E n \in 0 .. a - m.seq : m.data = Bytes(m.seq, n)
  BY DEF Piece
<1>2. PICK n \in 0 .. a - m.seq : m.data = Bytes(m.seq, n)
  BY <1>1
<1>3. m.seq \in 0 .. b /\ n \in 0 .. b - m.seq
  BY <1>1
<1> QED  BY <1>2, <1>3

\* A handler of an open connection that leaves it open.
LEMMA KernelStep ==
  ASSUME TcpInv, NEW r, Handled(r), ConnTypes(r.conn), UNCHANGED <<accepted, got, sawEof, peer, load>>,
         \A m \in r.segs : Piece(m, accepted),
         Opened(r.conn, accepted, got, peer) \/ r.conn.state = "Gone"
  PROVE  TcpInv'
<1>1. t' = r.conn /\ \A m \in toPeer' : Piece(m, accepted)
  BY SentIs DEF TcpInv
<1>2. accepted' = accepted /\ got' = got /\ peer' = peer /\ sawEof' = sawEof /\ load' = load
  OBVIOUS
<1>3. ConnTypes(t') /\ PeerTypes' /\ Streams' /\ \A m \in toPeer' : Piece(m, accepted')
  BY <1>1, <1>2 DEF TcpInv, PeerTypes, Streams
<1>4. Opened(t', accepted', got', peer') \/ t'.state = "Gone"
  BY <1>1, <1>2
<1> QED  BY <1>3, <1>4 DEF TcpInv

\* A handler of a connection that is not open yet.
LEMMA SynStep ==
  ASSUME TcpInv, Unopened(t), NEW r, Handled(r), ConnTypes(r.conn),
         UNCHANGED <<accepted, got, sawEof, peer, load>>,
         \A m \in r.segs : m.flags = {"SYN"},
         r.conn.state \in {"SynSent", "Error"}, r.conn.snd_una = Isn,
         r.conn.snd_nxt = Isn, r.conn.rcv_nxt = 0, r.conn.tx = <<>>, r.conn.rx = <<>>
  PROVE  TcpInv'
<1>1. \A m \in r.segs : Piece(m, accepted)
  BY DEF Piece
<1>2. t' = r.conn /\ \A m \in toPeer' : Piece(m, accepted)
  BY <1>1, SentIs DEF TcpInv
<1>3. accepted' = accepted /\ got' = got /\ peer' = peer /\ sawEof' = sawEof /\ load' = load
  OBVIOUS
<1>4. ConnTypes(t') /\ PeerTypes' /\ Streams' /\ \A m \in toPeer' : Piece(m, accepted')
  BY <1>2, <1>3 DEF TcpInv, PeerTypes, Streams
<1>5. \A m \in toPeer' : m.flags = {"SYN"}
  BY DEF Handled, Unopened
<1>6. Unopened(t)'
  BY <1>2, <1>3, <1>5 DEF Unopened
<1> QED  BY <1>4, <1>6 DEF TcpInv

\* tcp_connect.
LEMMA ConnectStep == ASSUME TcpInv, tcp_connect PROVE TcpInv'
<1> DEFINE c == [t EXCEPT !.state = "SynSent", !.snd_una = Isn, !.snd_nxt = Isn, !.syn_pending = TRUE]
           S == {tcp_segment(c, {"SYN"}, Isn, <<>>)}
<1>1. t.state = "Free" /\ Handled(With(c, S)) /\ UNCHANGED <<accepted, got, sawEof, peer, load>>
  BY DEF tcp_connect
<1>2. Unopened(t) /\ ConnTypes(t)
  BY <1>1 DEF TcpInv, Opened
<1>3. Isn \in Nat
  <2>1. W \in Nat /\ W > 4
    BY Limits DEF TcpInv
  <2> QED  BY <2>1 DEF Isn
<1>4. /\ ConnTypes(c) /\ c.state = "SynSent" /\ c.snd_una = Isn /\ c.snd_nxt = Isn
      /\ c.rcv_nxt = 0 /\ c.tx = <<>> /\ c.rx = <<>>
  BY <1>2, <1>3 DEF ConnTypes, Unopened, Alive
<1>5. \A m \in S : m.flags = {"SYN"}
  BY DEF tcp_segment
<1> HIDE DEF c, S
<1> DEFINE r == With(c, S)
<1>6. ConnTypes(r.conn) /\ Same(c, r.conn) /\ r.conn.snd_nxt = c.snd_nxt /\ r.segs = S
  BY <1>4, WithIs
<1> HIDE DEF r
<1>7. /\ r.conn.state = "SynSent" /\ r.conn.snd_una = Isn /\ r.conn.snd_nxt = Isn
      /\ r.conn.rcv_nxt = 0 /\ r.conn.tx = <<>> /\ r.conn.rx = <<>>
  BY <1>4, <1>6 DEF Same
<1>8. Handled(r)
  BY <1>1 DEF r
<1> QED  BY <1>1, <1>2, <1>5, <1>6, <1>7, <1>8, SynStep

\* tcp_input: a reset, the answer to the SYN, or a segment.
LEMMA InputStep == ASSUME TcpInv, NEW m \in FromPeer(peer), tcp_input(m) PROVE TcpInv'
<1> USE DEF TcpInv
<1>1. t.state \in Alive /\ UNCHANGED <<accepted, got, sawEof, peer, load>>
  BY DEF tcp_input
<1>2. Unopened(t) \/ Opened(t, accepted, got, peer)
  BY <1>1 DEF Alive
<1>3. CASE "RST" \in m.flags
  <2> DEFINE c == [t EXCEPT !.state = "Error"]
             r == With(c, {})
  <2>1. Handled(r)
    BY <1>3 DEF tcp_input
  <2>2. /\ ConnTypes(c) /\ c.state = "Error" /\ c.tx = t.tx /\ c.rx = t.rx /\ c.rcv_nxt = t.rcv_nxt
        /\ c.snd_una = t.snd_una /\ c.snd_nxt = t.snd_nxt
    BY DEF ConnTypes, Alive
  <2> HIDE DEF c
  <2>3. r.conn = c /\ r.segs = {}
    BY <2>2, WithIs
  <2> HIDE DEF r
  <2>4. CASE Unopened(t)
    <3>1. t.state # "Free"
      BY <1>1 DEF Alive
    <3> QED  BY <1>1, <2>1, <2>2, <2>3, <2>4, <3>1, SynStep DEF Unopened
  <2>5. CASE Opened(t, accepted, got, peer)
    <3>1. Sender(c, accepted)
      BY <2>2, <2>5 DEF Opened, Sender
    <3>2. Receiver(c, got, peer)
      BY <2>2, <2>5 DEF Opened, Receiver, Rcvd
    <3>3. Opened(c, accepted, got, peer)
      BY <2>2, <3>1, <3>2 DEF Opened, Probe, Room
    <3> QED  BY <1>1, <2>1, <2>2, <2>3, <3>3, KernelStep
  <2> QED  BY <1>2, <2>4, <2>5
<1>4. CASE "RST" \notin m.flags /\ t.state = "SynSent"
  <2> DEFINE r == Handshake(m)
  <2>1. Handled(r)
    BY <1>4 DEF tcp_input
  <2>2. Says(m, peer, accepted)
    BY <1>4, PeerSays
  <2>3. Unopened(t)
    BY <1>2, <1>4 DEF Opened
  <2>4. \/ r.conn = t /\ r.segs = {}
        \/ /\ ConnTypes(r.conn) /\ Opened(r.conn, accepted, got, peer)
           /\ \A s \in r.segs : Piece(s, accepted)
    BY <1>4, <2>2, <2>3, HandshakeIs
  <2> HIDE DEF r
  <2>5. CASE r.conn = t /\ r.segs = {}
    BY <1>1, <1>4, <2>1, <2>3, <2>5, SynStep DEF Unopened
  <2>6. CASE /\ ConnTypes(r.conn) /\ Opened(r.conn, accepted, got, peer)
             /\ \A s \in r.segs : Piece(s, accepted)
    BY <1>1, <2>1, <2>6, KernelStep
  <2> QED  BY <2>4, <2>5, <2>6
<1>5. CASE "RST" \notin m.flags /\ t.state # "SynSent"
  <2> DEFINE r == Segment(m)
  <2>1. Handled(r)
    BY <1>5 DEF tcp_input
  <2>2. Says(m, peer, accepted)
    BY <1>5, PeerSays
  <2>3. CASE Opened(t, accepted, got, peer)
    <3>1. /\ ConnTypes(r.conn) /\ Opened(r.conn, accepted, got, peer)
          /\ \A s \in r.segs : Piece(s, accepted)
      BY <2>2, <2>3, SegmentIs DEF SegmentRight
    <3> HIDE DEF r
    <3> QED  BY <1>1, <2>1, <3>1, KernelStep
  <2>4. CASE Unopened(t)
    <3>1. t.state = "Error"
      BY <1>1, <1>5, <2>4 DEF Unopened, Alive
    <3>2. r.segs = {} /\ ConnTypes(r.conn) /\ Unopened(r.conn) /\ r.conn.state = "Error"
      BY <2>2, <2>4, <3>1, LateSegmentIs
    <3> HIDE DEF r
    <3> QED  BY <1>1, <2>1, <2>4, <3>2, SynStep DEF Unopened
  <2> QED  BY <1>2, <2>3, <2>4
<1> QED  BY <1>3, <1>4, <1>5

\* tcp_timers: give up, the SYN again, or everything from snd_una again.
LEMMA TimerStep == ASSUME TcpInv, tcp_timers PROVE TcpInv'
<1> USE DEF TcpInv
<1> DEFINE c == [t EXCEPT !.retries = @ + 1]
           e == [c EXCEPT !.state = "Error"]
           o == [c EXCEPT !.snd_nxt = c.snd_una]
           S == {tcp_segment(c, {"SYN"}, c.snd_una, <<>>)}
<1>1. t.state \in {"SynSent", "Established", "PeerClosed"} /\ UNCHANGED <<accepted, got, sawEof, peer, load>>
  BY DEF tcp_timers, Alive
<1>2. Unopened(t) \/ Opened(t, accepted, got, peer)
  BY <1>1
<1>3. \/ Handled(With(e, {}))
      \/ Handled(With(c, S))
      \/ Handled(tcp_output(o))
  <2>1. CASE c.retries > MAX_RETRIES
    BY <2>1 DEF tcp_timers
  <2>2. CASE ~(c.retries > MAX_RETRIES) /\ c.retries <= MAX_RETRIES /\ c.syn_pending
    BY <2>2 DEF tcp_timers
  <2>3. CASE ~(c.retries > MAX_RETRIES) /\ ~(c.retries <= MAX_RETRIES /\ c.syn_pending)
    BY <2>3 DEF tcp_timers
  <2> QED  BY <2>1, <2>2, <2>3
<1>4. /\ ConnTypes(c) /\ ConnTypes(e) /\ ConnTypes(o)
      /\ Same(t, c) /\ c.snd_nxt = t.snd_nxt /\ c.adv_wnd = t.adv_wnd
      /\ Same(t, o) /\ o.snd_nxt = t.snd_una /\ o.adv_wnd = t.adv_wnd
      /\ e.state = "Error" /\ e.tx = t.tx /\ e.rx = t.rx /\ e.rcv_nxt = t.rcv_nxt
      /\ e.snd_una = t.snd_una /\ e.snd_nxt = t.snd_nxt
  <2>1. t.retries + 1 \in Nat /\ "Error" \in Alive
    BY DEF ConnTypes, Alive
  <2>2. ConnTypes(c) /\ Same(t, c) /\ c.snd_nxt = t.snd_nxt /\ c.adv_wnd = t.adv_wnd
    BY <2>1 DEF ConnTypes, Same
  <2> HIDE DEF c
  <2>3. ConnTypes(e) /\ e.state = "Error" /\ e.tx = c.tx /\ e.rx = c.rx /\ e.rcv_nxt = c.rcv_nxt
        /\ e.snd_una = c.snd_una /\ e.snd_nxt = c.snd_nxt
    BY <2>1, <2>2 DEF ConnTypes
  <2>4. ConnTypes(o) /\ Same(c, o) /\ o.snd_nxt = c.snd_una /\ o.adv_wnd = c.adv_wnd
    BY <2>2 DEF ConnTypes, Same
  <2> QED  BY <2>2, <2>3, <2>4 DEF Same
<1>5. \A m \in S : m.flags = {"SYN"} /\ Piece(m, accepted)
  BY DEF tcp_segment, Piece
<1>6. W \in Nat /\ accepted \in Nat /\ accepted < W
  BY Limits
<1> HIDE DEF c, e, o, S
<1>7. CASE Handled(With(e, {}))
  <2>1. With(e, {}).conn = e /\ With(e, {}).segs = {}
    BY <1>4, WithIs
  <2> DEFINE r == With(e, {})
  <2>2. Handled(r) /\ r.conn = e /\ r.segs = {}
    BY <1>7, <2>1
  <2> HIDE DEF r
  <2>3. CASE Unopened(t)
    BY <1>1, <1>4, <2>2, <2>3, SynStep DEF Unopened
  <2>4. CASE Opened(t, accepted, got, peer)
    <3>1. Sender(e, accepted)
      BY <1>4, <2>4 DEF Opened, Sender
    <3>2. Receiver(e, got, peer)
      BY <1>4, <2>4 DEF Opened, Receiver, Rcvd
    <3>3. Opened(e, accepted, got, peer)
      BY <1>4, <3>1, <3>2 DEF Opened, Probe, Room
    <3> QED  BY <1>1, <1>4, <2>2, <3>3, KernelStep
  <2> QED  BY <1>2, <2>3, <2>4
<1>8. CASE Handled(With(c, S))
  <2> DEFINE r == With(c, S)
  <2>1. /\ r.segs = S /\ ConnTypes(r.conn) /\ Same(c, r.conn) /\ r.conn.snd_nxt = c.snd_nxt
        /\ RXCAP > 1 /\ (Room(c) \/ S # {}) => Room(r.conn)
    BY <1>4, WithIs
  <2>2. Handled(r)
    BY <1>8
  <2>3. S # {}
    BY DEF S
  <2> HIDE DEF r
  <2>4. CASE Unopened(t)
    <3>1. /\ r.conn.state = "SynSent" /\ r.conn.snd_una = Isn /\ r.conn.snd_nxt = Isn
          /\ r.conn.rcv_nxt = 0 /\ r.conn.tx = <<>> /\ r.conn.rx = <<>>
      BY <1>1, <1>4, <2>1, <2>4 DEF Unopened, Same
    <3> QED  BY <1>1, <1>5, <2>1, <2>2, <2>4, <3>1, SynStep
  <2>5. CASE Opened(t, accepted, got, peer)
    <3>1. Same(t, r.conn) /\ r.conn.snd_nxt = t.snd_nxt
      BY <1>4, <2>1 DEF Same
    <3>2. Sender(r.conn, accepted) /\ Probe(r.conn)
      BY <2>5, <3>1 DEF Opened, Sender, Probe, Same
    <3>3. Receiver(r.conn, got, peer)
      BY <2>5, <3>1 DEF Opened, Receiver, Rcvd, Same
    <3>4. Opened(r.conn, accepted, got, peer)
      BY <2>1, <2>3, <2>5, <3>1, <3>2, <3>3 DEF Opened, Same
    <3> QED  BY <1>1, <1>5, <2>1, <2>2, <3>4, KernelStep
  <2> QED  BY <1>2, <2>4, <2>5
<1>9. CASE Handled(tcp_output(o))
  <2> DEFINE r == tcp_output(o)
  <2>1. Handled(r)
    BY <1>9
  <2>2. CASE Unopened(t)
    <3>1. o.state = "SynSent"
      BY <1>1, <1>4, <2>2 DEF Same, Unopened
    <3>2. r = With(o, {})
      BY <3>1 DEF tcp_output
    <3>3. r.conn = o /\ r.segs = {}
      BY <1>4, <3>2, WithIs
    <3> HIDE DEF r
    <3>4. /\ o.snd_una = Isn /\ o.snd_nxt = Isn /\ o.rcv_nxt = 0 /\ o.tx = <<>> /\ o.rx = <<>>
      BY <1>1, <1>4, <2>2 DEF Unopened, Same
    <3> QED  BY <1>1, <1>4, <2>1, <2>2, <3>1, <3>3, <3>4, SynStep
  <2>3. CASE Opened(t, accepted, got, peer)
    <3>1. Sender(o, accepted)
      BY <1>4, <1>6, <2>3 DEF Opened, Sender, Same
    <3>2. /\ ConnTypes(r.conn) /\ Same(o, r.conn) /\ Sender(r.conn, accepted) /\ Probe(r.conn)
          /\ RXCAP > 1 /\ Room(o) => Room(r.conn)
          /\ \A m \in r.segs : Piece(m, accepted)
      BY <1>4, <1>6, <3>1, OutputIs
    <3> HIDE DEF r
    <3>3. Same(t, r.conn)
      BY <1>4, <3>2 DEF Same
    <3>4. Receiver(r.conn, got, peer)
      BY <2>3, <3>3 DEF Opened, Receiver, Rcvd, Same
    <3>5. RXCAP > 1 => Room(o)
      BY <1>4, <2>3 DEF Opened, Room, Same
    <3>6. Opened(r.conn, accepted, got, peer)
      BY <2>3, <3>2, <3>3, <3>4, <3>5 DEF Opened, Same
    <3> QED  BY <1>1, <2>1, <3>2, <3>6, KernelStep
  <2> QED  BY <1>2, <2>2, <2>3
<1> QED  BY <1>3, <1>7, <1>8, <1>9

\* A slot without a connection.
LEMMA NoConnectionIs ==
    /\ ConnTypes(NoConnection)
    /\ LET c == [NoConnection EXCEPT !.state = "Gone"] IN ConnTypes(c) /\ c.state = "Gone"
<1>1. ConnTypes(NoConnection)
  <2>1. <<>> \in Seq(Nat)
    OBVIOUS
  <2> QED  BY <2>1 DEF ConnTypes, NoConnection
<1>2. ASSUME NEW d, ConnTypes(d)
      PROVE  LET c == [d EXCEPT !.state = "Gone"] IN ConnTypes(c) /\ c.state = "Gone"
  BY <1>2 DEF ConnTypes
<1> QED  BY <1>1, <1>2

\* tcp_close.
LEMMA CloseStep == ASSUME TcpInv, tcp_close PROVE TcpInv'
<1> USE DEF TcpInv
<1> DEFINE c == [NoConnection EXCEPT !.state = "Gone"]
           S == CASE t.state \in {"Established", "PeerClosed"} ->
                       {tcp_segment(t, {"FIN", "ACK"}, t.snd_nxt, <<>>)}
                  [] t.state = "SynSent" -> {tcp_segment(t, {"RST"}, t.snd_nxt, <<>>)}
                  [] OTHER -> {}
           r == [conn |-> c, segs |-> S]
<1>1. t.state \in Alive /\ Handled(r) /\ UNCHANGED <<accepted, got, sawEof, peer, load>>
  BY DEF tcp_close
<1>2. ConnTypes(c) /\ c.state = "Gone"
  BY NoConnectionIs
<1>3. \A m \in S : Piece(m, accepted)
  <2>1. CASE t.state \in {"Established", "PeerClosed"}
    <3>1. t.snd_nxt \in 0 .. accepted /\ accepted \in Nat
      <4>1. Sender(t, accepted)
        BY <2>1 DEF Unopened, Opened
      <4>2. accepted \in Nat
        BY Limits
      <4> QED  BY <4>1, <4>2 DEF Sender
    <3>2. Piece(tcp_segment(t, {"FIN", "ACK"}, t.snd_nxt, <<>>), accepted)
      BY <3>1, AckIsPiece
    <3>3. S = {tcp_segment(t, {"FIN", "ACK"}, t.snd_nxt, <<>>)}
      BY <2>1
    <3> QED  BY <3>2, <3>3
  <2>2. CASE t.state = "SynSent"
    <3>1. S = {tcp_segment(t, {"RST"}, t.snd_nxt, <<>>)}
      BY <2>2
    <3> QED  BY <3>1 DEF Piece, tcp_segment
  <2>3. CASE t.state \notin {"SynSent", "Established", "PeerClosed"}
    <3>1. S = {}
      BY <2>3
    <3> QED  BY <3>1
  <2> QED  BY <2>1, <2>2, <2>3
<1>4. r.conn = c /\ r.segs = S
  OBVIOUS
<1> HIDE DEF r, c, S
<1> QED  BY <1>1, <1>2, <1>3, <1>4, KernelStep

\* tcp_send.
LEMMA SendStep == ASSUME TcpInv, tcp_send PROVE TcpInv'
<1> USE DEF TcpInv
<1>1. PICK n \in 1 .. MinOf(load[1] - accepted, TXCAP - Len(t.tx)) :
         /\ Handled(tcp_output([t EXCEPT !.tx = @ \o Bytes(accepted, n)]))
         /\ accepted' = accepted + n
  BY DEF tcp_send
<1> DEFINE b == accepted + n
           c == [t EXCEPT !.tx = @ \o Bytes(accepted, n)]
           r == tcp_output(c)
<1>2. t.state = "Established" /\ UNCHANGED <<got, sawEof, peer, load>>
  BY DEF tcp_send
<1>3. Opened(t, accepted, got, peer)
  BY <1>2 DEF Unopened
<1>4. /\ accepted \in Nat /\ n \in Nat /\ b \in Nat /\ b <= load[1] /\ accepted <= b
      /\ W \in Nat /\ b < W /\ b \in 0 .. load[1]
  <2>1. W \in Nat /\ accepted \in Nat /\ load[1] \in Nat /\ load[1] + 2 < W
    <3>1. load[1] \in Nat
      BY Sizes DEF Streams
    <3> QED  BY <3>1, Limits
  <2>2. Len(t.tx) \in Nat /\ TXCAP \in Nat
    BY TcpAssumption DEF TcpAssumption, ConnTypes
  <2>3. n \in Nat /\ n >= 1 /\ n <= load[1] - accepted
    BY <2>1, <2>2 DEF MinOf
  <2> QED  BY <2>1, <2>3
<1>5. t.tx = Bytes(t.snd_una, accepted - t.snd_una) /\ t.snd_una \in Nat /\ t.snd_nxt \in Nat
      /\ t.snd_una <= accepted /\ t.snd_una <= t.snd_nxt /\ t.snd_nxt <= accepted
  BY <1>3, <1>4 DEF Opened, Sender
<1>6. t.tx \o Bytes(accepted, n) = Bytes(t.snd_una, b - t.snd_una)
  <2> DEFINE u == t.snd_una
             k == accepted - u
  <2>1. k \in Nat /\ u \in Nat /\ u + k = accepted /\ k + n = b - u /\ t.tx = Bytes(u, k)
    BY <1>4, <1>5
  <2> HIDE DEF u, k
  <2>2. Bytes(u, k) \o Bytes(u + k, n) = Bytes(u, k + n)
    BY <2>1, <1>4, BytesJoin
  <2>3. t.tx \o Bytes(accepted, n) = Bytes(u, b - u)
    BY <2>1, <2>2
  <2> QED  BY <2>3 DEF u
<1>7. ConnTypes(c) /\ Sender(c, b) /\ c.state = t.state /\ c.rx = t.rx /\ c.rcv_nxt = t.rcv_nxt
      /\ c.adv_wnd = t.adv_wnd
  <2> DEFINE x == t.tx \o Bytes(accepted, n)
             k == b - t.snd_una
  <2>1. k \in Nat /\ x = Bytes(t.snd_una, k)
    <3>1. b \in Nat /\ b >= accepted /\ accepted \in Nat
      BY <1>4
    <3>2. t.snd_una \in Nat /\ t.snd_una <= accepted
      BY <1>5
    <3> QED  BY <3>1, <3>2, <1>6
  <2>2. x \in Seq(Nat)
    BY <2>1, <1>5, BytesType
  <2>3. c = [t EXCEPT !.tx = x]
    OBVIOUS
  <2> HIDE DEF x, k, c
  <2>4. ConnTypes(c) /\ c.state = t.state /\ c.rx = t.rx /\ c.rcv_nxt = t.rcv_nxt
        /\ c.adv_wnd = t.adv_wnd /\ c.tx = x /\ c.snd_una = t.snd_una /\ c.snd_nxt = t.snd_nxt
    BY <2>2, <2>3 DEF ConnTypes
  <2>5. Sender(c, b)
    <3>1. c.snd_una \in 0 .. b /\ c.snd_nxt \in c.snd_una .. b
      BY <2>4, <1>4, <1>5
    <3> QED  BY <3>1, <2>1, <2>4 DEF Sender, k
  <2> QED  BY <2>4, <2>5
<1> HIDE DEF b, c
<1>8. /\ ConnTypes(r.conn) /\ Same(c, r.conn) /\ Sender(r.conn, b) /\ Probe(r.conn)
      /\ RXCAP > 1 /\ Room(c) => Room(r.conn)
      /\ \A m \in r.segs : Piece(m, b)
  BY <1>4, <1>7, OutputIs
<1>9. \A m \in toPeer : Piece(m, b)
  BY <1>4, PieceLater
<1>10. Handled(r) /\ accepted' = b
  BY <1>1 DEF b, c
<1> HIDE DEF r
<1>11. t' = r.conn /\ \A m \in toPeer' : Piece(m, b)
  BY <1>8, <1>9, <1>10, SentIs
<1>12. Opened(r.conn, b, got, peer)
  <2>1. Receiver(r.conn, got, peer)
    BY <1>3, <1>7, <1>8 DEF Opened, Receiver, Rcvd, Same
  <2>2. RXCAP > 1 => Room(c)
    BY <1>3, <1>7 DEF Opened, Room
  <2> QED  BY <1>2, <1>7, <1>8, <2>1, <2>2 DEF Opened, Same
<1>13. PeerTypes' /\ got' = got /\ peer' = peer
  BY <1>2 DEF PeerTypes
<1>14. Streams'
  <2>1. load' = load /\ sawEof' = sawEof
    BY <1>2
  <2>2. Len(peer.rcv) <= accepted'
    <3>1. Len(peer.rcv) \in Nat /\ Len(peer.rcv) <= accepted
      BY Limits DEF Streams
    <3> QED  BY <3>1, <1>4, <1>10
  <2>3. accepted' \in 0 .. load'[1]
    BY <1>4, <1>10, <2>1
  <2> QED  BY <1>13, <2>1, <2>2, <2>3 DEF Streams
<1> QED  BY <1>8, <1>10, <1>11, <1>12, <1>13, <1>14

\* tcp_recv: bytes of the buffer, or the end.
LEMMA RecvStep == ASSUME TcpInv, tcp_recv PROVE TcpInv'
<1> USE DEF TcpInv
<1>1. t.state \in Alive /\ UNCHANGED <<accepted, peer, load>>
  BY DEF tcp_recv
<1>2. /\ got \in Seq(Nat) /\ Len(got) \in Nat /\ got = Bytes(0, Len(got))
      /\ t.rx \in Seq(Nat) /\ Len(t.rx) \in Nat /\ accepted \in Nat
  BY Limits DEF Streams, ConnTypes
<1>3. CASE \E n \in 1 .. Len(t.rx) :
             /\ Handled(Update([t EXCEPT !.rx = Drop(@, n)]))
             /\ got' = got \o SubSeq(t.rx, 1, n)
             /\ UNCHANGED sawEof
  <2>1. PICK n \in 1 .. Len(t.rx) :
             /\ Handled(Update([t EXCEPT !.rx = Drop(@, n)]))
             /\ got' = got \o SubSeq(t.rx, 1, n)
             /\ UNCHANGED sawEof
    BY <1>3
  <2> DEFINE c == [t EXCEPT !.rx = Drop(@, n)]
             r == Update(c)
             g == Len(got)
             k == Len(t.rx)
             S == {tcp_segment(c, {"ACK"}, c.snd_nxt, <<>>)}
  <2>2. g \in Nat /\ k \in Nat /\ n \in Nat /\ n >= 1 /\ n <= k /\ k - n \in Nat /\ g + n \in Nat
    BY <1>2
  <2>3. Opened(t, accepted, got, peer)
    <3>1. Len(t.rx) # 0
      BY <2>2
    <3>2. t.rx # <<>>
      BY <3>1
    <3> QED  BY <1>1, <3>2 DEF Unopened, Alive
  <2>4. t.rx = Bytes(g, k) /\ got = Bytes(0, g)
    BY <1>2, <2>3 DEF Opened, Receiver
  <2> HIDE DEF g, k
  <2>5. Drop(t.rx, n) = Bytes(g + n, k - n)
    <3>1. n \in 0 .. k
      BY <2>2
    <3>2. Drop(Bytes(g, k), n) = Bytes(g + n, k - n)
      BY <2>2, <3>1, BytesDrop
    <3> QED  BY <2>4, <3>2
  <2>6. SubSeq(t.rx, 1, n) = Bytes(g, n)
    <3>1. 1 \in 1 .. k + 1 /\ n \in 1 - 1 .. k
      BY <2>2
    <3>2. SubSeq(Bytes(g, k), 1, n) = Bytes(g + 1 - 1, n - 1 + 1)
      BY <2>2, <3>1, BytesPart
    <3>3. g + 1 - 1 = g /\ n - 1 + 1 = n
      BY <2>2
    <3> QED  BY <2>4, <3>2, <3>3
  <2>7. got' = Bytes(0, g + n)
    <3>1. Bytes(0, g) \o Bytes(0 + g, n) = Bytes(0, g + n)
      BY <2>2, BytesJoin
    <3>2. 0 + g = g
      BY <2>2
    <3> QED  BY <2>1, <2>4, <2>6, <3>1, <3>2
  <2>8. got' \in Seq(Nat) /\ Len(got') = g + n
    <3>1. Bytes(0, g + n) \in Seq(Nat) /\ Len(Bytes(0, g + n)) = g + n
      BY <2>2, BytesType
    <3> QED  BY <2>7, <3>1
  <2>9. /\ ConnTypes(c) /\ c.state = t.state /\ c.rcv_nxt = t.rcv_nxt /\ c.adv_wnd = t.adv_wnd
        /\ c.rx = Bytes(g + n, k - n) /\ c.tx = t.tx /\ c.snd_una = t.snd_una /\ c.snd_nxt = t.snd_nxt
    <3>1. Bytes(g + n, k - n) \in Seq(Nat)
      BY <2>2, BytesType
    <3>2. c = [t EXCEPT !.rx = Bytes(g + n, k - n)]
      BY <2>5
    <3> HIDE DEF c
    <3> DEFINE x == Bytes(g + n, k - n)
    <3> HIDE DEF x
    <3>3. x \in Seq(Nat) /\ c = [t EXCEPT !.rx = x]
      BY <3>1, <3>2 DEF x
    <3>4. /\ ConnTypes(c) /\ c.state = t.state /\ c.rcv_nxt = t.rcv_nxt /\ c.adv_wnd = t.adv_wnd
          /\ c.rx = x /\ c.tx = t.tx /\ c.snd_una = t.snd_una /\ c.snd_nxt = t.snd_nxt
      BY <3>3 DEF ConnTypes
    <3> QED  BY <3>4 DEF x
  <2>10. Handled(r)
    BY <2>1
  <2>u. r = IF c.state = "Established" /\ 4 * c.adv_wnd < RXCAP /\ 2 * Wnd(c) >= RXCAP
            THEN With(c, S) ELSE With(c, {})
    BY DEF Update
  <2>11. Len(c.rx) = k - n
    <3>1. Len(Bytes(g + n, k - n)) = k - n
      BY <2>2, BytesType
    <3> QED  BY <2>9, <3>1
  <2>12. \A m \in S : Piece(m, accepted)
    <3>1. c.snd_nxt \in 0 .. accepted
      BY <2>3, <2>9, <1>2 DEF Opened, Sender
    <3>2. Piece(tcp_segment(c, {"ACK"}, c.snd_nxt, <<>>), accepted)
      BY <1>2, <3>1, AckIsPiece
    <3> QED  BY <3>2
  <2>13. S # {}
    OBVIOUS
  <2> HIDE DEF c, r, S
  <2>14. Receiver(c, got', peer)
    <3>1. Rcvd(c, got') = Rcvd(t, got)
      <4>1. Rcvd(t, got) = g + k
        BY DEF Rcvd, g, k
      <4>2. Rcvd(c, got') = (g + n) + (k - n)
        BY <2>8, <2>11 DEF Rcvd
      <4> QED  BY <4>1, <4>2, <2>2
    <3>2. Len(c.rx) <= RXCAP
      <4>1. k <= RXCAP /\ RXCAP \in Nat
        BY <2>3, TcpAssumption DEF TcpAssumption, Opened, Receiver, k
      <4> QED  BY <4>1, <2>2, <2>11
    <3>3. c.rx = Bytes(Len(got'), Len(c.rx))
      BY <2>8, <2>9, <2>11
    <3> QED  BY <2>3, <2>9, <3>1, <3>2, <3>3 DEF Opened, Receiver
  <2>15. /\ ConnTypes(r.conn) /\ Same(c, r.conn) /\ r.conn.snd_nxt = c.snd_nxt
         /\ (RXCAP > 1 => Room(r.conn)) /\ \A m \in r.segs : Piece(m, accepted)
    <3>1. CASE r = With(c, S)
      <4>1. /\ r.segs = S /\ ConnTypes(r.conn) /\ Same(c, r.conn) /\ r.conn.snd_nxt = c.snd_nxt
            /\ (RXCAP > 1 => Room(r.conn))
        BY <2>9, <2>13, <3>1, WithIs
      <4> QED  BY <4>1, <2>12
    <3>2. CASE r = With(c, {}) /\ ~(c.state = "Established" /\ 4 * c.adv_wnd < RXCAP /\ 2 * Wnd(c) >= RXCAP)
      <4>1. r.conn = c /\ r.segs = {} /\ Same(c, r.conn)
        BY <2>9, <3>2, WithIs
      <4>2. RXCAP > 1 => Room(c)
        <5> SUFFICES ASSUME RXCAP > 1, c.state = "Established", c.rx = <<>>
                     PROVE  4 * c.adv_wnd >= RXCAP
          BY DEF Room
        <5>1. RXCAP \in Nat /\ c.adv_wnd \in Int
          BY <2>9, TcpAssumption DEF TcpAssumption, ConnTypes
        <5>2. Wnd(c) = RXCAP - 1
          <6>1. Len(c.rx) = 0
            OBVIOUS
          <6> QED  BY <5>1, <6>1 DEF Wnd, MinOf
        <5>3. 2 * Wnd(c) >= RXCAP
          BY <5>1, <5>2
        <5> QED  BY <3>2, <5>1, <5>3
      <4> QED  BY <2>9, <4>1, <4>2
    <3> QED  BY <2>u, <3>1, <3>2
  <2>16. Opened(r.conn, accepted, got', peer)
    <3>1. Sender(r.conn, accepted) /\ Probe(r.conn)
      BY <2>3, <2>9, <2>15 DEF Opened, Sender, Probe, Same
    <3>2. Receiver(r.conn, got', peer)
      BY <2>14, <2>15 DEF Receiver, Rcvd, Same
    <3> QED  BY <2>3, <2>9, <2>15, <3>1, <3>2 DEF Opened, Same
  <2>17. t' = r.conn /\ \A m \in toPeer' : Piece(m, accepted)
    BY <2>10, <2>15, SentIs
  <2>18. PeerTypes' /\ accepted' = accepted /\ peer' = peer /\ load' = load /\ sawEof' = sawEof
    BY <1>1, <2>1 DEF PeerTypes
  <2>19. Streams'
    <3>1. Len(got') <= peer.wrote
      <4>1. g + k <= peer.wrote /\ peer.wrote \in Nat
        BY <2>3, Limits DEF Opened, Receiver, Rcvd, g, k
      <4> QED  BY <4>1, <2>2, <2>8
    <3>2. got' = Bytes(0, Len(got'))
      BY <2>7, <2>8
    <3>3. ~sawEof
      <4>1. g + k <= peer.wrote /\ g < g + k
        BY <2>2, <2>3 DEF Opened, Receiver, Rcvd, g, k
      <4>2. peer.wrote \in Nat
        BY Limits
      <4>3. g # peer.wrote
        BY <4>1, <4>2, <2>2
      <4> QED  BY <4>3 DEF Streams, g
    <3> QED  BY <2>8, <2>18, <3>1, <3>2, <3>3 DEF Streams
  <2> QED  BY <2>15, <2>16, <2>17, <2>18, <2>19
<1>4. CASE /\ t.rx = <<>> /\ t.state = "PeerClosed"
           /\ sawEof' = TRUE
           /\ UNCHANGED <<t, toPeer, got>>
  <2>1. Opened(t, accepted, got, peer)
    BY <1>4 DEF Unopened
  <2>2. peer.fin /\ Rcvd(t, got) = peer.wrote
    BY <1>4, <2>1 DEF Opened, Receiver
  <2>3. Len(got) = peer.wrote
    <3>1. Len(t.rx) = 0
      BY <1>4
    <3> QED  BY <1>2, <2>2, <3>1 DEF Rcvd
  <2>4. /\ t' = t /\ toPeer' = toPeer /\ got' = got /\ accepted' = accepted /\ peer' = peer
        /\ load' = load /\ sawEof' = TRUE
    BY <1>1, <1>4
  <2>5. Streams' /\ PeerTypes'
    BY <2>2, <2>3, <2>4 DEF Streams, PeerTypes
  <2> QED  BY <2>1, <2>4, <2>5
<1> QED  BY <1>3, <1>4 DEF tcp_recv

\* A step of the other end.
LEMMA PeerStep ==
  ASSUME TcpInv, UNCHANGED <<kernelVars, load>>, toPeer' \subseteq toPeer, PeerTypes', Streams',
         Unopened(t) => Unopened(t)',
         Opened(t, accepted, got, peer) => Receiver(t, got, peer')
  PROVE  TcpInv'
<1>1. t' = t /\ accepted' = accepted /\ got' = got
  BY DEF kernelVars
<1>2. ConnTypes(t') /\ \A m \in toPeer' : Piece(m, accepted')
  BY <1>1 DEF TcpInv
<1>3. Opened(t, accepted, got, peer) => Opened(t', accepted', got', peer')
  BY <1>1 DEF Opened
<1> QED  BY <1>1, <1>2, <1>3 DEF TcpInv

\* The windows, acknowledgments and fields of the peer that a segment leaves alone.
LEMMA PeerGetsIs ==
  ASSUME NEW m \in toPeer, NEW p, PeerGets(m, p)
  PROVE  peer' = p /\ toPeer' \subseteq toPeer /\ UNCHANGED <<kernelVars, load>>
BY DEF PeerGets

\* The receiver looks only at what the peer wrote and whether it closed.
LEMMA SamePeer ==
  ASSUME NEW p, p.wrote = peer.wrote, p.fin = peer.fin, Opened(t, accepted, got, peer)
  PROVE  Receiver(t, got, p)
BY DEF Opened, Receiver

\* The peer gets the SYN.
LEMMA PeerSynStep == ASSUME TcpInv, NEW m \in toPeer, PeerSyn(m) PROVE TcpInv'
<1> DEFINE p == [peer EXCEPT !.state = "SynReceived"]
<1>1. peer' = p /\ toPeer' \subseteq toPeer /\ UNCHANGED <<kernelVars, load>>
  BY PeerGetsIs DEF PeerSyn
<1>2. p \in [state : {"Listen", "SynReceived", "Established", "Reset"},
             rcv : Seq(Nat), eof : BOOLEAN, wrote : Nat, fin : BOOLEAN]
      /\ p.rcv = peer.rcv /\ p.wrote = peer.wrote /\ p.fin = peer.fin /\ p.state = "SynReceived"
  BY DEF TcpInv, PeerTypes
<1> HIDE DEF p
<1>3. PeerTypes' /\ Streams'
  BY <1>1, <1>2 DEF TcpInv, PeerTypes, Streams, kernelVars
<1>4. Unopened(t) => Unopened(t)'
  BY <1>1, <1>2 DEF Unopened, kernelVars
<1>5. Opened(t, accepted, got, peer) => Receiver(t, got, peer')
  BY <1>1, <1>2, SamePeer
<1> QED  BY <1>1, <1>3, <1>4, <1>5, PeerStep

\* The peer gets a reset.
LEMMA PeerAbortedStep == ASSUME TcpInv, NEW m \in toPeer, PeerAborted(m) PROVE TcpInv'
<1> DEFINE p == [peer EXCEPT !.state = "Reset"]
<1>1. peer' = p /\ toPeer' \subseteq toPeer /\ UNCHANGED <<kernelVars, load>> /\ m.flags = {"RST"}
  BY PeerGetsIs DEF PeerAborted
<1>2. p \in [state : {"Listen", "SynReceived", "Established", "Reset"},
             rcv : Seq(Nat), eof : BOOLEAN, wrote : Nat, fin : BOOLEAN]
      /\ p.rcv = peer.rcv /\ p.wrote = peer.wrote /\ p.fin = peer.fin
  BY DEF TcpInv, PeerTypes
<1> HIDE DEF p
<1>3. PeerTypes' /\ Streams'
  BY <1>1, <1>2 DEF TcpInv, PeerTypes, Streams, kernelVars
<1>4. ~Unopened(t)
  <2>1. m.flags # {"SYN"}
    BY <1>1
  <2> QED  BY <2>1 DEF Unopened
<1>5. Opened(t, accepted, got, peer) => Receiver(t, got, peer')
  BY <1>1, <1>2, SamePeer
<1> QED  BY <1>1, <1>3, <1>4, <1>5, PeerStep

\* How many bytes of a segment the peer has already.
LEMMA MissingIs ==
  ASSUME W \in Nat \ {0}, NEW k \in Nat, NEW q \in Nat, k < W, q < W
  PROVE  LET d == Minus(Plus(Isn, 1 + k), q)
         IN  d \in Nat /\ (k >= q => d = k - q) /\ (k < q => d = k - q + W)
<1>1. k \in 0 .. W - 1 /\ q \in 0 .. W - 1
  OBVIOUS
<1>2. Plus(Isn, 1 + k) = k
  BY <1>1, OurSeq
<1>3. Minus(k, q) = IF k >= q THEN k - q ELSE k - q + W
  BY <1>1, MinusIs
<1> QED  BY <1>2, <1>3

\* The bytes the peer keeps of a segment are the next of the stream.
LEMMA PeerReceiveIs ==
  ASSUME TcpInv, NEW m \in toPeer, PeerReceive(m)
  PROVE  \E n \in Nat, state \in {"SynReceived", "Established"}, eof \in BOOLEAN :
            /\ PeerGets(m, [peer EXCEPT !.state = state, !.rcv = Bytes(0, Len(peer.rcv) + n), !.eof = eof])
            /\ Len(peer.rcv) + n <= accepted
            /\ n > 0 => ~peer.eof
<1> DEFINE k == Len(peer.rcv)
           missing == Minus(Plus(Isn, 1 + k), m.seq)
           fresh == IF missing < Len(m.data) /\ ~peer.eof THEN Drop(m.data, missing) ELSE <<>>
           eof == peer.eof \/ ("FIN" \in m.flags /\ missing = 0)
<1>1. /\ "ACK" \in m.flags
      /\ \E n \in 0 .. Len(fresh) :
            PeerGets(m, [peer EXCEPT !.state = "Established", !.rcv = @ \o SubSeq(fresh, 1, n),
                                     !.eof = @ \/ ("FIN" \in m.flags /\ missing = 0)])
  BY DEF PeerReceive
<1>2. /\ W \in Nat /\ W > 4 /\ accepted \in Nat /\ accepted + 2 < W /\ k \in Nat /\ k <= accepted
      /\ peer.rcv = Bytes(0, k)
  BY Limits DEF TcpInv, Streams
<1>3. PICK q \in Nat : q = m.seq /\ q <= accepted /\ \E n \in 0 .. accepted - q : m.data = Bytes(q, n)
  <2>1. m.seq \in 0 .. accepted /\ \E n \in 0 .. accepted - m.seq : m.data = Bytes(m.seq, n)
    BY <1>1 DEF TcpInv, Piece
  <2> QED  BY <2>1, <1>2
<1>4. PICK j \in Nat : m.data = Bytes(q, j) /\ q + j <= accepted
  BY <1>2, <1>3
<1>5. missing \in Nat /\ (k >= q => missing = k - q) /\ (k < q => missing = k - q + W)
  <2>1. k < W /\ q < W
    BY <1>2, <1>3
  <2> HIDE DEF k
  <2>2. LET d == Minus(Plus(Isn, 1 + k), q)
        IN  d \in Nat /\ (k >= q => d = k - q) /\ (k < q => d = k - q + W)
    BY <1>2, <2>1, MissingIs
  <2> QED  BY <2>2, <1>3 DEF missing
<1>6. Len(m.data) = j
  <2>1. Len(Bytes(q, j)) = j
    BY <1>3, <1>4, BytesType
  <2> QED  BY <2>1, <1>4
<1>7. /\ fresh = IF missing < Len(m.data) /\ ~peer.eof THEN Drop(m.data, missing) ELSE <<>>
      /\ eof \in BOOLEAN
  OBVIOUS
<1>8. PICK n \in 0 .. Len(fresh) :
         PeerGets(m, [peer EXCEPT !.state = "Established", !.rcv = @ \o SubSeq(fresh, 1, n), !.eof = eof])
  <2>1. peer.eof \/ ("FIN" \in m.flags /\ missing = 0) <=> eof
    OBVIOUS
  <2> QED  BY <1>1
<1> HIDE DEF k, missing, fresh, eof
<1>9. \E f \in Nat : /\ fresh = Bytes(k, f) /\ Len(fresh) = f /\ k + f <= accepted
                     /\ f > 0 => ~peer.eof
  <2>1. CASE missing < j /\ ~peer.eof
    <3>1. k >= q /\ missing = k - q /\ missing \in Nat
      <4>1. ~(k < q)
        <5>1. k \in Nat /\ q \in Nat /\ j \in Nat /\ W \in Nat /\ accepted \in Nat
              /\ q + j <= accepted /\ accepted + 2 < W
          BY <1>2, <1>4
        <5>2. k < q => missing = k - q + W /\ missing < j
          BY <1>5, <2>1
        <5> QED  BY <5>1, <5>2
      <4> QED  BY <1>2, <1>5, <4>1
    <3> DEFINE f == j - missing
    <3>2. f \in Nat /\ q + missing = k /\ k + f <= accepted /\ missing \in 0 .. j
      <4>1. /\ accepted \in Nat /\ k \in Nat /\ q \in Nat /\ j \in Nat /\ q + j <= accepted
            /\ missing \in Nat /\ k >= q /\ missing = k - q /\ missing < j
        BY <1>2, <1>4, <2>1, <3>1
      <4>2. f \in Nat /\ q + missing = k /\ missing \in 0 .. j
        BY <4>1
      <4>3. k + f = q + j
        BY <4>1
      <4> QED  BY <4>1, <4>2, <4>3
    <3>3. Drop(Bytes(q, j), missing) = Bytes(q + missing, j - missing)
      BY <1>3, <3>2, BytesDrop
    <3> HIDE DEF f
    <3>4. fresh = Bytes(k, f)
      BY <1>4, <1>6, <1>7, <2>1, <3>2, <3>3 DEF f
    <3>5. Len(Bytes(k, f)) = f
      BY <1>2, <3>2, BytesType
    <3> QED  BY <2>1, <3>2, <3>4, <3>5
  <2>2. CASE ~(missing < j /\ ~peer.eof)
    <3>1. fresh = <<>> /\ Len(<<>>) = 0 /\ Bytes(k, 0) = <<>> /\ k + 0 <= accepted
      BY <1>2, <1>6, <1>7, <2>2, BytesEmpty
    <3>2. 0 \in Nat /\ ~(0 > 0) /\ Len(fresh) = 0 /\ fresh = Bytes(k, 0)
      BY <3>1
    <3> QED  BY <3>1, <3>2
  <2> QED  BY <2>1, <2>2
<1>10. PICK f \in Nat : /\ fresh = Bytes(k, f) /\ Len(fresh) = f /\ k + f <= accepted
                        /\ f > 0 => ~peer.eof
  BY <1>9
<1>11. n \in Nat /\ n <= f /\ k + n <= accepted /\ k + n \in Nat /\ (n > 0 => ~peer.eof)
  BY <1>2, <1>10
<1>12. SubSeq(fresh, 1, n) = Bytes(k, n)
  <2>1. 1 \in 1 .. f + 1 /\ n \in 1 - 1 .. f
    BY <1>11
  <2>2. SubSeq(Bytes(k, f), 1, n) = Bytes(k + 1 - 1, n - 1 + 1)
    BY <1>2, <2>1, BytesPart
  <2>3. k + 1 - 1 = k /\ n - 1 + 1 = n
    BY <1>2, <1>11
  <2> QED  BY <1>10, <2>2, <2>3
<1>13. peer.rcv \o SubSeq(fresh, 1, n) = Bytes(0, k + n)
  <2>1. k \in Nat /\ n \in Nat /\ 0 \in Nat /\ 0 + k = k
    BY <1>2, <1>11
  <2>2. Bytes(0, k) \o Bytes(0 + k, n) = Bytes(0, k + n)
    BY <2>1, BytesJoin
  <2> QED  BY <1>2, <1>12, <2>1, <2>2
<1>14. PeerGets(m, [peer EXCEPT !.state = "Established", !.rcv = Bytes(0, k + n), !.eof = eof])
  BY <1>8, <1>13
<1> QED  BY <1>7, <1>11, <1>14 DEF k

\* The peer gets data or an acknowledgment.
LEMMA PeerReceiveStep == ASSUME TcpInv, NEW m \in toPeer, PeerReceive(m) PROVE TcpInv'
<1>1. PICK n \in Nat, state \in {"SynReceived", "Established"}, eof \in BOOLEAN :
            /\ PeerGets(m, [peer EXCEPT !.state = state, !.rcv = Bytes(0, Len(peer.rcv) + n), !.eof = eof])
            /\ Len(peer.rcv) + n <= accepted
  BY PeerReceiveIs
<1> DEFINE k == Len(peer.rcv) + n
           x == Bytes(0, k)
           p == [peer EXCEPT !.state = state, !.rcv = x, !.eof = eof]
<1>2. k \in Nat /\ k <= accepted
  <2>1. Len(peer.rcv) \in Nat
    BY Limits DEF TcpInv
  <2> QED  BY <1>1, <2>1
<1>3. x \in Seq(Nat) /\ Len(x) = k
  BY <1>2, BytesType
<1>4. peer' = p /\ toPeer' \subseteq toPeer /\ UNCHANGED <<kernelVars, load>>
  BY <1>1, PeerGetsIs
<1> HIDE DEF k, x
<1>5. p \in [state : {"Listen", "SynReceived", "Established", "Reset"},
             rcv : Seq(Nat), eof : BOOLEAN, wrote : Nat, fin : BOOLEAN]
      /\ p.rcv = x /\ p.wrote = peer.wrote /\ p.fin = peer.fin
  BY <1>3 DEF TcpInv, PeerTypes
<1> HIDE DEF p
<1>6. PeerTypes' /\ Streams'
  <2>1. x = Bytes(0, Len(x)) /\ Len(x) <= accepted
    BY <1>2, <1>3 DEF x
  <2> QED  BY <1>4, <1>5, <2>1 DEF TcpInv, PeerTypes, Streams, kernelVars
<1>7. ~Unopened(t)
  <2>1. "ACK" \in m.flags /\ "ACK" \notin {"SYN"}
    BY DEF PeerReceive
  <2> QED  BY <2>1 DEF Unopened
<1>8. Opened(t, accepted, got, peer) => Receiver(t, got, peer')
  BY <1>4, <1>5, SamePeer
<1> QED  BY <1>4, <1>6, <1>7, <1>8, PeerStep

\* The program at the other end writes.
LEMMA PeerWriteStep == ASSUME TcpInv, PeerWrite PROVE TcpInv'
<1> DEFINE p == [peer EXCEPT !.wrote = @ + 1]
<1>1. /\ peer.state = "Established" /\ ~peer.fin /\ peer.wrote < load[2] /\ peer' = p
      /\ toPeer' = toPeer /\ UNCHANGED <<kernelVars, load>>
  BY DEF PeerWrite
<1>2. peer.wrote \in Nat /\ load[2] \in Nat /\ peer.wrote + 1 \in 0 .. load[2] /\ Len(got) \in Nat
      /\ Len(got) <= peer.wrote + 1
  <2>1. peer.wrote \in Nat /\ Len(got) \in Nat /\ Len(got) <= peer.wrote /\ load \in Loads
    BY Limits DEF TcpInv, Streams
  <2>2. load[2] \in Nat
    BY <2>1, Sizes
  <2> QED  BY <1>1, <2>1, <2>2
<1>3. p \in [state : {"Listen", "SynReceived", "Established", "Reset"},
             rcv : Seq(Nat), eof : BOOLEAN, wrote : Nat, fin : BOOLEAN]
      /\ p.rcv = peer.rcv /\ p.wrote = peer.wrote + 1 /\ ~p.fin
  <2> DEFINE w == peer.wrote + 1
  <2>1. w \in Nat /\ p = [peer EXCEPT !.wrote = w]
    BY <1>2
  <2> HIDE DEF p, w
  <2>2. p \in [state : {"Listen", "SynReceived", "Established", "Reset"},
               rcv : Seq(Nat), eof : BOOLEAN, wrote : Nat, fin : BOOLEAN]
        /\ p.rcv = peer.rcv /\ p.wrote = w /\ ~p.fin
    BY <1>1, <2>1 DEF TcpInv, PeerTypes
  <2> QED  BY <2>2 DEF w
<1> HIDE DEF p
<1>4. PeerTypes' /\ Streams'
  BY <1>1, <1>2, <1>3 DEF TcpInv, PeerTypes, Streams, kernelVars
<1>5. ~Unopened(t)
  BY <1>1 DEF Unopened
<1>6. Opened(t, accepted, got, peer) => Receiver(t, got, peer')
  <2> SUFFICES ASSUME Opened(t, accepted, got, peer) PROVE Receiver(t, got, p)
    BY <1>1
  <2>1. Receiver(t, got, peer) /\ Rcvd(t, got) \in Nat
    <3>1. Len(got) \in Nat /\ Len(t.rx) \in Nat
      BY <1>2 DEF TcpInv, ConnTypes
    <3> QED  BY <3>1 DEF Opened, Rcvd
  <2>2. Rcvd(t, got) <= p.wrote
    BY <1>2, <1>3, <2>1 DEF Receiver
  <2> QED  BY <1>1, <2>1, <2>2 DEF Receiver
<1> QED  BY <1>1, <1>4, <1>5, <1>6, PeerStep

\* The program at the other end closes.
LEMMA PeerCloseStep == ASSUME TcpInv, PeerClose PROVE TcpInv'
<1> DEFINE p == [peer EXCEPT !.fin = TRUE]
<1>1. /\ peer.state = "Established" /\ peer.wrote = load[2] /\ peer' = p
      /\ toPeer' = toPeer /\ UNCHANGED <<kernelVars, load>>
  BY DEF PeerClose
<1>2. p \in [state : {"Listen", "SynReceived", "Established", "Reset"},
             rcv : Seq(Nat), eof : BOOLEAN, wrote : Nat, fin : BOOLEAN]
      /\ p.rcv = peer.rcv /\ p.wrote = peer.wrote /\ p.fin
  BY DEF TcpInv, PeerTypes
<1> HIDE DEF p
<1>3. PeerTypes' /\ Streams'
  BY <1>1, <1>2 DEF TcpInv, PeerTypes, Streams, kernelVars
<1>4. ~Unopened(t)
  BY <1>1 DEF Unopened
<1>5. Opened(t, accepted, got, peer) => Receiver(t, got, peer')
  BY <1>1, <1>2 DEF Opened, Receiver
<1> QED  BY <1>1, <1>3, <1>4, <1>5, PeerStep

-----------------------------------------------------------------------------
(* The theorems.                                                           *)

\* The invariant holds at first.
LEMMA InitInv == ASSUME Init PROVE TcpInv
<1>1. ConnTypes(t)
  BY NoConnectionIs DEF Init
<1>2. load \in Loads /\ load[1] \in Nat /\ load[2] \in Nat
  <2>1. load \in Loads
    BY DEF Init
  <2> QED  BY <2>1, Sizes
<1>3. <<>> = Bytes(0, 0) /\ Len(<<>>) = 0 /\ <<>> \in Seq(Nat)
  BY BytesEmpty
<1>4. PeerTypes /\ Streams
  <2>1. /\ accepted = 0 /\ got = <<>> /\ sawEof = FALSE
        /\ peer = [state |-> "Listen", rcv |-> <<>>, eof |-> FALSE, wrote |-> 0, fin |-> FALSE]
    BY DEF Init
  <2>2. PeerTypes
    BY <1>3, <2>1 DEF PeerTypes
  <2>3. peer.rcv = <<>> /\ peer.wrote = 0 /\ peer.fin = FALSE
    BY <2>1
  <2>4. accepted \in 0 .. load[1] /\ peer.wrote \in 0 .. load[2]
    BY <1>2, <2>1, <2>3
  <2>5. sawEof \in BOOLEAN /\ ~sawEof
    BY <2>1
  <2>6. Len(peer.rcv) <= accepted /\ peer.rcv = Bytes(0, Len(peer.rcv))
    BY <1>3, <2>1, <2>3
  <2>7. got \in Seq(Nat) /\ Len(got) <= peer.wrote /\ got = Bytes(0, Len(got))
    BY <1>3, <2>1, <2>3
  <2> QED  BY <1>2, <2>2, <2>3, <2>4, <2>5, <2>6, <2>7 DEF Streams
<1>5. Unopened(t)
  BY DEF Init, Unopened, NoConnection
<1>6. \A m \in toPeer : Piece(m, accepted)
  BY DEF Init
<1> QED  BY <1>1, <1>4, <1>5, <1>6 DEF TcpInv

\* The invariant is kept, action by action.
LEMMA NextInv == ASSUME TcpInv, [Next]_vars PROVE TcpInv'
<1>1. CASE tcp_connect
  BY <1>1, ConnectStep
<1>2. CASE tcp_send
  BY <1>2, SendStep
<1>3. CASE tcp_recv
  BY <1>3, RecvStep
<1>4. CASE tcp_close
  BY <1>4, CloseStep
<1>5. CASE tcp_timers
  BY <1>5, TimerStep
<1>6. CASE \E m \in FromPeer(peer) : tcp_input(m)
  BY <1>6, InputStep
<1>7. CASE \E m \in toPeer : PeerSyn(m) \/ PeerReceive(m) \/ PeerAborted(m)
  BY <1>7, PeerSynStep, PeerReceiveStep, PeerAbortedStep
<1>8. CASE PeerWrite
  BY <1>8, PeerWriteStep
<1>9. CASE PeerClose
  BY <1>9, PeerCloseStep
<1>10. CASE UNCHANGED vars
  BY <1>10 DEF vars, kernelVars, TcpInv, PeerTypes, Streams, Unopened
<1> QED  BY <1>1, <1>2, <1>3, <1>4, <1>5, <1>6, <1>7, <1>8, <1>9, <1>10 DEF Next

\* The send buffer, the receive buffer and everything on the way to the peer
\* are pieces of the two streams at the places their sequence numbers say
\* (net.rs, struct Tcp), across every wrap of the numbers, loss and repetition.
THEOREM TcpInvariant == Spec => []TcpInv
<1>1. Init => TcpInv
  BY InitInv
<1>2. TcpInv /\ [Next]_vars => TcpInv'
  BY NextInv
<1> QED  BY <1>1, <1>2, PTL DEF Spec

\* Bytes accepted and not acknowledged keep something in flight, so that the
\* timer of tcp_timers runs for them, and a reader with nothing left to read
\* has announced a window (tcp_output, tcp_recv): for every size of buffer
\* above one byte (RXCAP is 65536).
THEOREM TcpNeverStuck == ASSUME RXCAP > 1 PROVE Spec => []NeverStuck
<1>1. TcpInv => NeverStuck
  <2> SUFFICES ASSUME TcpInv PROVE NeverStuck
    OBVIOUS
  <2>1. CASE Unopened(t)
    BY <2>1 DEF Unopened, NeverStuck
  <2>2. CASE Opened(t, accepted, got, peer)
    BY <2>2 DEF Opened, Probe, Room, NeverStuck
  <2>3. CASE t.state = "Gone"
    BY <2>3 DEF NeverStuck
  <2> QED  BY <2>1, <2>2, <2>3 DEF TcpInv
<1> QED  BY <1>1, TcpInvariant, PTL

-----------------------------------------------------------------------------
(* Both directions implement ByteStream.                                   *)

\* A shorter stream starts a longer one.
LEMMA BytesStart ==
  ASSUME NEW a \in Nat, NEW b \in Nat, a <= b
  PROVE  Outbound!Starts(Bytes(0, a), Bytes(0, b))
<1>1. Len(Bytes(0, a)) = a /\ Len(Bytes(0, b)) = b
  BY BytesType
<1>2. \A i \in 1 .. a : Bytes(0, a)[i] = 0 + i /\ Bytes(0, b)[i] = 0 + i
  <2>1. \A i \in 1 .. a : Bytes(0, a)[i] = 0 + i
    BY BytesType
  <2>2. \A i \in 1 .. b : Bytes(0, b)[i] = 0 + i
    BY BytesType
  <2>3. \A i \in 1 .. a : i \in 1 .. b
    OBVIOUS
  <2> QED  BY <2>1, <2>2, <2>3
<1>3. \A i \in 1 .. a : Bytes(0, a)[i] = Bytes(0, b)[i]
  BY <1>2
<1> QED  BY <1>1, <1>3 DEF Outbound!Starts

\* Streams of different lengths differ.
LEMMA BytesDiffer ==
  ASSUME NEW a \in Nat, NEW b \in Nat, a # b
  PROVE  Bytes(0, a) # Bytes(0, b)
<1>1. Len(Bytes(0, a)) = a /\ Len(Bytes(0, b)) = b
  BY BytesType
<1> QED  BY <1>1

\* tcp_send writes, an arrival at the peer delivers, and nothing else touches
\* either end.
LEMMA OutboundStep ==
  ASSUME TcpInv, [Next]_vars
  PROVE  [Outbound!Next]_(Outbound!streamVars)
<1> USE DEF Outbound!streamVars
<1>1. accepted \in Nat /\ Len(peer.rcv) \in Nat /\ Len(peer.rcv) <= accepted
      /\ peer.rcv = Bytes(0, Len(peer.rcv)) /\ load[1] \in Nat
  <2>1. load[1] \in Nat
    BY Sizes DEF TcpInv, Streams
  <2> QED  BY <2>1, Limits DEF TcpInv, Streams
<1>2. CASE tcp_send
  <2>1. PICK n \in 1 .. MinOf(load[1] - accepted, TXCAP - Len(t.tx)) : accepted' = accepted + n
    BY <1>2 DEF tcp_send
  <2>2. n \in Nat /\ n >= 1
    <3>1. MinOf(load[1] - accepted, TXCAP - Len(t.tx)) \in Int
      <4>1. Len(t.tx) \in Nat /\ TXCAP \in Nat
        BY TcpAssumption DEF TcpAssumption, TcpInv, ConnTypes
      <4> QED  BY <4>1, <1>1 DEF MinOf
    <3> QED  BY <3>1
  <2> DEFINE b == accepted + n
  <2>3. b \in Nat /\ accepted <= b /\ accepted # b
    BY <1>1, <2>2
  <2>4. accepted' = b
    BY <2>1
  <2> HIDE DEF b
  <2>5. Outbound!Starts(Bytes(0, accepted), Bytes(0, b)) /\ Bytes(0, accepted) # Bytes(0, b)
    BY <1>1, <2>3, BytesStart, BytesDiffer
  <2>6. peer' = peer
    BY <1>2 DEF tcp_send
  <2>7. Bytes(0, accepted)' = Bytes(0, b)
    BY <2>4
  <2>8. Outbound!Write
    BY <2>5, <2>6, <2>7 DEF Outbound!Write
  <2> QED  BY <2>8 DEF Outbound!Next
<1>3. CASE \E m \in toPeer : PeerReceive(m)
  <2>1. PICK m \in toPeer : PeerReceive(m)
    BY <1>3
  <2>2. PICK n \in Nat, state \in {"SynReceived", "Established"}, eof \in BOOLEAN :
            /\ PeerGets(m, [peer EXCEPT !.state = state, !.rcv = Bytes(0, Len(peer.rcv) + n), !.eof = eof])
            /\ Len(peer.rcv) + n <= accepted
    BY <2>1, PeerReceiveIs
  <2> DEFINE k == Len(peer.rcv)
             b == k + n
  <2>3. peer' = [peer EXCEPT !.state = state, !.rcv = Bytes(0, b), !.eof = eof] /\ accepted' = accepted
    BY <2>2 DEF PeerGets, kernelVars
  <2>4. k \in Nat /\ b \in Nat /\ k <= b /\ b <= accepted /\ peer.rcv = Bytes(0, k) /\ (n = 0 <=> k = b)
    BY <1>1, <2>2
  <2> HIDE DEF k, b
  <2>5. peer'.rcv = Bytes(0, b)
    BY <2>3 DEF TcpInv, PeerTypes
  <2>6. CASE k = b
    BY <2>3, <2>4, <2>5, <2>6
  <2>7. CASE k # b
    <3>1. Outbound!Starts(peer.rcv, peer'.rcv) /\ peer'.rcv # peer.rcv
      BY <2>4, <2>5, <2>7, BytesStart, BytesDiffer
    <3>2. Outbound!Starts(peer'.rcv, Bytes(0, accepted))
      BY <1>1, <2>4, <2>5, BytesStart
    <3>3. Outbound!Deliver
      BY <2>3, <3>1, <3>2 DEF Outbound!Deliver
    <3> QED  BY <3>3 DEF Outbound!Next
  <2> QED  BY <2>6, <2>7
<1>4. CASE UNCHANGED <<accepted, peer>>
  BY <1>4
<1>5. CASE PeerWrite \/ PeerClose \/ \E m \in toPeer : PeerSyn(m) \/ PeerAborted(m)
  <2>1. peer'.rcv = peer.rcv /\ accepted' = accepted
    BY <1>5 DEF PeerWrite, PeerClose, PeerSyn, PeerAborted, PeerGets, kernelVars, TcpInv, PeerTypes
  <2> QED  BY <2>1
<1>6. tcp_connect \/ tcp_recv \/ tcp_close \/ tcp_timers \/ (\E m \in FromPeer(peer) : tcp_input(m)) \/ UNCHANGED vars
      => UNCHANGED <<accepted, peer>>
  BY DEF tcp_connect, tcp_recv, tcp_close, tcp_timers, tcp_input, vars, kernelVars
<1> QED  BY <1>2, <1>3, <1>4, <1>5, <1>6 DEF Next

\* PeerWrite writes, tcp_recv delivers or reports the end, PeerClose shuts,
\* and nothing else touches either end.
LEMMA InboundStep ==
  ASSUME TcpInv, [Next]_vars
  PROVE  [Inbound!Next]_(Inbound!streamVars)
<1> USE DEF Inbound!streamVars
<1>1. peer.wrote \in Nat /\ Len(got) \in Nat /\ Len(got) <= peer.wrote /\ got = Bytes(0, Len(got))
  BY Limits DEF TcpInv, Streams
<1>s. \A a, b : Inbound!Starts(a, b) <=> Outbound!Starts(a, b)
  BY DEF Inbound!Starts, Outbound!Starts
<1>2. CASE PeerWrite
  <2> DEFINE b == peer.wrote + 1
  <2>1. ~peer.fin /\ peer' = [peer EXCEPT !.wrote = b] /\ UNCHANGED <<got, sawEof>>
    BY <1>2 DEF PeerWrite, kernelVars
  <2>2. b \in Nat /\ peer.wrote <= b /\ peer.wrote # b
    BY <1>1
  <2> HIDE DEF b
  <2>3. peer'.wrote = b /\ peer'.fin = peer.fin
    BY <2>1 DEF TcpInv, PeerTypes
  <2>4. Inbound!Starts(Bytes(0, peer.wrote), Bytes(0, b)) /\ Bytes(0, peer.wrote) # Bytes(0, b)
    BY <1>1, <1>s, <2>2, BytesStart, BytesDiffer
  <2>5. Bytes(0, peer.wrote)' = Bytes(0, b)
    BY <2>3
  <2>6. Inbound!Write
    BY <2>1, <2>3, <2>4, <2>5 DEF Inbound!Write
  <2> QED  BY <2>6 DEF Inbound!Next
<1>3. CASE PeerClose
  <2>1. peer' = [peer EXCEPT !.fin = TRUE] /\ UNCHANGED <<got, sawEof>>
    BY <1>3 DEF PeerClose, kernelVars
  <2>2. peer'.wrote = peer.wrote /\ peer'.fin
    BY <2>1 DEF TcpInv, PeerTypes
  <2>3. Inbound!Shut
    BY <2>1, <2>2 DEF Inbound!Shut
  <2> QED  BY <2>3 DEF Inbound!Next
<1>4. CASE tcp_recv
  <2>1. peer' = peer /\ t.state \in Alive
    BY <1>4 DEF tcp_recv
  <2>2. TcpInv'
    BY NextInv
  <2>3. CASE \E n \in 1 .. Len(t.rx) :
             /\ got' = got \o SubSeq(t.rx, 1, n)
             /\ UNCHANGED sawEof
    <3>1. PICK n \in 1 .. Len(t.rx) : got' = got \o SubSeq(t.rx, 1, n) /\ UNCHANGED sawEof
      BY <2>3
    <3>2. Len(t.rx) \in Nat /\ t.rx \in Seq(Nat) /\ t.rx # <<>> /\ got \in Seq(Nat)
      <4>1. t.rx \in Seq(Nat) /\ got \in Seq(Nat)
        BY DEF TcpInv, ConnTypes, Streams
      <4>2. Len(t.rx) \in Nat
        BY <4>1
      <4>3. Len(t.rx) # 0
        BY <4>2
      <4> QED  BY <4>1, <4>2, <4>3
    <3>3. Opened(t, accepted, got, peer)
      BY <2>1, <3>2 DEF TcpInv, Unopened, Alive
    <3>4. \A i \in 1 .. n : t.rx[i] \in Nat
      <4>1. \A i \in 1 .. Len(t.rx) : t.rx[i] \in Nat
        BY <3>2
      <4> QED  BY <3>2, <4>1
    <3>5. SubSeq(t.rx, 1, n) \in Seq(Nat) /\ Len(SubSeq(t.rx, 1, n)) = n
      <4>1. SubSeq(t.rx, 1, n) \in Seq(Nat) /\ Len(SubSeq(t.rx, 1, n)) = IF 1 <= n THEN n - 1 + 1 ELSE 0
        BY <3>4, SubSeqProperties
      <4> QED  BY <3>2, <4>1
    <3>6. Len(got') = Len(got) + n
      BY <3>1, <3>2, <3>5, ConcatProperties
    <3> DEFINE k == Len(got)
               b == k + n
    <3>7. k \in Nat /\ b \in Nat /\ k <= b /\ k # b /\ n \in Nat
      BY <1>1, <3>2
    <3>8. got' = Bytes(0, b) /\ got = Bytes(0, k)
      BY <1>1, <2>2, <3>6 DEF TcpInv, Streams
    <3>9. b <= peer.wrote
      BY <2>1, <2>2, <3>6 DEF TcpInv, Streams
    <3>10. ~sawEof
      <4>1. k # peer.wrote
        BY <1>1, <3>7, <3>9
      <4> QED  BY <4>1 DEF TcpInv, Streams
    <3> HIDE DEF k, b
    <3>11. Inbound!Starts(got, got') /\ got' # got
      BY <1>s, <3>7, <3>8, BytesStart, BytesDiffer
    <3>12. Inbound!Starts(got', Bytes(0, peer.wrote))
      BY <1>1, <1>s, <3>7, <3>8, <3>9, BytesStart
    <3>13. Inbound!Deliver
      BY <2>1, <3>1, <3>10, <3>11, <3>12 DEF Inbound!Deliver
    <3> QED  BY <3>13 DEF Inbound!Next
  <2>4. CASE sawEof' = TRUE /\ UNCHANGED <<t, toPeer, got>>
    <3>1. got = Bytes(0, peer.wrote) /\ peer.fin
      BY <1>1, <2>1, <2>2, <2>4 DEF TcpInv, Streams
    <3>2. Inbound!Eof
      BY <2>1, <2>4, <3>1 DEF Inbound!Eof
    <3> QED  BY <3>2 DEF Inbound!Next
  <2> QED  BY <1>4, <2>3, <2>4 DEF tcp_recv
<1>5. CASE \E m \in toPeer : PeerSyn(m) \/ PeerReceive(m) \/ PeerAborted(m)
  <2>1. PICK m \in toPeer : PeerSyn(m) \/ PeerReceive(m) \/ PeerAborted(m)
    BY <1>5
  <2>2. UNCHANGED <<got, sawEof>>
    BY <2>1 DEF PeerSyn, PeerReceive, PeerAborted, PeerGets, kernelVars
  <2>3. peer'.wrote = peer.wrote /\ peer'.fin = peer.fin
    <3>t. PeerTypes
      BY DEF TcpInv
    <3>1. CASE PeerSyn(m)
      BY <3>1, <3>t DEF PeerSyn, PeerGets, PeerTypes
    <3>2. CASE PeerAborted(m)
      BY <3>2, <3>t DEF PeerAborted, PeerGets, PeerTypes
    <3>3. CASE PeerReceive(m)
      <4>1. PICK n \in Nat, state \in {"SynReceived", "Established"}, eof \in BOOLEAN :
               PeerGets(m, [peer EXCEPT !.state = state, !.rcv = Bytes(0, Len(peer.rcv) + n), !.eof = eof])
        BY <3>3, PeerReceiveIs
      <4> DEFINE x == Bytes(0, Len(peer.rcv) + n)
      <4> HIDE DEF x
      <4>2. peer' = [peer EXCEPT !.state = state, !.rcv = x, !.eof = eof]
        BY <4>1, PeerGetsIs DEF x
      <4> QED  BY <4>2, <3>t DEF PeerTypes
    <3> QED  BY <2>1, <3>1, <3>2, <3>3
  <2> QED  BY <2>2, <2>3
<1>6. tcp_connect \/ tcp_send \/ tcp_close \/ tcp_timers \/ (\E m \in FromPeer(peer) : tcp_input(m)) \/ UNCHANGED vars
      => UNCHANGED <<got, peer, sawEof>>
  BY DEF tcp_connect, tcp_send, tcp_close, tcp_timers, tcp_input, vars, kernelVars
<1> QED  BY <1>2, <1>3, <1>4, <1>5, <1>6 DEF Next

\* What the peer reads of the kernel's stream is what tcp_send took, in order
\* and once (net.rs, tcp_output and tcp_input), for every number of bytes the
\* sequence numbers can tell apart.
THEOREM TcpOutbound == Spec => OutboundStream
<1>1. Init => Outbound!Init
  <2>1. Bytes(0, 0) = <<>>
    BY BytesEmpty
  <2> QED  BY <2>1 DEF Init, Outbound!Init
<1>2. TcpInv /\ [Next]_vars => [Outbound!Next]_(Outbound!streamVars)
  BY OutboundStep
<1> QED  BY <1>1, <1>2, TcpInvariant, PTL DEF Spec, OutboundStream, Outbound!Spec

\* What tcp_recv hands out is what the peer wrote, in order and once, and 0
\* only after the last of it.
THEOREM TcpInbound == Spec => InboundStream
<1>1. Init => Inbound!Init
  <2>1. Bytes(0, 0) = <<>>
    BY BytesEmpty
  <2> QED  BY <2>1 DEF Init, Inbound!Init
<1>2. TcpInv /\ [Next]_vars => [Inbound!Next]_(Inbound!streamVars)
  BY InboundStep
<1> QED  BY <1>1, <1>2, TcpInvariant, PTL DEF Spec, InboundStream, Inbound!Spec

-----------------------------------------------------------------------------
(* The ring of datagrams.                                                  *)

\* A set of numbers that is not empty has a least one.
LEMMA LeastNumber ==
  ASSUME NEW T, T \subseteq Nat, T # {}
  PROVE  \E k \in T : \A j \in T : k <= j
<1>1. IsWellFoundedOn(OpToRel(<, Nat), Nat)
  BY NatLessThanWellFounded
<1>2. PICK k \in T : \A j \in T : ~(<<j, k>> \in OpToRel(<, Nat))
  BY <1>1, WFMin
<1>3. \A j \in T : ~(j < k)
  BY <1>2 DEF OpToRel
<1> QED  BY <1>3

\* Place of a slot in ring order, counted from the one the next datagram goes to.
RankFrom(next, i) == IF i >= next THEN i - next ELSE i - next + UDP_Q
Rank(i) == RankFrom(UDP_NEXT, i)

UdpTypes ==
    /\ udpq \in [Slots -> [used : BOOLEAN, dst_port : Ports \cup {CHOOSE p \in Ports : TRUE}, id : Nat]]
    /\ UDP_NEXT \in Slots /\ arrived \in Nat
    /\ taken \in [Ports -> Nat]

\* The datagrams still there are in the order they arrived in, counted from
\* UDP_NEXT, and newer than what their port has read.
UdpInv ==
    /\ UdpTypes
    /\ \A p \in Ports : taken[p] <= arrived
    /\ \A i \in Slots : udpq[i].used =>
          udpq[i].dst_port \in Ports /\ udpq[i].id <= arrived /\ udpq[i].id > taken[udpq[i].dst_port]
    /\ \A i, j \in Slots : udpq[i].used /\ udpq[j].used /\ Rank(i) < Rank(j) => udpq[i].id < udpq[j].id

\* The slots in ring order are all the slots, each once.
LEMMA RankIs ==
  ASSUME UDP_Q \in Nat \ {0}, NEW next \in Slots, NEW i \in Slots
  PROVE  /\ RankFrom(next, i) \in Slots
         /\ (next + RankFrom(next, i)) % UDP_Q = i
         /\ RankFrom(next, (next + i) % UDP_Q) = i /\ (next + i) % UDP_Q \in Slots
         /\ \A j \in Slots : RankFrom(next, i) = RankFrom(next, j) => i = j
<1> USE DEF Slots, RankFrom
<1>1. next \in Nat /\ i \in Nat /\ next < UDP_Q /\ i < UDP_Q
  OBVIOUS
<1>2. (next + RankFrom(next, i)) % UDP_Q = i
  <2>1. CASE i >= next
    <3>1. next + RankFrom(next, i) = i /\ i \in 0 .. UDP_Q - 1
      BY <1>1, <2>1
    <3> QED  BY <3>1, ModSmall
  <2>2. CASE i < next
    <3>1. next + RankFrom(next, i) = i + UDP_Q
      BY <1>1, <2>2
    <3>2. i + UDP_Q \in UDP_Q .. 2 * UDP_Q - 1 /\ (i + UDP_Q) - UDP_Q = i
      BY <1>1
    <3>3. (i + UDP_Q) % UDP_Q = (i + UDP_Q) - UDP_Q
      BY <3>2, ModBig
    <3> QED  BY <3>1, <3>2, <3>3
  <2> QED  BY <1>1, <2>1, <2>2
<1>3. RankFrom(next, (next + i) % UDP_Q) = i /\ (next + i) % UDP_Q \in Slots
  <2>1. CASE next + i < UDP_Q
    <3>1. next + i \in 0 .. UDP_Q - 1
      BY <1>1, <2>1
    <3>2. (next + i) % UDP_Q = next + i
      BY <3>1, ModSmall
    <3> QED  BY <1>1, <2>1, <3>2
  <2>2. CASE next + i >= UDP_Q
    <3>1. next + i \in UDP_Q .. 2 * UDP_Q - 1
      BY <1>1, <2>2
    <3>2. (next + i) % UDP_Q = next + i - UDP_Q
      BY <3>1, ModBig
    <3>3. next + i - UDP_Q < next /\ next + i - UDP_Q \in Nat
      BY <1>1, <2>2
    <3> QED  BY <1>1, <3>2, <3>3
  <2> QED  BY <1>1, <2>1, <2>2
<1> QED  BY <1>1, <1>2, <1>3

\* The slot after the last one is the first.
LEMMA NextSlot ==
  ASSUME UDP_Q \in Nat \ {0}, NEW next \in Slots
  PROVE  LET n == (next + 1) % UDP_Q
         IN  /\ n \in Slots
             /\ RankFrom(n, next) = UDP_Q - 1
             /\ \A i \in Slots \ {next} : RankFrom(n, i) = RankFrom(next, i) - 1 /\ RankFrom(n, i) < UDP_Q - 1
<1> USE DEF Slots, RankFrom
<1>1. next \in Nat /\ next < UDP_Q
  OBVIOUS
<1>2. CASE next + 1 < UDP_Q
  <2>1. next + 1 \in 0 .. UDP_Q - 1
    BY <1>1, <1>2
  <2>2. (next + 1) % UDP_Q = next + 1
    BY <2>1, ModSmall
  <2> QED  BY <1>1, <1>2, <2>2
<1>3. CASE next + 1 = UDP_Q
  <2>1. next + 1 \in UDP_Q .. 2 * UDP_Q - 1
    BY <1>1, <1>3
  <2>2. (next + 1) % UDP_Q = next + 1 - UDP_Q
    BY <2>1, ModBig
  <2>3. (next + 1) % UDP_Q = 0
    BY <1>1, <1>3, <2>2
  <2> QED  BY <1>1, <1>3, <2>3
<1> QED  BY <1>1, <1>2, <1>3

\* The search of udp_recv finds the first live datagram in ring order.
LEMMA FirstLiveIs ==
  ASSUME UdpTypes, NEW p, \E i \in Slots : Live(i, p)
  PROVE  /\ FirstLive(p) \in Slots /\ Live(FirstLive(p), p)
         /\ \A j \in Slots : Live(j, p) => j = FirstLive(p) \/ Rank(FirstLive(p)) < Rank(j)
<1> DEFINE at(k) == (UDP_NEXT + k) % UDP_Q
           T == {k \in Slots : Live(at(k), p)}
           First(k) == Live(at(k), p) /\ \A j \in 0 .. k - 1 : ~Live(at(j), p)
<1>1. UDP_Q \in Nat \ {0} /\ UDP_NEXT \in Slots
  BY UdpAssumption DEF UdpAssumption, UdpTypes
<1>2. \A i \in Slots : /\ Rank(i) \in Slots /\ at(Rank(i)) = i
                       /\ Rank(at(i)) = i /\ at(i) \in Slots
                       /\ \A j \in Slots : Rank(i) = Rank(j) => i = j
  BY <1>1, RankIs DEF Rank
<1>3. FirstLive(p) = at(CHOOSE k \in Slots : First(k))
  BY DEF FirstLive
<1> HIDE DEF at
<1>4. T # {} /\ T \subseteq Nat
  <2>1. PICK i \in Slots : Live(i, p)
    OBVIOUS
  <2>2. Rank(i) \in T
    BY <1>2, <2>1
  <2> QED  BY <2>2, <1>1 DEF Slots
<1>5. PICK k \in T : \A j \in T : k <= j
  BY <1>4, LeastNumber
<1>6. First(k)
  <2>1. Live(at(k), p)
    BY <1>5
  <2>2. ASSUME NEW j \in 0 .. k - 1, Live(at(j), p) PROVE FALSE
    <3>1. j \in Slots /\ j < k
      BY <1>1, <1>4, <1>5 DEF Slots
    <3>2. j \in T /\ ~(k <= j)
      BY <2>2, <3>1, <1>4, <1>5
    <3> QED  BY <3>2, <1>5
  <2> QED  BY <2>1, <2>2
<1> DEFINE c == CHOOSE x \in Slots : First(x)
<1>7. c \in Slots /\ First(c)
  BY <1>5, <1>6
<1> HIDE DEF c
<1>8. FirstLive(p) = at(c)
  BY <1>3 DEF c
<1>9. Rank(at(c)) = c /\ at(c) \in Slots
  BY <1>2, <1>7
<1>10. ASSUME NEW j \in Slots, Live(j, p) PROVE j = at(c) \/ c < Rank(j)
  <2>1. Rank(j) \in Slots /\ at(Rank(j)) = j
    BY <1>2
  <2>2. ~(Rank(j) \in 0 .. c - 1)
    BY <1>7, <1>10, <2>1
  <2>3. Rank(j) >= c
    BY <1>1, <1>7, <2>1, <2>2 DEF Slots
  <2>4. CASE Rank(j) = c
    BY <2>1, <2>4
  <2>5. CASE Rank(j) > c
    BY <2>5
  <2> QED  BY <1>1, <1>7, <2>1, <2>3, <2>4, <2>5 DEF Slots
<1> QED  BY <1>7, <1>8, <1>9, <1>10

\* A datagram arrives: it is the newest, and takes the place of the oldest.
LEMMA UdpInputStep == ASSUME UdpInv, NEW p \in Ports, udp_input(p) PROVE UdpInv'
<1> DEFINE r == [used |-> TRUE, dst_port |-> p, id |-> arrived + 1]
<1>1. /\ udpq' = [udpq EXCEPT ![UDP_NEXT] = r] /\ UDP_NEXT' = (UDP_NEXT + 1) % UDP_Q
      /\ arrived' = arrived + 1 /\ taken' = taken
  BY DEF udp_input
<1>2. /\ UDP_Q \in Nat \ {0} /\ UDP_NEXT \in Slots /\ arrived \in Nat /\ taken \in [Ports -> Nat]
      /\ arrived + 1 \in Nat
  BY UdpAssumption DEF UdpAssumption, UdpInv, UdpTypes
<1>3. /\ UDP_NEXT' \in Slots /\ Rank(UDP_NEXT)' = Rank(UDP_NEXT)'
      /\ RankFrom(UDP_NEXT', UDP_NEXT) = UDP_Q - 1
      /\ \A i \in Slots \ {UDP_NEXT} : /\ RankFrom(UDP_NEXT', i) = Rank(i) - 1
                                        /\ RankFrom(UDP_NEXT', i) < UDP_Q - 1
  BY <1>1, <1>2, NextSlot DEF Rank
<1>4. r \in [used : BOOLEAN, dst_port : Ports \cup {CHOOSE x \in Ports : TRUE}, id : Nat]
      /\ r.used /\ r.dst_port = p /\ r.id = arrived + 1
  BY <1>2
<1> HIDE DEF r
<1>5. UdpTypes'
  BY <1>1, <1>2, <1>3, <1>4 DEF UdpInv, UdpTypes
<1>6. \A i \in Slots : udpq'[i] = IF i = UDP_NEXT THEN r ELSE udpq[i]
  BY <1>1 DEF UdpInv, UdpTypes
<1>7. \A q \in Ports : taken'[q] <= arrived'
  <2>1. \A q \in Ports : taken[q] \in Nat /\ taken[q] <= arrived
    BY <1>2 DEF UdpInv
  <2> QED  BY <2>1, <1>1, <1>2
<1>8. ASSUME NEW i \in Slots, udpq'[i].used
      PROVE  /\ udpq'[i].dst_port \in Ports /\ udpq'[i].id <= arrived'
             /\ udpq'[i].id > taken'[udpq'[i].dst_port]
  <2>1. CASE i = UDP_NEXT
    <3>1. taken[p] \in Nat /\ taken[p] <= arrived
      BY <1>2 DEF UdpInv
    <3> QED  BY <1>1, <1>2, <1>4, <1>6, <2>1, <3>1
  <2>2. CASE i # UDP_NEXT
    <3>1. udpq'[i] = udpq[i]
      BY <1>6, <2>2
    <3>2. udpq[i].id \in Nat
      BY DEF UdpInv, UdpTypes
    <3>3. udpq[i].dst_port \in Ports /\ udpq[i].id <= arrived /\ udpq[i].id > taken[udpq[i].dst_port]
      BY <1>8, <3>1 DEF UdpInv
    <3>4. udpq[i].id <= arrived + 1
      BY <1>2, <3>2, <3>3
    <3> QED  BY <1>1, <3>1, <3>3, <3>4
  <2> QED  BY <2>1, <2>2
<1>9. ASSUME NEW i \in Slots, NEW j \in Slots, udpq'[i].used, udpq'[j].used,
             RankFrom(UDP_NEXT', i) < RankFrom(UDP_NEXT', j)
      PROVE  udpq'[i].id < udpq'[j].id
  <2>1. CASE j = UDP_NEXT
    <3>1. i # UDP_NEXT
      BY <1>2, <1>3, <1>9, <2>1
    <3>2. udpq'[i] = udpq[i] /\ udpq[i].id \in Nat /\ udpq[i].used
      BY <1>6, <1>9, <3>1 DEF UdpInv, UdpTypes
    <3>3. udpq[i].id <= arrived
      BY <3>2 DEF UdpInv
    <3> QED  BY <1>2, <1>4, <1>6, <2>1, <3>2, <3>3
  <2>2. CASE j # UDP_NEXT /\ i = UDP_NEXT
    <3>1. RankFrom(UDP_NEXT', i) = UDP_Q - 1 /\ RankFrom(UDP_NEXT', j) < UDP_Q - 1
      BY <1>3, <2>2
    <3>2. UDP_Q - 1 \in Int /\ RankFrom(UDP_NEXT', j) \in Int
      BY <1>2, <1>3 DEF RankFrom, Slots
    <3> QED  BY <1>9, <3>1, <3>2
  <2>3. CASE j # UDP_NEXT /\ i # UDP_NEXT
    <3>1. udpq'[i] = udpq[i] /\ udpq'[j] = udpq[j]
      BY <1>6, <2>3
    <3>2. Rank(i) \in Int /\ Rank(j) \in Int
      BY <1>2 DEF Rank, RankFrom, Slots
    <3>3. RankFrom(UDP_NEXT', i) = Rank(i) - 1 /\ RankFrom(UDP_NEXT', j) = Rank(j) - 1
      BY <1>3, <2>3
    <3>4. Rank(i) < Rank(j)
      BY <1>9, <3>2, <3>3
    <3> QED  BY <1>9, <3>1, <3>4 DEF UdpInv
  <2> QED  BY <2>1, <2>2, <2>3
<1>10. \A i \in Slots : Rank(i)' = RankFrom(UDP_NEXT', i)
  BY DEF Rank
<1> QED  BY <1>5, <1>7, <1>8, <1>9, <1>10 DEF UdpInv, Slots

\* A read takes the oldest of its port.
LEMMA UdpRecvStep == ASSUME UdpInv, NEW p \in Ports, udp_recv(p) PROVE UdpInv'
<1> DEFINE f == FirstLive(p)
<1>1. /\ f \in Slots /\ Live(f, p)
      /\ \A j \in Slots : Live(j, p) => j = f \/ Rank(f) < Rank(j)
  BY FirstLiveIs DEF udp_recv, UdpInv
<1>2. /\ udpq' = [udpq EXCEPT ![f].used = FALSE] /\ taken' = [taken EXCEPT ![p] = udpq[f].id]
      /\ UDP_NEXT' = UDP_NEXT /\ arrived' = arrived
  BY DEF udp_recv
<1> HIDE DEF f
<1>3. udpq[f].used /\ udpq[f].dst_port = p /\ udpq[f].id \in Nat /\ udpq[f].id <= arrived
  BY <1>1 DEF Live, UdpInv, UdpTypes
<1>4. UdpTypes'
  BY <1>1, <1>2, <1>3 DEF UdpInv, UdpTypes
<1>5. \A i \in Slots : /\ udpq'[i].id = udpq[i].id /\ udpq'[i].dst_port = udpq[i].dst_port
                       /\ udpq'[i].used => udpq[i].used /\ i # f
  BY <1>1, <1>2 DEF UdpInv, UdpTypes
<1>6. \A q \in Ports : taken'[q] = IF q = p THEN udpq[f].id ELSE taken[q]
  BY <1>2 DEF UdpInv, UdpTypes
<1>7. \A q \in Ports : taken'[q] <= arrived'
  BY <1>2, <1>3, <1>6 DEF UdpInv
<1>8. ASSUME NEW i \in Slots, udpq'[i].used
      PROVE  /\ udpq'[i].dst_port \in Ports /\ udpq'[i].id <= arrived'
             /\ udpq'[i].id > taken'[udpq'[i].dst_port]
  <2>1. /\ udpq'[i].id = udpq[i].id /\ udpq'[i].dst_port = udpq[i].dst_port
        /\ udpq[i].used /\ i # f
    BY <1>5, <1>8
  <2>2. udpq[i].dst_port \in Ports /\ udpq[i].id <= arrived /\ udpq[i].id > taken[udpq[i].dst_port]
    BY <2>1 DEF UdpInv
  <2>3. CASE udpq[i].dst_port = p
    <3>1. Rank(f) < Rank(i)
      BY <1>1, <2>1, <2>3 DEF Live
    <3>2. udpq[f].id < udpq[i].id
      BY <1>1, <1>3, <2>1, <3>1 DEF UdpInv
    <3>3. udpq[i].id \in Nat
      BY DEF UdpInv, UdpTypes
    <3> QED  BY <1>2, <1>3, <1>6, <2>1, <2>2, <2>3, <3>2, <3>3
  <2>4. CASE udpq[i].dst_port # p
    BY <1>2, <1>6, <2>1, <2>2, <2>4
  <2> QED  BY <2>3, <2>4
<1>9. \A i \in Slots : Rank(i)' = Rank(i)
  BY <1>2 DEF Rank
<1>10. \A i, j \in Slots : udpq'[i].used /\ udpq'[j].used /\ Rank(i)' < Rank(j)' => udpq'[i].id < udpq'[j].id
  BY <1>5, <1>9 DEF UdpInv
<1> QED  BY <1>4, <1>7, <1>8, <1>10 DEF UdpInv, Slots

-----------------------------------------------------------------------------
(* The theorems.                                                           *)

\* The ring at first, and after any step of the network.
LEMMA UdpInvariant == NetSpec => []UdpInv
<1>1. NetInit => UdpInv
  <2> SUFFICES ASSUME udpInit PROVE UdpInv
    BY DEF NetInit
  <2>1. UDP_Q \in Nat \ {0}
    BY UdpAssumption DEF UdpAssumption
  <2>2. UdpTypes
    BY <2>1 DEF udpInit, UdpTypes, Slots
  <2>3. (\A i \in Slots : ~udpq[i].used) /\ \A p \in Ports : taken[p] <= arrived
    BY DEF udpInit
  <2> QED  BY <2>2, <2>3 DEF UdpInv
<1>2. UdpInv /\ [NetNext]_netVars => UdpInv'
  <2> SUFFICES ASSUME UdpInv, [NetNext]_netVars PROVE UdpInv'
    OBVIOUS
  <2>1. CASE udpNext
    BY <2>1, UdpInputStep, UdpRecvStep DEF udpNext
  <2>2. CASE UNCHANGED udpVars
    BY <2>2 DEF udpVars, UdpInv, UdpTypes, Rank
  <2> QED  BY <2>1, <2>2 DEF NetNext, netVars
<1> QED  BY <1>1, <1>2, PTL DEF NetSpec

\* A port reads its datagrams oldest first, whatever the ring overwrote in
\* between (net.rs, udp_recv: the search from UDP_NEXT), for a ring of any
\* size and any number of ports.
THEOREM UdpOldestFirst == NetSpec => []OldestFirst
<1>1. UdpInv => OldestFirst
  BY DEF UdpInv, OldestFirst
<1> QED  BY <1>1, UdpInvariant, PTL

\* A connection beside the datagrams is a connection: what was shown of it
\* holds in Net.
THEOREM NetKeepsTcp ==
  /\ NetSpec => OutboundStream
  /\ NetSpec => InboundStream
<1>1. NetInit => Init
  BY DEF NetInit
<1>2. [NetNext]_netVars => [Next]_vars
  BY DEF NetNext, netVars
<1>3. NetSpec => Spec
  BY <1>1, <1>2, PTL DEF NetSpec, Spec
<1> QED  BY <1>3, TcpOutbound, TcpInbound
=============================================================================
