------------------------------- MODULE Virtio -------------------------------
(***************************************************************************)
(* Split virtqueues over virtio-mmio (virtio.rs), and two of their users:  *)
(* the event queues of keyboard and tablet (input.rs), which the device    *)
(* fills while a CPU drains them, and the source of random bytes (rng.rs), *)
(* a request at a time. A step is one access that the other side can see.  *)
(***************************************************************************)
EXTENDS Integers, Sequences, FiniteSets

CONSTANTS
    QSIZE,       \* descriptors of a queue (64), all of them posted (NBUF)
    W,           \* indices of the rings count modulo W (2^16)
    Pids,        \* processes that read events and random bytes
    NoPid,       \* usize::MAX
    Buses,       \* what a behaviour is about: the slots of the bus, a sequence of
                 \* devices, the kinds of events and how many of them at most
    CHUNK,       \* bytes of one request for random bytes (256)
    Sizes,       \* lengths that fill is asked for
    MaxBytes     \* bound: random bytes that callers have asked for

KBD == "kbd"
TABLET == "tablet"
Inputs == {KBD, TABLET}
Ids == 0 .. QSIZE - 1
None == 0                 \* no slot of the bus

VARIABLES
    world,       \* one of Buses
    booted,      \* init of input and rng are done
    DEVS,        \* slot of the bus of keyboard and tablet
    RNGDEV,      \* slot of the bus of the source of random bytes
    q,           \* the two event queues and the queue of requests, "rng"
    bufs,        \* event in each buffer of keyboard and tablet
    made,        \* events the devices have written so far
    owed,        \* events a device has handed over and no process has yet
    FOCUS_PID,
    cpu,         \* who holds INPUT and how far its call is
    BUF,         \* the buffer of random bytes, as serial numbers
    drawn,       \* bytes the device has made
    rng,         \* who holds RNG and how far its call is
    filled       \* what fill has returned, each a sequence of bytes

input  == <<DEVS, bufs, made, owed, FOCUS_PID, cpu>>
random == <<RNGDEV, BUF, drawn, rng, filled>>
virtioVars == <<world, booted, q, input, random>>

(***************************************************************************)
(* The bus                                                                 *)
(***************************************************************************)
bus == world.bus

\* Slots that hold a device of this kind in its modern form, in order (probe,
\* probe_all).
Probe(id) == SelectSeq([i \in 1 .. Len(bus) |-> i],
                       LAMBDA i : bus[i].magic /\ bus[i].ver = 2 /\ bus[i].id = id)

\* The handshake: a device that lacks VERSION_1 or takes no features is FAILED,
\* one whose queue is shorter than QSIZE has none.
Usable(i) == bus[i].version_1 /\ bus[i].accepts /\ bus[i].max >= QSIZE

FirstTwo(s) == {s[i] : i \in {j \in 1 .. Len(s) : j <= 2}}

\* The last of the first two devices that are of this kind (has_abs).
InputOf(k) ==
    LET those == {i \in FirstTwo(Probe("input")) : Usable(i) /\ bus[i].abs = (k = TABLET)}
    IN IF those = {} THEN None ELSE CHOOSE i \in those : \A j \in those : j <= i

RngOf == LET those == Probe("rng")
         IN IF those # <<>> /\ Usable(those[1]) THEN those[1] ELSE None

(***************************************************************************)
(* The queue                                                               *)
(***************************************************************************)
NoQueue == [ring |-> [s \in Ids |-> 0], avail |-> 0,
            uring |-> [s \in Ids |-> [id |-> 0, len |-> 0]], used |-> 0,
            last |-> 0, seen |-> 0, busy |-> FALSE]
\* seen and busy are the device's: what it has taken from the ring, and that
\* it has written the buffer and not handed it over.

Inc(i) == (i + 1) % W

\* The two halves of post_recv and of request_sync: the entry of the ring,
\* and the index that makes it valid.
Put(k, id)   == q' = [q EXCEPT ![k].ring[q[k].avail % QSIZE] = id]
Publish(k)   == q' = [q EXCEPT ![k].avail = Inc(@)]

\* All buffers posted, in order (setup, setup_dev).
Posted == [NoQueue EXCEPT !.ring = [s \in Ids |-> s], !.avail = QSIZE % W]

HasUsed(k) == q[k].used # q[k].last
NextUsed(k) == q[k].uring[q[k].last % QSIZE]
Consume_All(k) == q' = [q EXCEPT ![k].last = q[k].used]
Consume(k) == q' = [q EXCEPT ![k].last = Inc(@)]

init ==
    /\ ~booted
    /\ booted' = TRUE
    /\ DEVS' = [k \in Inputs |-> InputOf(k)]
    /\ RNGDEV' = RngOf
    /\ q' = [k \in DOMAIN q |-> IF k \in Inputs /\ InputOf(k) # None THEN Posted ELSE NoQueue]
    /\ UNCHANGED <<world, bufs, made, owed, FOCUS_PID, cpu, BUF, drawn, rng, filled>>

(***************************************************************************)
(* The devices                                                             *)
(***************************************************************************)
Waiting(k) == q[k].seen # q[k].avail
Offered(k) == q[k].ring[q[k].seen % QSIZE]

\* An event is a key or a movement, "key", the end of a group, "syn" (EV_SYN),
\* or a short answer, "short".
Fill(k) ==
    /\ booted /\ DEVS[k] # None
    /\ Waiting(k) /\ ~q[k].busy /\ made < world.events
    /\ \E kind \in world.kinds :
          bufs' = [bufs EXCEPT ![k][Offered(k)] = [n |-> made + 1, kind |-> kind]]
    /\ made' = made + 1
    /\ q' = [q EXCEPT ![k].busy = TRUE]
    /\ UNCHANGED <<world, booted, DEVS, owed, FOCUS_PID, cpu, random>>

Return(k) ==
    LET ev == bufs[k][Offered(k)]
    IN /\ q[k].busy
       /\ q' = [q EXCEPT ![k].busy = FALSE, ![k].seen = Inc(@), ![k].used = Inc(@),
                         ![k].uring[q[k].used % QSIZE] =
                             [id |-> Offered(k), len |-> IF ev.kind = "short" THEN 4 ELSE 8]]
       /\ owed' = [owed EXCEPT ![k] = IF ev.kind = "key" THEN Append(@, ev) ELSE @]
       /\ UNCHANGED <<world, booted, DEVS, bufs, made, FOCUS_PID, cpu, random>>

\* The source of random bytes answers a request with some of them.
Draw ==
    /\ booted /\ RNGDEV # None /\ Waiting("rng")
    /\ \E n \in 1 .. rng.want :
          /\ BUF' = [i \in 1 .. CHUNK |-> IF i <= n THEN drawn + i ELSE BUF[i]]
          /\ drawn' = drawn + n
          /\ q' = [q EXCEPT !["rng"].seen = Inc(@), !["rng"].used = Inc(@),
                            !["rng"].uring[q["rng"].used % QSIZE] = [id |-> 0, len |-> n]]
    /\ UNCHANGED <<world, booted, input, RNGDEV, rng, filled>>

(***************************************************************************)
(* Reading events                                                          *)
(***************************************************************************)
Free == [pid |-> NoPid, pc |-> "free", dev |-> TABLET, id |-> 0, len |-> 0,
         ev |-> [n |-> 0, kind |-> "syn"]]

\* The tablet first.
poll_for(p) ==
    /\ booted /\ cpu.pc = "free"
    /\ cpu' = [Free EXCEPT !.pid = p, !.pc = "poll"]
    /\ UNCHANGED <<world, booted, q, DEVS, bufs, made, owed, FOCUS_PID, random>>

MayRead(p) == p = FOCUS_PID \/ FOCUS_PID = NoPid

\* Nothing in the tablet's queue: the keyboard's, for who has the focus.
Empty ==
    cpu' = IF cpu.dev = TABLET /\ MayRead(cpu.pid) THEN [cpu EXCEPT !.dev = KBD] ELSE Free

poll_used ==
    LET k == cpu.dev
    IN /\ cpu.pc = "poll"
       /\ IF DEVS[k] = None \/ ~HasUsed(k)
             THEN Empty /\ UNCHANGED q
             ELSE /\ Consume(k)
                  /\ cpu' = [cpu EXCEPT !.pc = "read", !.id = NextUsed(k).id, !.len = NextUsed(k).len]
       /\ UNCHANGED <<world, booted, DEVS, bufs, made, owed, FOCUS_PID, random>>

\* The event is copied before its buffer goes back.
ReadEvent ==
    /\ cpu.pc = "read"
    /\ cpu' = [cpu EXCEPT !.pc = "post", !.ev = bufs[cpu.dev][cpu.id]]
    /\ UNCHANGED <<world, booted, q, DEVS, bufs, made, owed, FOCUS_PID, random>>

post_recv ==
    /\ cpu.pc = "post"
    /\ Put(cpu.dev, cpu.id)
    /\ cpu' = [cpu EXCEPT !.pc = "publish"]
    /\ UNCHANGED <<world, booted, DEVS, bufs, made, owed, FOCUS_PID, random>>

\* Ends of groups and short answers are passed over.
Wanted == cpu.len >= 8 /\ cpu.ev.kind # "syn"

drain ==
    /\ cpu.pc = "publish"
    /\ Publish(cpu.dev)
    /\ IF Wanted
          THEN /\ owed' = [owed EXCEPT ![cpu.dev] = SubSeq(@, 2, Len(@))]
               /\ cpu' = Free
          ELSE owed' = owed /\ cpu' = [cpu EXCEPT !.pc = "poll"]
    /\ UNCHANGED <<world, booted, DEVS, bufs, made, FOCUS_PID, random>>

set_focus(p) ==
    /\ cpu.pc = "free"
    /\ FOCUS_PID' = p
    /\ UNCHANGED <<world, booted, q, DEVS, bufs, made, owed, cpu, random>>

\* A process ends.
forget(p) ==
    /\ cpu.pc = "free" /\ FOCUS_PID = p
    /\ FOCUS_PID' = NoPid
    /\ UNCHANGED <<world, booted, q, DEVS, bufs, made, owed, cpu, random>>

(***************************************************************************)
(* Random bytes                                                            *)
(***************************************************************************)
Idle == [pid |-> NoPid, pc |-> "free", out |-> <<>>, left |-> 0, want |-> 0]

Promised == drawn + rng.left
\* min(left, CHUNK)
Part(n) == IF n < CHUNK THEN n ELSE CHUNK

fill(p, n) ==
    /\ booted /\ rng.pc = "free" /\ Promised + n <= MaxBytes
    /\ rng' = [Idle EXCEPT !.pid = p, !.pc = "send", !.left = n, !.want = Part(n)]
    /\ UNCHANGED <<world, booted, q, input, RNGDEV, BUF, drawn, filled>>

\* The first half of a request; without the device, bytes of the counter.
Request ==
    /\ rng.pc = "send"
    /\ IF RNGDEV # None
          THEN /\ Put("rng", 0)
               /\ rng' = [rng EXCEPT !.pc = "notify"]
               /\ UNCHANGED <<BUF, drawn>>
          ELSE /\ BUF' = [i \in 1 .. CHUNK |-> IF i <= rng.want THEN drawn + i ELSE BUF[i]]
               /\ drawn' = drawn + rng.want
               /\ rng' = [rng EXCEPT !.pc = "copy"]
               /\ q' = q
    /\ UNCHANGED <<world, booted, input, RNGDEV, filled>>

Notify ==
    /\ rng.pc = "notify"
    /\ Publish("rng")
    /\ rng' = [rng EXCEPT !.pc = "spin"]
    /\ UNCHANGED <<world, booted, input, RNGDEV, BUF, drawn, filled>>

\* The used ring has moved: its entry says how many bytes came.
request_sync ==
    /\ rng.pc = "spin" /\ HasUsed("rng")
    /\ Consume("rng")
    /\ rng' = [rng EXCEPT !.pc = "copy", !.want = Part(NextUsed("rng").len)]
    /\ UNCHANGED <<world, booted, input, RNGDEV, BUF, drawn, filled>>

\* The bytes are copied out, and asked for again while some are missing.
Copy ==
    LET out  == rng.out \o SubSeq(BUF, 1, rng.want)
        left == rng.left - rng.want
    IN /\ rng.pc = "copy"
       /\ rng' = IF left = 0 THEN Idle
                 ELSE [rng EXCEPT !.pc = "send", !.out = out, !.left = left, !.want = Part(left)]
       /\ filled' = IF left = 0 THEN Append(filled, out) ELSE filled
       /\ UNCHANGED <<world, booted, q, input, RNGDEV, BUF, drawn>>

VirtioInit ==
    /\ world \in Buses
    /\ booted = FALSE
    /\ DEVS = [k \in Inputs |-> None] /\ RNGDEV = None
    /\ q = [k \in Inputs \cup {"rng"} |-> NoQueue]
    /\ bufs = [k \in Inputs |-> [i \in Ids |-> [n |-> 0, kind |-> "syn"]]]
    /\ made = 0 /\ owed = [k \in Inputs |-> <<>>]
    /\ FOCUS_PID = NoPid /\ cpu = Free
    /\ BUF = [i \in 1 .. CHUNK |-> 0] /\ drawn = 0
    /\ rng = Idle /\ filled = <<>>

VirtioNext ==
    \/ init
    \/ \E k \in Inputs : Fill(k) \/ Return(k)
    \/ Draw
    \/ \E p \in Pids : poll_for(p) \/ set_focus(p) \/ forget(p)
    \/ poll_used \/ ReadEvent \/ post_recv \/ drain
    \/ \E p \in Pids, n \in Sizes : fill(p, n)
    \/ Request \/ Notify \/ request_sync \/ Copy

\* No event is lost, read twice, out of order or half overwritten, however the
\* indices wrap: a process is given the oldest event that no process has yet,
\* and a queue that looks empty owes none. Keys go to who has the focus.
EventsRight ==
    \A k \in Inputs :
        IF cpu.dev = k /\ cpu.pc \in {"read", "post", "publish"}
        THEN /\ k = KBD => MayRead(cpu.pid)
             /\ cpu.pc # "read" /\ Wanted => owed[k] # <<>> /\ cpu.ev = owed[k][1]
        ELSE ~HasUsed(k) => owed[k] = <<>>

\* A buffer is with the device, on its way back, or with the CPU: no two at once.
BuffersApart ==
    \A k \in Inputs : DEVS[k] # None =>
        LET with(d) == {q[k].ring[(q[k].seen + i) % QSIZE] : i \in 0 .. d - 1}
            back(d) == {q[k].uring[(q[k].last + i) % QSIZE].id : i \in 0 .. d - 1}
            n == (q[k].avail - q[k].seen) % W
            m == (q[k].used - q[k].last) % W
            mine == IF cpu.dev = k /\ cpu.pc \in {"read", "post", "publish"} THEN {cpu.id} ELSE {}
        IN /\ n + m + Cardinality(mine) = QSIZE
           /\ with(n) \cup back(m) \cup mine = Ids

\* The tablet is the device that has axes, the keyboard the one that has none,
\* whatever their order on the bus; two devices never share a queue.
DevicesRight ==
    booted => \A k \in Inputs : DEVS[k] # None => bus[DEVS[k]].abs = (k = TABLET)

\* What fill returns is as long as was asked, and no byte of it was given to
\* anybody before: not the rest of an older answer, not a shorter answer's tail.
BytesFresh ==
    LET all == [i \in 1 .. Len(filled) |-> filled[i]]
    IN /\ \A i \in 1 .. Len(all) : all[i] # <<>> /\ 0 \notin {all[i][j] : j \in 1 .. Len(all[i])}
       /\ \A i, j \in 1 .. Len(all) : \A x \in 1 .. Len(all[i]), y \in 1 .. Len(all[j]) :
              all[i][x] = all[j][y] => i = j /\ x = y

VirtioRight == EventsRight /\ BuffersApart /\ DevicesRight /\ BytesFresh
=============================================================================
