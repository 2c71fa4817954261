------------------------------- MODULE Files --------------------------------
(***************************************************************************)
(* The table of descriptors of each process and the objects behind them    *)
(* (file.rs, unix.rs): pipes, event counters, epolls, texts of /proc,      *)
(* sockets before they are connected, listeners, local connections with    *)
(* descriptors on their way (SCM_RIGHTS), TCP sockets, devices and files.  *)
(*                                                                         *)
(* A call is one critical section of FS. What a call owes to sleepers goes *)
(* to `pending` (push_wake) and is fired when the call is over. poll,      *)
(* epoll_wait and the calls that block look under FS, note the keys that   *)
(* may tell them news, and sleep later, if none of these moved.            *)
(*                                                                         *)
(* What the bytes are is left out, and so are inodes (Ext2), shared memory *)
(* (Shm), segments (Tcp) and the locks of the wait protocol (IoWait).      *)
(***************************************************************************)
EXTENDS Integers, FiniteSets, Sequences, SequencesExt

CONSTANTS
    Threads,      \* threads that make calls
    Procs,        \* slots of leaders, one table each
    Leaders,      \* the possible functions from threads to their leaders
    First,        \* the process that is there at the start
    MaxFds,       \* MAX_FDS
    Console,      \* descriptors of DEFAULT_TABLE: 0..2 in the code
    MaxObjs,      \* length of each table of objects
    Names,        \* addresses of local sockets
    Ports,        \* ports of 127.0.0.1
    Handles,      \* TCP handles
    Cap,          \* PIPE_CAP and CAP: bytes of a queue
    ATTQ,         \* messages with descriptors in a queue
    MSGQ,         \* messages in a queue of packets
    BACKLOG,      \* connections that wait for accept
    EPOLL_MAX,    \* items of an epoll
    EventMax,     \* the largest count of an eventfd
    Sent,         \* lengths of sendmsg
    Programs      \* sets of calls: a behaviour makes those of one set

VARIABLES
    calls,     \* the calls of this behaviour
    leader,    \* thread -> leader
    live,      \* processes there are
    fds,       \* FDS
    refs,      \* references of each target of a descriptor
    obj,       \* PIPES, MEMS, EVENTS, EPOLLS, SOCKS, USOCKS, CONNS, LISTENERS
    tcp,       \* state of each TCP handle, as tcp_status tells it
    pending,   \* PENDING
    pc,        \* "run", "end" (call over, wakes owed), "look" (before io_wait), "asleep"
    mask,      \* keys the thread waits for
    moved,     \* one of these moved since the thread looked
    waits,     \* what it looked at and is still open: descriptors, targets, events
    slice      \* it sleeps for NET_SLICE_MS at most

tables == <<live, fds, refs, obj, tcp>>
thread == <<pending, pc, mask, moved, waits, slice>>
vars   == <<calls, leader, tables, thread>>

-----------------------------------------------------------------------------
(* Descriptors and objects. *)

FREE == [kind |-> "free", ino |-> 0, acc |-> "rw", nonblock |-> FALSE, cloexec |-> FALSE]
CONSOLE == [FREE EXCEPT !.kind = "console"]
File(kind, ino, nonblock, cloexec) ==
    [FREE EXCEPT !.kind = kind, !.ino = ino, !.nonblock = nonblock, !.cloexec = cloexec]

Index  == 1..MaxObjs
Single == {"pipeR", "pipeW", "mem", "event", "epoll", "sock", "usock", "listen"}

\* Targets whose references are counted. The two ends of connection c are
\* 2c and 2c + 1.
Counted == (Single \X Index) \cup ({"unix"} \X {2 * c + e : c \in Index, e \in 0..1})
Target(f) == <<f.kind, f.ino>>
Conn(f) == f.ino \div 2
End(f)  == f.ino % 2

Tables == {"pipe", "mem", "event", "epoll", "sock", "usock", "unix", "listen"}
NoObj  == [kind |-> "none"]

\* The targets that keep an object in its table.
Keeps(tab, i) ==
    CASE tab = "pipe" -> {<<"pipeR", i>>, <<"pipeW", i>>}
      [] tab = "unix" -> {<<"unix", 2 * i>>, <<"unix", 2 * i + 1>>}
      [] OTHER        -> {<<tab, i>>}

\* iter().position(|x| !x.used)
FreeIn(S, tab) == {i \in Index : S.obj[<<tab, i>>] = NoObj}
NewIn(S, tab)  == CHOOSE i \in FreeIn(S, tab) : \A j \in FreeIn(S, tab) : i <= j

\* The tables as one value, for the calls that change several: `keys` are the
\* keys pushed so far.
State == [fds |-> fds, refs |-> refs, obj |-> obj, tcp |-> tcp, keys |-> {}]

\* Wait keys: key_r and key_w of pipes, key_ev, key_l, SOCK_KEY, and key_r of
\* the ends of connections, named by their target.
KeyOf(f) == IF f.kind = "sock" THEN <<"sock", 0>> ELSE Target(f)
Other(f) == CASE f.kind = "pipeR" -> <<"pipeW", f.ino>>
              [] f.kind = "pipeW" -> <<"pipeR", f.ino>>
              [] f.kind = "unix"  -> <<"unix", 4 * Conn(f) + 1 - f.ino>>

push_wake(S, K) == [S EXCEPT !.keys = @ \cup K]

-----------------------------------------------------------------------------
(* References. *)

add_ref(S, f) == IF Target(f) \in Counted THEN [S EXCEPT !.refs[Target(f)] = @ + 1] ELSE S

NoQueue == [len |-> 0, msgs |-> <<>>, atts |-> <<>>, eof |-> FALSE]

\* The descriptors on their way in connection object k.
InFlight(k) == FlattenSeq([i \in 1..Len(k.q[0].atts) |-> k.q[0].atts[i].files])
            \o FlattenSeq([i \in 1..Len(k.q[1].atts) |-> k.q[1].atts[i].files])

RECURSIVE drop_ref(_, _)

\* Mutant: a connection that goes away forgets the descriptors on their way.
unix_gone_Forgets(S, c) == [S EXCEPT !.obj[<<"unix", c>>] = NoObj]

\* Neither end is referenced: the connection goes, then what was on its way.
unix_gone(S, c) ==
    FoldLeft(drop_ref, [S EXCEPT !.obj[<<"unix", c>>] = NoObj], InFlight(S.obj[<<"unix", c>>]))

unix_drop(S, f) ==
    LET T == IF S.refs[Target(f)] = 0 THEN push_wake(S, {Target(f), Other(f)}) ELSE S
    IN IF S.refs[Target(f)] + S.refs[Other(f)] = 0 THEN unix_gone(T, Conn(f)) ELSE T

\* Mutant: the end of the last writer (or reader) is told to nobody.
pipe_drop_Silent(S, f) ==
    IF S.refs[Target(f)] + S.refs[Other(f)] = 0
    THEN [S EXCEPT !.obj[<<"pipe", f.ino>>] = NoObj] ELSE S

pipe_drop(S, f) ==
    LET T == push_wake(S, {Other(f)})
    IN IF S.refs[Target(f)] + S.refs[Other(f)] = 0
       THEN [T EXCEPT !.obj[<<"pipe", f.ino>>] = NoObj] ELSE T

\* The last reference to a TCP socket closes its handle.
sock_drop(S, f) ==
    LET h == S.obj[Target(f)].tcp
    IN [S EXCEPT !.obj[Target(f)] = NoObj, !.tcp = [x \in DOMAIN @ |-> IF x = h THEN "free" ELSE @[x]]]

\* Connections that were never accepted lose the server's end.
listener_drop(S, f) ==
    LET waiting == S.obj[Target(f)].backlog
    IN FoldLeft(drop_ref, [S EXCEPT !.obj[Target(f)] = NoObj],
                [i \in 1..Len(waiting) |-> File("unix", 2 * waiting[i] + 1, FALSE, FALSE)])

drop_ref(S, f) ==
    IF Target(f) \notin Counted THEN S
    ELSE LET T == [S EXCEPT !.refs[Target(f)] = @ - 1]
             last == T.refs[Target(f)] = 0
         IN CASE f.kind \in {"pipeR", "pipeW"}   -> pipe_drop(T, f)
              [] f.kind = "unix"                 -> unix_drop(T, f)
              [] f.kind = "listen" /\ last       -> listener_drop(T, f)
              [] f.kind = "sock" /\ last         -> sock_drop(T, f)
              [] f.kind \in {"mem", "event", "epoll", "usock"} /\ last -> [T EXCEPT !.obj[Target(f)] = NoObj]
              [] OTHER -> T

-----------------------------------------------------------------------------
(* The table of a process. *)

Fds == 0..MaxFds - 1
DEFAULT_TABLE == [i \in Fds |-> IF i \in Console THEN CONSOLE ELSE FREE]

Slots(S, p, min) == {i \in Fds : i >= min /\ S.fds[p][i].kind = "free"}
Slot(S, p, min)  == CHOOSE i \in Slots(S, p, min) : \A j \in Slots(S, p, min) : i <= j
Put(S, p, i, f)  == [S EXCEPT !.fds[p][i] = f]

\* install(..).inspect_err(|_| drop_ref(f)): f holds a reference already.
install(S, p, f) ==
    IF Slots(S, p, 0) = {} THEN drop_ref(S, f) ELSE Put(S, p, Slot(S, p, 0), f)

\* An object of table `tab` for target f, with one reference.
New(S, tab, i, o, F) ==
    [S EXCEPT !.obj[<<tab, i>>] = o,
              !.refs = [x \in DOMAIN @ |-> IF x \in F THEN 1 ELSE @[x]]]

-----------------------------------------------------------------------------
(* The frame of a call: who may make one, and how it ends. *)

May(t, name) == name \in calls /\ pc[t] = "run" /\ leader[t] \in live
Fd(t, fd) == fds[leader[t]][fd]

\* The call is over and leaves the tables as S.
Done(t, S) ==
    /\ fds' = S.fds /\ refs' = S.refs /\ obj' = S.obj /\ tcp' = S.tcp
    /\ pending' = pending \cup S.keys
    /\ moved' = [u \in Threads |-> moved[u] \/ (pc[u] = "look" /\ mask[u] \cap S.keys # {})]
    /\ pc' = [pc EXCEPT ![t] = IF pending' = {} THEN "run" ELSE "end"]
    /\ waits' = [u \in Threads |-> {w \in waits[u] : Target(S.fds[leader[u]][w.fd]) = w.target}]
    /\ UNCHANGED <<calls, leader, live, mask, slice>>

\* The call can not go on: it looked at the items W, the keys K may tell news.
\* It may have taken note of how a connect went on (sock_progress).
Block(t, S, W, K, net) ==
    /\ obj' = S.obj
    /\ pc' = [pc EXCEPT ![t] = "look"]
    /\ mask' = [mask EXCEPT ![t] = K]
    /\ moved' = [moved EXCEPT ![t] = FALSE]
    /\ waits' = [waits EXCEPT ![t] = W]
    /\ slice' = [slice EXCEPT ![t] = net]
    /\ UNCHANGED <<calls, leader, live, fds, refs, tcp, pending>>

Item(t, fd, ev) == [fd |-> fd, target |-> Target(Fd(t, fd)), ev |-> ev]

\* would_block: EAGAIN on a non-blocking descriptor, where nothing changes.
would_block(t, S, fd, ev) ==
    /\ ~Fd(t, fd).nonblock
    /\ Block(t, S, {Item(t, fd, ev)}, {KeyOf(Fd(t, fd))}, Fd(t, fd).kind = "sock")

\* The threads go on as in `state`; who does not wait forgets what it waited for.
Resume(state) ==
    LET Keep(f, none) == [u \in Threads |-> IF state[u] \in {"look", "asleep"} THEN f[u] ELSE none]
    IN  pc' = state /\ mask' = Keep(mask, {}) /\ waits' = Keep(waits, {}) /\ slice' = Keep(slice, FALSE)

\* flush_wakes: who sleeps on a key that moved makes its call again.
Awake(K) == [u \in Threads |-> IF pc[u] = "asleep" /\ mask[u] \cap K # {} THEN "run" ELSE pc[u]]
flush_wakes(t) ==
    /\ pc[t] = "end"
    /\ Resume([Awake(pending) EXCEPT ![t] = "run"])
    /\ pending' = {}
    /\ UNCHANGED <<calls, leader, tables, moved>>

\* io_wait_mask: sleep, or look again at once.
io_wait(t) ==
    /\ pc[t] = "look"
    /\ Resume([pc EXCEPT ![t] = IF moved[t] THEN "run" ELSE "asleep"])
    /\ moved' = [moved EXCEPT ![t] = FALSE]
    /\ UNCHANGED <<calls, leader, tables, pending>>

\* The slice of a wait for the network, or the timeout of the call, is over.
wake_sleepers(t) ==
    /\ pc[t] = "asleep"
    /\ slice[t] \/ "timeout" \in calls
    /\ Resume([pc EXCEPT ![t] = "run"])
    /\ UNCHANGED <<calls, leader, tables, pending, moved>>

-----------------------------------------------------------------------------
(* Opening, closing, copying. Flags vary where the behaviour looks at them. *)

Cloexec  == IF "exec" \in calls THEN BOOLEAN ELSE {FALSE}
Nonblock == IF "nonblock" \in calls THEN {TRUE} ELSE {FALSE}

\* open of a regular file or of a device: nothing to count. (A file stays in
\* use while a descriptor has it: Ext2.)
open(t) ==
    /\ May(t, "open")
    /\ \E kind \in {"file", "dev"}, cx \in Cloexec :
          Done(t, install(State, leader[t], File(kind, 0, FALSE, cx)))

\* open of a text of /proc: made before FS is taken, given back if MEMS is full.
open_proc(t) ==
    /\ May(t, "proc")
    /\ FreeIn(State, "mem") # {}
    /\ \E cx \in Cloexec :
          LET i == NewIn(State, "mem")
          IN Done(t, install(New(State, "mem", i, [kind |-> "mem"], {<<"mem", i>>}),
                             leader[t], [File("mem", i, FALSE, cx) EXCEPT !.acc = "r"]))

\* open of /proc/self/fd/N: what N has, again.
open_self(t) ==
    /\ May(t, "self")
    /\ \E fd \in Fds, cx \in Cloexec :
          LET f  == Fd(t, fd)
              nf == [f EXCEPT !.cloexec = cx, !.acc = IF f.kind = "file" THEN "r" ELSE @]
          IN f.kind # "free" /\ Done(t, install(add_ref(State, nf), leader[t], nf))

close(t) ==
    /\ May(t, "close")
    /\ \E fd \in Fds :
          /\ Fd(t, fd).kind # "free"
          /\ Done(t, drop_ref(Put(State, leader[t], fd, FREE), Fd(t, fd)))

\* dup, F_DUPFD: the lowest free descriptor from min on.
dup(t) ==
    /\ May(t, "dup")
    /\ \E fd \in Fds, cx \in Cloexec :
          \E min \in {0, MaxFds - 1} :
          LET f == [Fd(t, fd) EXCEPT !.cloexec = cx]
          IN /\ f.kind # "free"
             /\ Slots(State, leader[t], min) # {}
             /\ Done(t, add_ref(Put(State, leader[t], Slot(State, leader[t], min), f), f))

\* dup2, dup3: over what `new` had.
dup2(t) ==
    /\ May(t, "dup2")
    /\ \E fd \in Fds, cx \in Cloexec : \E new \in Fds \ {fd} :
          LET f == [Fd(t, fd) EXCEPT !.cloexec = cx]
              S == add_ref(Put(State, leader[t], new, f), f)
          IN f.kind # "free" /\ Done(t, drop_ref(S, Fd(t, new)))

\* set_cloexec, set_flags (F_SETFD, F_SETFL, FIONBIO, FIOCLEX).
fcntl(t) ==
    /\ May(t, "fcntl")
    /\ \E fd \in Fds, cx \in Cloexec, nb \in Nonblock :
          /\ Fd(t, fd).kind # "free"
          /\ \E f \in {[Fd(t, fd) EXCEPT !.cloexec = cx], [Fd(t, fd) EXCEPT !.nonblock = nb]} :
                Done(t, Put(State, leader[t], fd, f))

-----------------------------------------------------------------------------
(* The life of a process. *)

AllOf(S, p) == [i \in 1..MaxFds |-> S.fds[p][i - 1]]

\* clone_table: the child has a copy.
fork(t) ==
    /\ May(t, "fork")
    /\ \E u \in Threads :
          /\ leader[u] \notin live
          /\ LET S == FoldLeft(add_ref, State, AllOf(State, leader[t]))
             IN /\ fds' = [fds EXCEPT ![leader[u]] = fds[leader[t]]]
                /\ refs' = S.refs
          /\ live' = live \cup {leader[u]}
    /\ UNCHANGED <<calls, leader, obj, tcp, thread>>

\* exec_cleanup: in the order of the table.
exec_cleanup(t) ==
    /\ May(t, "exec")
    /\ LET p == leader[t]
           Shut(S, i) == IF S.fds[p][i - 1].cloexec THEN drop_ref(Put(S, p, i - 1, FREE), S.fds[p][i - 1]) ELSE S
       IN Done(t, FoldLeft(Shut, State, [i \in 1..MaxFds |-> i]))

\* release: the end of the process of t, with all its threads.
Reset(f, p, v) == [u \in Threads |-> IF leader[u] = p THEN v ELSE f[u]]
release(t) ==
    /\ "exit" \in calls
    /\ leader[t] \in live
    /\ pc[t] \in {"run", "asleep"}
    /\ LET p == leader[t]
           S == FoldLeft(drop_ref, [State EXCEPT !.fds[p] = DEFAULT_TABLE], AllOf(State, p))
       IN /\ fds' = S.fds /\ refs' = S.refs /\ obj' = S.obj /\ tcp' = S.tcp
          /\ live' = live \ {p}
          /\ pending' = {}
          /\ moved' = [u \in Threads |-> leader[u] # p /\ (moved[u] \/ (pc[u] = "look" /\ mask[u] \cap S.keys # {}))]
          /\ Resume(Reset(Awake(pending \cup S.keys), p, "run"))
    /\ UNCHANGED <<calls, leader>>

-----------------------------------------------------------------------------
(* Pipes, event counters. *)

\* Both descriptors or none.
pipe(t) ==
    /\ May(t, "pipe")
    /\ FreeIn(State, "pipe") # {}
    /\ \E cx \in Cloexec, nb \in Nonblock :
          LET p == leader[t]
              i == NewIn(State, "pipe")
              S == New(State, "pipe", i, [kind |-> "pipe", len |-> 0], Keeps("pipe", i))
              r == File("pipeR", i, nb, cx)
              R == Put(S, p, Slot(S, p, 0), r)
          IN Done(t, IF Slots(S, p, 0) = {} THEN State
                     ELSE IF Slots(R, p, 0) = {}
                     THEN drop_ref([S EXCEPT !.refs[<<"pipeW", i>>] = 0], r)
                     ELSE Put(R, p, Slot(R, p, 0), File("pipeW", i, nb, cx)))

PipeOf(f) == <<"pipe", f.ino>>

\* pipe_read, at most n bytes; nothing is read at the end (no writers).
pipe_read(t) ==
    /\ May(t, "read")
    /\ \E fd \in Fds, n \in 1..Cap :
          LET f == Fd(t, fd)
              len == obj[PipeOf(f)].len
          IN /\ f.kind = "pipeR"
             /\ \/ /\ len > 0
                   /\ Done(t, push_wake([State EXCEPT !.obj[PipeOf(f)].len = IF n < @ THEN @ - n ELSE 0],
                                         {Other(f)}))
                \/ /\ len = 0 /\ refs[Other(f)] > 0
                   /\ would_block(t, State, fd, {"in"})

\* pipe_write; EPIPE without readers.
pipe_write(t) ==
    /\ May(t, "write")
    /\ \E fd \in Fds, n \in 1..Cap :
          LET f == Fd(t, fd)
              len == obj[PipeOf(f)].len
          IN /\ f.kind = "pipeW"
             /\ refs[Other(f)] > 0
             /\ \/ /\ len < Cap
                   /\ Done(t, push_wake([State EXCEPT !.obj[PipeOf(f)].len = IF @ + n < Cap THEN @ + n ELSE Cap],
                                         {Other(f)}))
                \/ len = Cap /\ would_block(t, State, fd, {"out"})

eventfd(t) ==
    /\ May(t, "eventfd")
    /\ FreeIn(State, "event") # {}
    /\ \E count \in 0..1, sem \in BOOLEAN, nb \in Nonblock, cx \in Cloexec :
          LET i == NewIn(State, "event")
          IN Done(t, install(New(State, "event", i, [kind |-> "event", count |-> count, sem |-> sem], {<<"event", i>>}),
                             leader[t], File("event", i, nb, cx)))

\* event_read: one, or the whole count.
event_read(t) ==
    /\ May(t, "event_read")
    /\ \E fd \in Fds :
          LET f == Fd(t, fd)
              e == obj[Target(f)]
          IN /\ f.kind = "event"
             /\ \/ /\ e.count > 0
                   /\ Done(t, push_wake([State EXCEPT !.obj[Target(f)].count = IF e.sem THEN @ - 1 ELSE 0], {Target(f)}))
                \/ e.count = 0 /\ would_block(t, State, fd, {"in"})

\* event_write saturates.
event_write(t) ==
    /\ May(t, "event_write")
    /\ \E fd \in Fds, v \in {1, EventMax} :
          LET f == Fd(t, fd)
          IN /\ f.kind = "event"
             /\ Done(t, push_wake([State EXCEPT !.obj[Target(f)].count = IF @ + v < EventMax THEN @ + v ELSE EventMax],
                                   {Target(f)}))

-----------------------------------------------------------------------------
(* Local sockets, with descriptors on their way. *)

NewConn(S, c, packet) ==
    New(S, "unix", c, [kind |-> "unix", packet |-> packet, q |-> [e \in 0..1 |-> NoQueue]], Keeps("unix", c))

\* Both descriptors or none.
socketpair(t) ==
    /\ May(t, "socketpair")
    /\ FreeIn(State, "unix") # {}
    /\ \E packet \in IF "empty_packet" \in calls THEN {TRUE} ELSE BOOLEAN, nb \in Nonblock, cx \in Cloexec :
          LET p == leader[t]
              c == NewIn(State, "unix")
              S == NewConn(State, c, packet)
              a == File("unix", 2 * c, nb, cx)
              b == File("unix", 2 * c + 1, nb, cx)
              A == Put(S, p, Slot(S, p, 0), a)
          IN Done(t, IF Cardinality(Slots(S, p, 0)) < 2 THEN drop_ref(drop_ref(S, a), b)
                     ELSE Put(A, p, Slot(A, p, 0), b))

UnixOf(f) == <<"unix", Conn(f)>>

\* unix::write: n bytes for the other end, with the descriptors `files`.
Sends(q, packet, n, files) ==
    LET m == IF packet \/ n <= Cap - q.len THEN n ELSE Cap - q.len
    IN [q EXCEPT !.len = @ + m,
                 !.msgs = IF packet THEN Append(@, m) ELSE @,
                 !.atts = IF files = <<>> THEN @ ELSE Append(@, [pos |-> q.len, files |-> files])]
Full(q, packet, n) == IF packet THEN Cap - q.len < n \/ Len(q.msgs) = MSGQ ELSE q.len = Cap

\* A message may be empty, and have descriptors all the same.
EmptyOn(packet) == (IF packet THEN "empty_packet" ELSE "empty_stream") \in calls

Passable == IF "pass" \in calls THEN Fds ELSE {}

\* unix_send (sendmsg, write). A send that can not be made gives the references
\* back and changes nothing; one that would block is left to UnixSocket.
unix_send(t) ==
    /\ May(t, "send")
    /\ \E fd \in Fds, n \in Sent, pass \in {{}} \cup {{d} : d \in Passable} :
          LET f == Fd(t, fd)
              k == obj[UnixOf(f)]
              files == [i \in 1..Cardinality(pass) |-> [Fd(t, SetToSeq(pass)[i]) EXCEPT !.cloexec = FALSE]]
              S == FoldLeft(add_ref, State, files)
          IN /\ f.kind = "unix"
             /\ \A d \in pass : Fd(t, d).kind # "free"
             /\ n > 0 \/ EmptyOn(k.packet)
             /\ refs[Other(f)] > 0
             /\ ~Full(k.q[1 - End(f)], k.packet, n)
             /\ pass = {} \/ Len(k.q[1 - End(f)].atts) < ATTQ
             /\ Done(t, push_wake([S EXCEPT !.obj[UnixOf(f)].q[1 - End(f)] = Sends(@, k.packet, n, files)], {Other(f)}))

Least(a, b) == IF a < b THEN a ELSE b

\* The descriptors that come with the first byte, and what is left of them.
Got(q)  == IF q.atts # <<>> /\ Head(q.atts).pos = 0 THEN Head(q.atts).files ELSE <<>>
Left(q) == IF q.atts # <<>> /\ Head(q.atts).pos = 0 THEN Tail(q.atts) ELSE q.atts

\* Mutant: a read of a stream goes past the next message with descriptors.
Consumed_Crosses(q, packet, n) == IF packet THEN Head(q.msgs) ELSE Least(n, q.len)

\* unix::read: a packet whole, of a stream up to the next descriptors.
Consumed(q, packet, n) ==
    CASE packet -> Head(q.msgs)
      [] ~packet /\ Left(q) # <<>> /\ Head(Left(q)).pos > 0 -> Least(Least(n, q.len), Head(Left(q)).pos)
      [] OTHER -> Least(n, q.len)
Reads(q, packet, n) ==
    LET m == Consumed(q, packet, n)
    IN [q EXCEPT !.len = @ - m,
                 !.msgs = IF packet THEN Tail(@) ELSE @,
                 !.atts = [i \in 1..Len(Left(q)) |-> [Left(q)[i] EXCEPT !.pos = @ - m]]]

\* unix_recv (recvmsg) installs up to `room` of the descriptors that came; those
\* without a place are closed, and read(2) closes all (room = 0).
unix_recv(t) ==
    /\ May(t, "recv")
    /\ \E fd \in Fds, n \in 1..Cap, room \in 0..1, cx \in Cloexec :
          LET f == Fd(t, fd)
              p == leader[t]
              k == obj[UnixOf(f)]
              q == k.q[End(f)]
              Take(S, x) == IF room = 0 THEN drop_ref(S, x) ELSE install(S, p, [x EXCEPT !.cloexec = cx])
              S0 == [State EXCEPT !.obj[UnixOf(f)].q[End(f)] = Reads(@, k.packet, n)]
          IN /\ f.kind = "unix"
             /\ \/ /\ q.len > 0
                   /\ Done(t, push_wake(FoldLeft(Take, S0, Got(q)), {Other(f)}))
                \/ /\ q.len = 0 /\ refs[Other(f)] > 0 /\ ~q.eof
                   /\ would_block(t, State, fd, {"in"})

\* shutdown: SHUT_RD, SHUT_WR, SHUT_RDWR. Other sockets accept it and do nothing.
shutdown(t) ==
    /\ May(t, "shutdown")
    /\ \E fd \in Fds, how \in 0..2 :
          LET f == Fd(t, fd)
              E == (IF how # 0 THEN {1 - End(f)} ELSE {}) \cup (IF how # 1 THEN {End(f)} ELSE {})
          IN /\ f.kind = "unix"
             /\ Done(t, push_wake([State EXCEPT !.obj[UnixOf(f)].q =
                                       [e \in 0..1 |-> IF e \in E THEN [@[e] EXCEPT !.eof = TRUE] ELSE @[e]]],
                                   {<<"unix", 2 * Conn(f) + e>> : e \in E}))

-----------------------------------------------------------------------------
(* Sockets that are not connected yet, listeners, TCP. *)

NoName == "none"
NewSock(udp) == [kind |-> "sock", udp |-> udp, tcp |-> NoName, state |-> "new", err |-> FALSE, lport |-> NoName]

socket(t) ==
    /\ May(t, "socket")
    /\ \E nb \in Nonblock, cx \in Cloexec :
        \/ \E packet \in BOOLEAN :
             /\ "local" \in calls /\ FreeIn(State, "usock") # {}
             /\ LET i == NewIn(State, "usock")
                IN Done(t, install(New(State, "usock", i, [kind |-> "usock", packet |-> packet, key |-> NoName], {<<"usock", i>>}),
                                   leader[t], File("usock", i, nb, cx)))
        \/ \E udp \in BOOLEAN :
             /\ "inet" \in calls /\ FreeIn(State, "sock") # {}
             /\ LET i == NewIn(State, "sock")
                IN Done(t, install(New(State, "sock", i, NewSock(udp), {<<"sock", i>>}),
                                   leader[t], File("sock", i, nb, cx)))

ListenersOn(k) == {i \in Index : obj[<<"listen", i>>] # NoObj /\ obj[<<"listen", i>>].key = k}

\* bind: a name nobody listens on (its socket file is made, or found), or a port.
bind(t) ==
    /\ May(t, "bind")
    /\ \E fd \in Fds :
          LET f == Fd(t, fd)
          IN \/ /\ f.kind = "usock" /\ obj[Target(f)].key = NoName
                /\ \E n \in Names : ListenersOn(n) = {} /\ Done(t, [State EXCEPT !.obj[Target(f)].key = n])
             \/ /\ f.kind = "sock"
                /\ \E n \in Ports : Done(t, [State EXCEPT !.obj[Target(f)].lport = n])

\* The descriptor turns into one of another kind, then drops what it had.
Turns(S, t, fd, kind, ino) ==
    drop_ref(Put(S, leader[t], fd, [Fd(t, fd) EXCEPT !.kind = kind, !.ino = ino]), Fd(t, fd))

\* unix::listen: EADDRINUSE.
Unbound(k) == ListenersOn(k) = {}

\* listen on a bound local socket, or on a TCP socket (a port is found for one
\* without): connections of this machine only.
listen(t) ==
    /\ May(t, "listen")
    /\ FreeIn(State, "listen") # {}
    /\ \E fd \in Fds, k \in Names \cup Ports :
          LET f == Fd(t, fd)
              o == obj[Target(f)]
              i == NewIn(State, "listen")
          IN /\ \/ f.kind = "usock" /\ o.key = k
                \/ f.kind = "sock" /\ ~o.udp /\ (o.lport = k \/ (o.lport = NoName /\ k \in Ports))
             /\ Unbound(k)
             /\ Done(t, Turns(New(State, "listen", i,
                                   [kind |-> "listen", key |-> k, backlog |-> <<>>,
                                    packet |-> f.kind = "usock" /\ o.packet], {<<"listen", i>>}),
                               t, fd, "listen", i))

\* connect to a listener of this machine: the connection waits for accept.
connect(t) ==
    /\ May(t, "connect")
    /\ FreeIn(State, "unix") # {}
    /\ \E fd \in Fds, k \in Names \cup Ports, i \in Index :
          LET f == Fd(t, fd)
              c == NewIn(State, "unix")
              packet == f.kind = "usock" /\ obj[Target(f)].packet
          IN /\ \/ f.kind = "usock" /\ k \in Names
                \/ f.kind = "sock" /\ k \in Ports /\ ~obj[Target(f)].udp
             /\ i \in ListenersOn(k)
             /\ obj[<<"listen", i>>].packet = packet
             /\ Len(obj[<<"listen", i>>].backlog) < BACKLOG
             /\ Done(t, Turns(push_wake([NewConn(State, c, packet) EXCEPT !.obj[<<"listen", i>>].backlog = Append(@, c)],
                                        {<<"listen", i>>}),
                              t, fd, "unix", 2 * c))

\* accept; a connection without a place in the table is lost.
accept(t) ==
    /\ May(t, "accept")
    /\ \E fd \in Fds, nb \in Nonblock, cx \in Cloexec :
          LET f == Fd(t, fd)
              waiting == obj[Target(f)].backlog
          IN /\ f.kind = "listen"
             /\ \/ /\ waiting # <<>>
                   /\ Done(t, install([State EXCEPT !.obj[Target(f)].backlog = Tail(@)],
                                       leader[t], File("unix", 2 * Head(waiting) + 1, nb, cx)))
                \/ waiting = <<>> /\ would_block(t, State, fd, {"in"})

\* sock_progress: takes note of how the handshake ended.
sock_progress(S, f) ==
    LET k == S.obj[Target(f)]
    IN IF f.kind # "sock" \/ k.state # "connecting" \/ S.tcp[k.tcp] = "opening" THEN S
       ELSE [S EXCEPT !.obj[Target(f)].state = IF S.tcp[k.tcp] = "dead" THEN "failed" ELSE "connected",
                      !.obj[Target(f)].err = S.tcp[k.tcp] = "dead"]

\* connect of an INET socket: UDP fixes the address; TCP starts the handshake
\* once and, if it may block, waits for its end in slices.
connect_inet(t) ==
    /\ May(t, "tcp")
    /\ \E fd \in Fds :
          LET f == Fd(t, fd)
              k == obj[Target(f)]
              Waits(S) == LET T == sock_progress(S, f)
                          IN IF T.obj[Target(f)].state = "connecting"
                             THEN Block(t, T, {Item(t, fd, {"out"})}, {KeyOf(f)}, TRUE)
                             ELSE Done(t, T)
          IN /\ f.kind = "sock"
             /\ \/ /\ k.udp
                   /\ \E n \in Ports : Done(t, [State EXCEPT !.obj[Target(f)].state = "connected",
                                                              !.obj[Target(f)].lport = IF @ = NoName THEN n ELSE @])
                \/ /\ ~k.udp /\ k.state = "new"
                   /\ \E h \in Handles :
                         /\ tcp[h] = "free"
                         /\ Done(t, [State EXCEPT !.obj[Target(f)].tcp = h, !.obj[Target(f)].state = "connecting",
                                                  !.tcp[h] = "opening"])
                \/ /\ ~k.udp /\ k.state = "connecting" /\ ~f.nonblock
                   /\ Waits(State)

\* sock_send, sock_recv on a TCP socket: made on a connection, otherwise wait for
\* the handshake. `some`: there is room, or there are bytes, or the end.
sock_io(t) ==
    /\ May(t, "tcp")
    /\ \E fd \in Fds, ev \in {"in", "out"} :
          LET f == Fd(t, fd)
              S == sock_progress(State, f)
              k == S.obj[Target(f)]
              some == tcp[k.tcp] \in {"data", "dead"}
          IN /\ f.kind = "sock" /\ ~obj[Target(f)].udp
             /\ \/ /\ k.state = "connected" /\ ev = "in" /\ some
                   /\ Done(t, IF tcp[k.tcp] = "data" THEN [S EXCEPT !.tcp[k.tcp] = "up"] ELSE S)
                \/ k.state = "connected" /\ ev = "out" /\ Done(t, S)
                \/ /\ k.state = "connecting" \/ (k.state = "connected" /\ (ev = "out" \/ ~some))
                   /\ would_block(t, S, fd, {ev})
                \/ k.state = "failed" /\ Done(t, S)

\* getsockopt(SO_ERROR): the error, once.
sock_error(t) ==
    /\ May(t, "tcp")
    /\ \E fd \in Fds :
          /\ Fd(t, fd).kind = "sock"
          /\ Done(t, [sock_progress(State, Fd(t, fd)) EXCEPT !.obj[Target(Fd(t, fd))].err = FALSE])

\* What the network does to a handle meanwhile: Tcp.
tcp_news(h) ==
    /\ "tcp" \in calls
    /\ \E new \in {"up", "data", "dead"} :
          /\ <<tcp[h], new>> \in {<<"opening", "up">>, <<"opening", "dead">>, <<"up", "data">>,
                                 <<"up", "dead">>, <<"data", "dead">>}
          /\ tcp' = [tcp EXCEPT ![h] = new]
    /\ UNCHANGED <<calls, leader, live, fds, refs, obj, thread>>

-----------------------------------------------------------------------------
(* poll and epoll. *)

If(b, e) == IF b THEN {e} ELSE {}

unix_ready(S, f) ==
    LET k == S.obj[UnixOf(f)]
        out == k.q[1 - End(f)]
        gone == S.refs[Other(f)] = 0
    IN If(k.q[End(f)].len > 0 \/ gone \/ k.q[End(f)].eof, "in")
       \cup If(~gone /\ out.len < Cap /\ Len(out.msgs) < MSGQ, "out") \cup If(gone, "hup")

sock_ready(S, f) ==
    LET k == S.obj[Target(f)]
    IN CASE k.udp -> {"out"}
         [] k.state = "failed" -> {"err", "hup", "out"}
         [] k.state = "connected" -> If(S.tcp[k.tcp] \in {"data", "dead"}, "in") \cup {"out"} \cup If(S.tcp[k.tcp] = "dead", "hup")
         [] k.state = "new" -> {"out", "hup"}
         [] OTHER -> {}

\* ready_locked.
ready_locked(S, f) ==
    CASE f.kind = "pipeR"   -> If(S.obj[PipeOf(f)].len > 0 \/ S.refs[Other(f)] = 0, "in") \cup If(S.refs[Other(f)] = 0, "hup")
      [] f.kind = "pipeW"   -> IF S.refs[Other(f)] = 0 THEN {"err"} ELSE If(S.obj[PipeOf(f)].len < Cap, "out")
      [] f.kind = "unix"    -> unix_ready(S, f)
      [] f.kind = "listen"  -> If(S.obj[Target(f)].backlog # <<>>, "in")
      [] f.kind = "event"   -> If(S.obj[Target(f)].count > 0, "in") \cup {"out"}
      [] f.kind = "sock"    -> sock_ready(S, f)
      [] f.kind \in {"usock", "console"} -> {"out"}
      [] f.kind = "epoll"   -> {}
      [] f.kind = "free"    -> {"nval"}
      [] OTHER              -> {"in", "out"}

AllKeys == Counted \cup {<<"sock", 0>>}

\* wait_keys_locked.
wait_keys(f) ==
    CASE f.kind \in {"pipeR", "pipeW", "listen", "event", "sock"} -> {KeyOf(f)}
      [] f.kind = "unix"  -> {Target(f), Other(f)}
      [] f.kind = "epoll" -> AllKeys
      [] OTHER -> {}

Always == {"err", "hup", "nval"}

\* poll_fds for ppoll; pselect6 asks the same and counts as the program does.
poll(t) ==
    /\ May(t, "poll")
    /\ \E F \in SUBSET Fds, ev \in {{"in"}, {"out"}} :
          LET S == FoldLeft(sock_progress, State, [i \in 1..Cardinality(F) |-> Fd(t, SetToSeq(F)[i])])
          IN /\ Cardinality(F) \in 1..2
             /\ F \cap Console = {}
             /\ IF \E fd \in F : ready_locked(S, Fd(t, fd)) \cap (ev \cup Always) # {}
                THEN Done(t, S)
                ELSE Block(t, S, {Item(t, fd, ev) : fd \in F}, UNION {wait_keys(Fd(t, fd)) : fd \in F},
                           \E fd \in F : Fd(t, fd).kind = "sock")

epoll_create(t) ==
    /\ May(t, "epoll")
    /\ FreeIn(State, "epoll") # {}
    /\ \E cx \in Cloexec :
          LET i == NewIn(State, "epoll")
          IN Done(t, install(New(State, "epoll", i, [kind |-> "epoll", items |-> <<>>], {<<"epoll", i>>}),
                             leader[t], File("epoll", i, FALSE, cx)))

ItemAt(items, fd) == {i \in 1..Len(items) : items[i].fd = fd}

\* epoll_ctl: ADD; DEL moves the last item to the place; MOD arms the item anew.
epoll_ctl(t) ==
    /\ May(t, "epoll")
    /\ \E ep \in Fds, fd \in Fds \ Console, ev \in {{"in"}, {"out"}}, how \in {"level", "oneshot", "edge"} :
          LET items == obj[Target(Fd(t, ep))].items
              it == [fd |-> fd, ev |-> ev, how |-> how, off |-> FALSE, fired |-> FALSE]
              Set(new) == Done(t, [State EXCEPT !.obj[Target(Fd(t, ep))].items = new])
          IN /\ Fd(t, ep).kind = "epoll" /\ fd # ep /\ Fd(t, fd).kind # "free"
             /\ \/ ItemAt(items, fd) = {} /\ Len(items) < EPOLL_MAX /\ Set(Append(items, it))
                \/ \E i \in ItemAt(items, fd) :
                      \/ Set([items EXCEPT ![i] = it])
                      \/ Set(SubSeq([items EXCEPT ![i] = items[Len(items)]], 1, Len(items) - 1))

AlwaysReady == {"file", "dev", "mem", "console"}

\* epoll_scan looks at one item: a = what came of the items before it.
Scan(p, max, a, i) ==
    LET it  == a.items[i]
        f   == fds[p][it.fd]
        S   == sock_progress(a.S, f)
        r   == ready_locked(S, f)
        hit == r \cap (it.ev \cup {"err", "hup"})
    IN CASE a.n >= max \/ it.off -> a
         [] "nval" \in r \/ hit = {} ->
              [a EXCEPT !.S = S, !.mask = @ \cup wait_keys(f), !.net = @ \/ f.kind = "sock",
                        !.waits = @ \cup {[fd |-> it.fd, target |-> Target(f), ev |-> it.ev]}]
         [] it.how = "edge" /\ f.kind \in AlwaysReady /\ it.fired -> a
         [] OTHER ->
              [a EXCEPT !.S = S, !.n = @ + 1,
                        !.items[i].fired = it.how = "edge" /\ f.kind \in AlwaysReady,
                        !.items[i].off = it.how = "oneshot"]

\* epoll_pwait.
epoll_wait(t) ==
    /\ May(t, "epoll_wait")
    /\ \E ep \in Fds, max \in 1..EPOLL_MAX :
          LET e == Target(Fd(t, ep))
              a == FoldLeft(LAMBDA x, i : Scan(leader[t], max, x, i),
                            [S |-> State, items |-> obj[e].items, n |-> 0, mask |-> {}, net |-> FALSE, waits |-> {}],
                            [i \in 1..Len(obj[e].items) |-> i])
              S == [a.S EXCEPT !.obj[e].items = a.items]
          IN /\ Fd(t, ep).kind = "epoll"
             /\ IF a.n > 0 THEN Done(t, S) ELSE Block(t, S, a.waits, a.mask, a.net)

-----------------------------------------------------------------------------
Init ==
    /\ calls \in Programs
    /\ leader \in Leaders /\ (calls \cap {"fork", "alone"} # {}) = (\E t \in Threads : leader[t] # First)
    /\ live = {First}
    /\ fds = [p \in Procs |-> DEFAULT_TABLE]
    /\ refs = [x \in Counted |-> 0]
    /\ obj = [x \in Tables \X Index |-> NoObj]
    /\ tcp = [h \in Handles |-> "free"]
    /\ pending = {}
    /\ pc = [t \in Threads |-> "run"]
    /\ mask = [t \in Threads |-> {}]
    /\ moved = [t \in Threads |-> FALSE]
    /\ waits = [t \in Threads |-> {}]
    /\ slice = [t \in Threads |-> FALSE]

Next ==
    \/ \E t \in Threads :
          \/ open(t) \/ open_proc(t) \/ open_self(t) \/ close(t) \/ dup(t) \/ dup2(t) \/ fcntl(t)
          \/ fork(t) \/ exec_cleanup(t) \/ release(t)
          \/ pipe(t) \/ pipe_read(t) \/ pipe_write(t)
          \/ eventfd(t) \/ event_read(t) \/ event_write(t)
          \/ socketpair(t) \/ unix_send(t) \/ unix_recv(t) \/ shutdown(t)
          \/ socket(t) \/ bind(t) \/ listen(t) \/ connect(t) \/ accept(t)
          \/ connect_inet(t) \/ sock_io(t) \/ sock_error(t)
          \/ poll(t) \/ epoll_create(t) \/ epoll_ctl(t) \/ epoll_wait(t)
          \/ flush_wakes(t) \/ io_wait(t) \/ wake_sleepers(t)
    \/ \E h \in Handles : tcp_news(h)

Spec == Init /\ [][Next]_vars

-----------------------------------------------------------------------------
(* Properties. *)

\* How often a target occurs in a sequence of descriptors.
Times(seq, x) == Cardinality({i \in 1..Len(seq) : Target(seq[i]) = x})
Conns == {c \in Index : obj[<<"unix", c>>] # NoObj}
RECURSIVE Sum(_, _)
Sum(f, D) == IF D = {} THEN 0 ELSE LET x == CHOOSE x \in D : TRUE IN f[x] + Sum(f, D \ {x})

\* References of a target: descriptors of all tables, descriptors on their way in
\* connections, and connections that wait for accept.
Referred(x) ==
    Cardinality({<<p, i>> \in Procs \X Fds : Target(fds[p][i]) = x})
    + Sum([c \in Conns |-> Times(InFlight(obj[<<"unix", c>>]), x)], Conns)
    + Cardinality({i \in Index : /\ obj[<<"listen", i>>] # NoObj
                                 /\ \E c \in ToSet(obj[<<"listen", i>>].backlog) : x = <<"unix", 2 * c + 1>>})

\* Whatever the order of fork, exec, dup2, passing of descriptors, lost places
\* in a full table and ends of processes: the count of every object is the number
\* of references there are, an object is in its table exactly while it has one
\* (no leak, nobody with a descriptor of a freed object), and so is a TCP handle;
\* nobody takes an address somebody listens on (add_ref, drop_ref, install).
RefsExact ==
    /\ \A x \in Counted : refs[x] = Referred(x)
    /\ \A x \in Tables \X Index :
          (obj[x] # NoObj) = (\E y \in Keeps(x[1], x[2]) : refs[y] > 0)
    /\ \A h \in Handles : (tcp[h] # "free") =
          (Cardinality({i \in Index : obj[<<"sock", i>>] # NoObj /\ obj[<<"sock", i>>].tcp = h}) = 1)
    /\ \A k \in Names \cup Ports : Cardinality(ListenersOn(k)) <= 1

\* Descriptors sent over a local socket are still ahead of what is read: no read
\* goes past them (they would stay for ever and stop those that follow), on streams
\* and on packets, those without a byte too, whose descriptors may wait at the end
\* for the next byte (unix::read). For programs without empty messages on streams:
\* two that start at one byte leave the second's descriptors behind (unix.rs:142).
NoneLeftBehind ==
    \A c \in Conns, e \in 0..1 :
       LET q == obj[<<"unix", c>>].q[e]
       IN /\ \A i \in 1..Len(q.atts) : q.atts[i].pos \in 0..q.len
          /\ obj[<<"unix", c>>].packet => q.len = FoldLeft(+, 0, q.msgs)

\* A thread asleep in poll, epoll_wait, accept or a read is not left there when
\* what it looked at turns ready: the wake-up is on its way, or the wait is in
\* slices (wait_keys_locked against push_wake of every other call).
Ready(t, w) == ready_locked(State, fds[leader[t]][w.fd]) \cap (w.ev \cup {"err", "hup"}) # {}
NoEventLost ==
    \A t \in Threads : (pc[t] = "asleep" /\ ~slice[t] /\ \E w \in waits[t] : Ready(t, w))
                        => mask[t] \cap pending # {}
=============================================================================
