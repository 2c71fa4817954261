----------------------------- MODULE UnixSocket -----------------------------
(***************************************************************************)
(* Local stream sockets (kernel/src/unix.rs, and the calls of file.rs that *)
(* lead there) over the I/O wait protocol: socketpair, listen, connect,    *)
(* accept, read, write, shutdown, close, fork and the end of a process.    *)
(* Bytes are counted, not stored; packet mode and descriptors in transit   *)
(* (SCM_RIGHTS) are left out.                                              *)
(***************************************************************************)
EXTENDS IoWait, Sequences, SequencesExt

CONSTANTS
    Conns,      \* connections of the table
    Listeners,  \* listeners of the table, each with an address of its own
    Cap,        \* CAP: bytes a queue holds
    Backlog     \* BACKLOG: connections waiting for accept

\* An end of a connection, and the end it talks to. The same tuple is the
\* key key_r(c, e) and the descriptor of the end; key_l names a listener.
key_r(c, e) == <<"u", c, e>>
key_l(i)    == <<"l", i>>
Ends        == {key_r(c, e) : c \in Conns, e \in 0 .. 1}
Peer(x)     == key_r(x[2], 1 - x[3])
UnixKeys    == Ends \cup {key_l(i) : i \in Listeners}

VARIABLES
    len,      \* bytes in the queue each end reads
    eof,      \* shutdown: nothing more will be written to that queue
    refs,     \* descriptors of each end (one for a connection in a backlog)
    lrefs,    \* descriptors of each listener
    backlog,  \* connections nobody accepted yet, oldest first
    fds       \* ends and listeners each process has open

unixVars == <<len, eof, refs, lrefs, backlog, fds>>
vars == <<ioVars, unixVars>>

Used(c) == refs[key_r(c, 0)] + refs[key_r(c, 1)] > 0

-----------------------------------------------------------------------------
(* Connections *)

\* conn_new: both ends referenced once, both queues empty.
conn_new(c) ==
    /\ ~Used(c)
    /\ refs' = [x \in Ends |-> IF x[2] = c THEN 1 ELSE refs[x]]
    /\ len'  = [x \in Ends |-> IF x[2] = c THEN 0 ELSE len[x]]
    /\ eof'  = [x \in Ends |-> eof[x] /\ x[2] # c]

socketpair(p, c) ==
    /\ MayCall(p, NoCall)
    /\ conn_new(c)
    /\ fds' = [fds EXCEPT ![p] = @ \cup {key_r(c, 0), key_r(c, 1)}]
    /\ Done(p) /\ NoWake
    /\ UNCHANGED <<lrefs, backlog>>

\* read at end x
read(p, x) ==
    /\ MayCall(p, <<"read", x>>)
    /\ x \in fds[p]
    /\ \/ /\ len[x] = 0 /\ (refs[Peer(x)] = 0 \/ eof[x])        \* end of file
          /\ Done(p) /\ NoWake
          /\ UNCHANGED len
       \/ /\ len[x] = 0 /\ refs[Peer(x)] > 0 /\ ~eof[x]
          /\ would_block(p, <<"read", x>>, x)
          /\ UNCHANGED len
       \/ /\ \E n \in 1 .. len[x] : len' = [len EXCEPT ![x] = @ - n]
          /\ Done(p) /\ push_wake({Peer(x)})
    /\ UNCHANGED <<eof, refs, lrefs, backlog, fds>>


\* write through end x, into the queue of its peer
write(p, x) ==
    /\ MayCall(p, <<"write", x>>)
    /\ x \in fds[p]
    /\ \/ /\ refs[Peer(x)] = 0                                  \* EPIPE
          /\ Done(p) /\ NoWake
          /\ UNCHANGED len
       \/ /\ refs[Peer(x)] > 0 /\ len[Peer(x)] = Cap
          /\ would_block(p, <<"write", x>>, Peer(x))
          /\ UNCHANGED len
       \/ /\ refs[Peer(x)] > 0
          /\ \E n \in 1 .. Cap - len[Peer(x)] : len' = [len EXCEPT ![Peer(x)] = @ + n]
          /\ Done(p) /\ push_wake({Peer(x)})
    /\ UNCHANGED <<eof, refs, lrefs, backlog, fds>>

\* Mutant: shutdown tells nobody.
shutdown_Silent(p, x, shut) ==
    /\ MayCall(p, NoCall)
    /\ x \in fds[p]
    /\ eof' = [y \in Ends |-> eof[y] \/ y \in shut]
    /\ Done(p) /\ NoWake
    /\ UNCHANGED <<len, refs, lrefs, backlog, fds>>

\* shutdown: of the reading side, of the writing side, or of both
shutdown(p, x, shut) ==
    /\ MayCall(p, NoCall)
    /\ x \in fds[p]
    /\ eof' = [y \in Ends |-> eof[y] \/ y \in shut]
    /\ Done(p) /\ push_wake(shut)
    /\ UNCHANGED <<len, refs, lrefs, backlog, fds>>

-----------------------------------------------------------------------------
(* listen, connect and accept *)

listen(p, i) ==
    /\ MayCall(p, NoCall)
    /\ lrefs[i] = 0                                             \* else EADDRINUSE
    /\ lrefs' = [lrefs EXCEPT ![i] = 1]
    /\ backlog' = [backlog EXCEPT ![i] = <<>>]
    /\ fds' = [fds EXCEPT ![p] = @ \cup {key_l(i)}]
    /\ Done(p) /\ NoWake
    /\ UNCHANGED <<len, eof, refs>>


\* connect: the client gets end 0, end 1 waits in the backlog
connect(p, i, c) ==
    /\ MayCall(p, NoCall)
    /\ lrefs[i] > 0                                             \* else ECONNREFUSED
    /\ Len(backlog[i]) < Backlog                                \* else EAGAIN
    /\ conn_new(c)
    /\ backlog' = [backlog EXCEPT ![i] = Append(@, c)]
    /\ fds' = [fds EXCEPT ![p] = @ \cup {key_r(c, 0)}]
    /\ Done(p) /\ push_wake({key_l(i)})
    /\ UNCHANGED lrefs

accept(p, i) ==
    /\ MayCall(p, <<"accept", key_l(i)>>)
    /\ key_l(i) \in fds[p]
    /\ \/ /\ backlog[i] = <<>>
          /\ would_block(p, <<"accept", key_l(i)>>, key_l(i))
          /\ UNCHANGED <<backlog, fds>>
       \/ /\ backlog[i] # <<>>
          /\ backlog' = [backlog EXCEPT ![i] = Tail(@)]
          /\ fds' = [fds EXCEPT ![p] = @ \cup {key_r(Head(backlog[i]), 1)}]
          /\ Done(p) /\ NoWake
    /\ UNCHANGED <<len, eof, refs, lrefs>>

-----------------------------------------------------------------------------
(* References *)

\* Mutant: the connections of a backlog outlive their listener.
LostEnds_NoBacklog(D) == D \cap Ends

\* The ends that lose a descriptor when the descriptors D are dropped: the
\* ones among D and, of a listener that goes away, the ends it never gave.
LostEnds(D) ==
    (D \cap Ends) \cup
    {key_r(c, 1) : c \in UNION {ToSet(backlog[i]) :
                        i \in {j \in Listeners : key_l(j) \in D /\ lrefs[j] = 1}}}

\* drop_ref and listener_ref(-1). An end without descriptors wakes both
\* sides; a connection without descriptors is emptied.
drop_refs(D) ==
    LET lost == LostEnds(D)
        r == [x \in Ends |-> IF x \in lost THEN refs[x] - 1 ELSE refs[x]]
        shut == {x \in lost : r[x] = 0}
        gone == {x \in Ends : r[x] = 0 /\ r[Peer(x)] = 0}
    IN /\ refs' = r
       /\ len' = [x \in Ends |-> IF x \in gone THEN 0 ELSE len[x]]
       /\ eof' = [x \in Ends |-> eof[x] /\ x \notin gone]
       /\ lrefs' = [i \in Listeners |-> IF key_l(i) \in D THEN lrefs[i] - 1 ELSE lrefs[i]]
       /\ backlog' = [i \in Listeners |->
             IF key_l(i) \in D /\ lrefs[i] = 1 THEN <<>> ELSE backlog[i]]
       /\ push_wake(shut \cup {Peer(x) : x \in shut})

close(p, d) ==
    /\ MayCall(p, NoCall)
    /\ d \in fds[p]
    /\ drop_refs({d})
    /\ fds' = [fds EXCEPT ![p] = @ \ {d}]
    /\ Done(p)

\* release: the end of a process closes everything in one FS section.
release(p) ==
    /\ CanExit(p)
    /\ drop_refs(fds[p])
    /\ fds' = [fds EXCEPT ![p] = {}]
    /\ StartExit(p)

\* fork: clone_table, with SCHED held. The child q starts in the program.
clone_table(p, q) ==
    /\ MayCall(p, NoCall)
    /\ pc[q] = "dead"
    /\ sched = Free
    /\ refs' = [x \in Ends |-> IF x \in fds[p] THEN refs[x] + 1 ELSE refs[x]]
    /\ lrefs' = [i \in Listeners |-> IF key_l(i) \in fds[p] THEN lrefs[i] + 1 ELSE lrefs[i]]
    /\ fds' = [fds EXCEPT ![q] = fds[p]]
    /\ pc' = [pc EXCEPT ![q] = "run", ![p] = "flush"]
    /\ UNCHANGED <<call, key, moved, pending, taken, sched, len, eof, backlog>>

-----------------------------------------------------------------------------
Init ==
    /\ IoInit
    /\ len = [x \in Ends |-> 0]
    /\ eof = [x \in Ends |-> FALSE]
    /\ refs = [x \in Ends |-> 0]
    /\ lrefs = [i \in Listeners |-> 0]
    /\ backlog = [i \in Listeners |-> <<>>]
    /\ fds = [p \in Procs |-> {}]

Protocol(p) == IoNext(p) /\ UNCHANGED unixVars

Next ==
    \E p \in Procs :
        \/ Protocol(p)
        \/ release(p)
        \/ \E c \in Conns : socketpair(p, c)
        \/ \E x \in Ends : read(p, x) \/ write(p, x)
        \/ \E x \in Ends, how \in 0 .. 2 :
              shutdown(p, x, {y \in {x, Peer(x)} : (y = x => how # 1) /\ (y # x => how # 0)})
        \/ \E i \in Listeners : listen(p, i) \/ accept(p, i)
        \/ \E i \in Listeners, c \in Conns : connect(p, i, c)
        \/ \E d \in Keys : close(p, d)
        \/ \E q \in Procs : clone_table(p, q)

Spec == Init /\ [][Next]_vars

-----------------------------------------------------------------------------
(* Properties *)

\* A call that sleeps would proceed if it were made now.
Proceeds(c) ==
    \/ /\ c[1] = "read"
       /\ len[c[2]] > 0 \/ refs[Peer(c[2])] = 0 \/ eof[c[2]]
    \/ /\ c[1] = "write"
       /\ len[Peer(c[2])] < Cap \/ refs[Peer(c[2])] = 0
    \/ /\ c[1] = "accept"
       /\ backlog[c[2][2]] # <<>>

Woken(kind) ==
    \A p \in Procs : pc[p] = "IoWait" /\ call[p][1] = kind /\ Proceeds(call[p])
                        => OnItsWay(key[p])

\* No lost wake-up: whoever sleeps in read on an end that has data, whose peer
\* is gone or that was shut down, or in accept while a connection waits in the
\* backlog, has its event on its way.
NoLostWakeup == Woken("read") /\ Woken("accept")

\* "quem escreve para ca tem espaco": reading makes room for the writers of
\* the other end, and whoever of them sleeps in write is woken.
WriterWoken == Woken("write")

\* The counters of an end are its descriptors (plus the one of a backlog),
\* through fork, close, accept, the end of the listener and of processes.
Waiting(i) == {key_r(c, 1) : c \in ToSet(backlog[i])}
RefsExact ==
    /\ \A x \in Ends :
          refs[x] = Cardinality({p \in Procs : x \in fds[p]})
                    + Cardinality({i \in Listeners : x \in Waiting(i)})
    /\ \A i \in Listeners :
          lrefs[i] = Cardinality({p \in Procs : key_l(i) \in fds[p]})

=============================================================================
