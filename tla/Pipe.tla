-------------------------------- MODULE Pipe --------------------------------
(***************************************************************************)
(* Pipes (kernel/src/file.rs) over the I/O wait protocol: read, write,     *)
(* close, fork and the end of a process. Bytes are counted, not stored; a  *)
(* process has at most one descriptor of an end and never runs out of      *)
(* them. With O_NONBLOCK a call that would block returns and changes       *)
(* nothing, which is no step here.                                         *)
(***************************************************************************)
EXTENDS IoWait

CONSTANTS
    Pipes,    \* pipes of the table
    Cap       \* PIPE_CAP

ASSUME PipeAssumption == Cap \in Nat \ {0}

\* key_r and key_w; the same pairs name the two ends of a pipe.
key_r(i) == <<"r", i>>
key_w(i) == <<"w", i>>
PipeKeys == {key_r(i) : i \in Pipes} \cup {key_w(i) : i \in Pipes}

ASSUME PipeKeysAssumption == Keys = PipeKeys

VARIABLES
    len,      \* bytes in each pipe
    readers,  \* descriptors of its read end
    writers,  \* descriptors of its write end
    fds       \* ends each process has open

pipeVars == <<len, readers, writers, fds>>
vars == <<ioVars, pipeVars>>

Used(i) == readers[i] + writers[i] > 0          \* buf # 0

\* pipe2
pipe(p, i) ==
    /\ MayCall(p, NoCall)
    /\ ~Used(i)
    /\ len' = [len EXCEPT ![i] = 0]
    /\ readers' = [readers EXCEPT ![i] = 1]
    /\ writers' = [writers EXCEPT ![i] = 1]
    /\ fds' = [fds EXCEPT ![p] = @ \cup {key_r(i), key_w(i)}]
    /\ Done(p) /\ NoWake

pipe_read(p, i) ==
    /\ MayCall(p, <<"read", i>>)
    /\ key_r(i) \in fds[p]
    /\ \/ /\ len[i] = 0 /\ writers[i] > 0
          /\ would_block(p, <<"read", i>>, key_r(i))
          /\ UNCHANGED len
       \/ /\ len[i] = 0 /\ writers[i] = 0                \* end of file
          /\ Done(p) /\ NoWake
          /\ UNCHANGED len
       \/ /\ \E n \in 1 .. len[i] : len' = [len EXCEPT ![i] = @ - n]
          /\ Done(p) /\ push_wake({key_w(i)})
    /\ UNCHANGED <<readers, writers, fds>>

\* Mutant: the pipe takes one byte too many.
pipe_write_OffByOne(p, i) ==
    /\ MayCall(p, <<"write", i>>)
    /\ key_w(i) \in fds[p]
    /\ \/ /\ readers[i] = 0
          /\ Done(p) /\ NoWake
          /\ UNCHANGED len
       \/ /\ readers[i] > 0 /\ len[i] > Cap
          /\ would_block(p, <<"write", i>>, key_w(i))
          /\ UNCHANGED len
       \/ /\ readers[i] > 0
          /\ \E n \in 1 .. Cap + 1 - len[i] : len' = [len EXCEPT ![i] = @ + n]
          /\ Done(p) /\ push_wake({key_r(i)})
    /\ UNCHANGED <<readers, writers, fds>>

pipe_write(p, i) ==
    /\ MayCall(p, <<"write", i>>)
    /\ key_w(i) \in fds[p]
    /\ \/ /\ readers[i] = 0                              \* EPIPE
          /\ Done(p) /\ NoWake
          /\ UNCHANGED len
       \/ /\ readers[i] > 0 /\ len[i] = Cap
          /\ would_block(p, <<"write", i>>, key_w(i))
          /\ UNCHANGED len
       \/ /\ readers[i] > 0
          /\ \E n \in 1 .. Cap - len[i] : len' = [len EXCEPT ![i] = @ + n]
          /\ Done(p) /\ push_wake({key_r(i)})
    /\ UNCHANGED <<readers, writers, fds>>

\* The end on which the other side of e waits.
OtherEnd(e) == IF e[1] = "r" THEN key_w(e[2]) ELSE key_r(e[2])

\* Mutant: closing an end wakes nobody.
drop_refs_Silent(E) ==
    LET r == [i \in Pipes |-> IF key_r(i) \in E THEN readers[i] - 1 ELSE readers[i]]
        w == [i \in Pipes |-> IF key_w(i) \in E THEN writers[i] - 1 ELSE writers[i]]
    IN /\ readers' = r
       /\ writers' = w
       /\ len' = [i \in Pipes |-> IF r[i] = 0 /\ w[i] = 0 THEN 0 ELSE len[i]]
       /\ NoWake

\* Mutant: the end of a process forgets the ends it could read.
drop_refs_WritersOnly(E) ==
    LET w == [i \in Pipes |-> IF key_w(i) \in E THEN writers[i] - 1 ELSE writers[i]]
    IN /\ writers' = w
       /\ len' = [i \in Pipes |-> IF readers[i] = 0 /\ w[i] = 0 THEN 0 ELSE len[i]]
       /\ push_wake({OtherEnd(e) : e \in E})
       /\ UNCHANGED readers

\* drop_ref on the ends E: each closed end wakes the waiters of the other.
drop_refs(E) ==
    LET r == [i \in Pipes |-> IF key_r(i) \in E THEN readers[i] - 1 ELSE readers[i]]
        w == [i \in Pipes |-> IF key_w(i) \in E THEN writers[i] - 1 ELSE writers[i]]
    IN /\ readers' = r
       /\ writers' = w
       /\ len' = [i \in Pipes |-> IF r[i] = 0 /\ w[i] = 0 THEN 0 ELSE len[i]]
       /\ push_wake({OtherEnd(e) : e \in E})

close(p, e) ==
    /\ MayCall(p, NoCall)
    /\ e \in fds[p]
    /\ drop_refs({e})
    /\ fds' = [fds EXCEPT ![p] = @ \ {e}]
    /\ Done(p)

\* release: the end of a process closes everything in one FS section.
release(p) ==
    /\ CanExit(p)
    /\ drop_refs(fds[p])
    /\ fds' = [fds EXCEPT ![p] = {}]
    /\ StartExit(p)

\* fork: clone_table, with SCHED held. The child q starts in the program.
clone_table(p, q) ==
    /\ MayCall(p, NoCall)
    /\ pc[q] = "dead"
    /\ sched = Free
    /\ readers' = [i \in Pipes |-> IF key_r(i) \in fds[p] THEN readers[i] + 1 ELSE readers[i]]
    /\ writers' = [i \in Pipes |-> IF key_w(i) \in fds[p] THEN writers[i] + 1 ELSE writers[i]]
    /\ fds' = [fds EXCEPT ![q] = fds[p]]
    /\ pc' = [pc EXCEPT ![q] = "run", ![p] = "flush"]
    /\ UNCHANGED <<call, key, moved, pending, taken, sched, len>>

Init ==
    /\ IoInit
    /\ len = [i \in Pipes |-> 0]
    /\ readers = [i \in Pipes |-> 0]
    /\ writers = [i \in Pipes |-> 0]
    /\ fds = [p \in Procs |-> {}]

Protocol(p) == IoNext(p) /\ UNCHANGED pipeVars

Next ==
    \E p \in Procs :
        \/ Protocol(p)
        \/ release(p)
        \/ \E i \in Pipes : pipe(p, i) \/ pipe_read(p, i) \/ pipe_write(p, i)
        \/ \E e \in Keys : close(p, e)
        \/ \E q \in Procs : clone_table(p, q)

Spec == Init /\ [][Next]_vars

-----------------------------------------------------------------------------
(* Properties *)

TypeOK ==
    /\ IoTypeOK
    /\ call \in [Procs -> ({"read", "write"} \X Pipes) \cup {NoCall}]
    /\ len \in [Pipes -> 0 .. Cap]
    /\ readers \in [Pipes -> Nat]
    /\ writers \in [Pipes -> Nat]
    /\ fds \in [Procs -> SUBSET Keys]

\* The call a sleeper on k makes again would proceed now.
Proceeds(k) ==
    IF k[1] = "r" THEN len[k[2]] > 0 \/ writers[k[2]] = 0
                  ELSE len[k[2]] < Cap \/ readers[k[2]] = 0

\* No lost wake-up: whoever sleeps on a pipe that has become ready (data,
\* space, end of file or no reader left) has its event queued or being
\* fired by somebody.
NoLostWakeup ==
    \A p \in Procs : pc[p] = "IoWait" /\ Proceeds(key[p]) => OnItsWay(key[p])

Holders(e) == {p \in Procs : e \in fds[p]}

\* The counters of a pipe are the descriptors open on its ends, through
\* fork, close and the end of processes.
RefsExact ==
    \A i \in Pipes : /\ readers[i] = Cardinality(Holders(key_r(i)))
                     /\ writers[i] = Cardinality(Holders(key_w(i)))

\* The end of system calls is fair: the kernel does not stop in them.
FairSpec == Spec /\ \A p \in Procs : WF_vars(Protocol(p))

\* A sleeper whose pipe stays ready runs again.
SleeperWakes ==
    \A p \in Procs : (pc[p] = "IoWait" /\ Proceeds(key[p])) ~> pc[p] # "IoWait"

=============================================================================
