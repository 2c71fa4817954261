------------------------------- MODULE IoWait -------------------------------
(***************************************************************************)
(* The I/O wait protocol of the kernel: how a process sleeps on an object  *)
(* protected by the lock FS and is woken under the lock SCHED.             *)
(*                                                                         *)
(*  - A call that cannot proceed notes, still under FS, the key to wait    *)
(*    for and its event counter (file.rs, would_block). It sleeps later,   *)
(*    under SCHED, if the counter did not move (process.rs, io_wait_until).*)
(*  - A call that changes an object bumps the counter and queues the key   *)
(*    under FS (file.rs, push_wake). At the end of a system call the queue *)
(*    is taken under FS and each key is fired under SCHED (flush_wakes).   *)
(*                                                                         *)
(* The order of the locks (SCHED before FS) is why the two halves are      *)
(* separate, and why other processes run between them. The counters are    *)
(* abstracted to one bit per waiter: did its key see an event since it     *)
(* read the counter? Each action is one critical section of FS or SCHED;   *)
(* the modules that extend this one define the objects.                    *)
(***************************************************************************)
EXTENDS Integers, FiniteSets

CONSTANTS
    Procs,        \* processes (threads) that make the calls
    Keys,         \* wait keys of the objects
    PendingMax    \* length of PENDING

ASSUME IoWaitAssumption ==
    /\ IsFiniteSet(Procs)
    /\ IsFiniteSet(Keys)
    /\ PendingMax \in Nat

NoKey  == <<"none">>
NoCall == <<"none">>
Free   == "free"      \* nobody holds SCHED across two steps

ASSUME SentinelsOK == NoKey \notin Keys /\ Free \notin Procs

VARIABLES
    pc,       \* where each process is in its system call
    call,     \* the call to make again when it wakes (rewind_syscall)
    key,      \* BLOCK_ON: the key the call found it must wait for
    moved,    \* the counter of that key moved since would_block read it
    pending,  \* PENDING: keys to fire
    taken,    \* keys a process took from PENDING and has yet to fire
    sched     \* process that holds SCHED while it takes FS, or Free

ioVars == <<pc, call, key, moved, pending, taken, sched>>

\* "run": in the program, or about to make `call` again; "flush": the call
\* is over, PENDING not looked at; "fire": firing the keys it took;
\* "wait": before io_wait_until; "IoWait": asleep; "exit": dying, SCHED held.
PCs == {"run", "flush", "fire", "wait", "IoWait", "exit", "dead"}

-----------------------------------------------------------------------------
(* Queueing wake-ups, under FS. *)

\* bump_io_seq for the keys K: whoever noted one of them and is not asleep
\* yet will see that its counter moved.
Bump(K) == moved' = [p \in Procs |-> moved[p] \/ (key[p] \in K /\ pc[p] # "IoWait")]

\* push_wake for each of the keys K, in any order: a key that finds PENDING
\* full is dropped.
Enqueue(K) ==
    \/ /\ Cardinality(pending \cup K) <= PendingMax
       /\ pending' = pending \cup K
    \/ /\ Cardinality(pending \cup K) > PendingMax
       /\ pending' \in {Q \in SUBSET (pending \cup K) :
                          pending \subseteq Q /\ Cardinality(Q) = PendingMax}

push_wake(K) == Bump(K) /\ Enqueue(K)

NoWake == UNCHANGED <<pending, moved>>

-----------------------------------------------------------------------------
(* Ends of a call, in the same FS section as its work. *)

\* The call is done (or failed): what is left is flush_wakes.
Done(p) ==
    /\ pc' = [pc EXCEPT ![p] = "flush"]
    /\ call' = [call EXCEPT ![p] = NoCall]
    /\ key' = [key EXCEPT ![p] = NoKey]
    /\ UNCHANGED <<taken, sched>>

\* would_block: the call must wait for k; the counter is read now.
would_block(p, c, k) ==
    /\ pc' = [pc EXCEPT ![p] = "flush"]
    /\ call' = [call EXCEPT ![p] = c]
    /\ key' = [key EXCEPT ![p] = k]
    /\ moved' = [moved EXCEPT ![p] = FALSE]
    /\ UNCHANGED <<pending, taken, sched>>

-----------------------------------------------------------------------------
(* flush_wakes and io_wait_until, shared by every blocking call. *)

AfterFlush(p) == IF key[p] = NoKey THEN "run" ELSE "wait"

\* flush_wakes: the look at PENDING_ANY and, under FS, take_wakes.
take_wakes(p) ==
    /\ pc[p] = "flush"
    /\ pc' = [pc EXCEPT ![p] = IF pending = {} THEN AfterFlush(p) ELSE "fire"]
    /\ taken' = [taken EXCEPT ![p] = pending]
    /\ pending' = {}
    /\ UNCHANGED <<call, key, moved, sched>>

\* Everybody asleep on one of the keys K runs again and makes its call again.
Awaken(K, at) ==
    [p \in Procs |-> IF pc[p] = "IoWait" /\ key[p] \in K THEN "run" ELSE at[p]]
ForgetKey(K) ==
    [p \in Procs |-> IF pc[p] = "IoWait" /\ key[p] \in K THEN NoKey ELSE key[p]]

\* io_wake: one of the taken keys is fired, under SCHED.
io_wake(p) ==
    /\ pc[p] = "fire"
    /\ sched = Free
    /\ \E k \in taken[p] :
          /\ taken' = [taken EXCEPT ![p] = @ \ {k}]
          /\ pc' = Awaken({k}, IF taken[p] = {k} THEN [pc EXCEPT ![p] = AfterFlush(p)] ELSE pc)
          /\ key' = ForgetKey({k})
    /\ UNCHANGED <<call, moved, pending, sched>>

\* Mutant: the counter is not looked at again before sleeping.
io_wait_until_NoCheck(p) ==
    /\ pc[p] = "wait"
    /\ sched = Free
    /\ pc' = [pc EXCEPT ![p] = "IoWait"]
    /\ moved' = [moved EXCEPT ![p] = FALSE]
    /\ UNCHANGED <<call, key, pending, taken, sched>>

\* io_wait_until, under SCHED: sleep, or make the call again at once if the
\* counter moved.
io_wait_until(p) ==
    /\ pc[p] = "wait"
    /\ sched = Free
    /\ \/ /\ moved[p]
          /\ pc' = [pc EXCEPT ![p] = "run"]
          /\ key' = [key EXCEPT ![p] = NoKey]
       \/ /\ ~moved[p]
          /\ pc' = [pc EXCEPT ![p] = "IoWait"]
          /\ UNCHANGED key
    /\ moved' = [moved EXCEPT ![p] = FALSE]
    /\ UNCHANGED <<call, pending, taken, sched>>

\* flush_wakes_sched_held: the end of a process takes PENDING and fires it
\* without letting SCHED go.
exit_flush(p) ==
    /\ pc[p] = "exit"
    /\ pc' = [Awaken(pending, pc) EXCEPT ![p] = "dead"]
    /\ key' = ForgetKey(pending)
    /\ pending' = {}
    /\ sched' = Free
    /\ UNCHANGED <<call, moved, taken>>

\* A dying process p drops its descriptors with SCHED held (reap, release).
\* It is reaped in its program, ready to make its call again, or asleep.
CanExit(p) == sched = Free /\ pc[p] \in {"run", "IoWait"}

StartExit(p) ==
    /\ pc' = [pc EXCEPT ![p] = "exit"]
    /\ call' = [call EXCEPT ![p] = NoCall]
    /\ key' = [key EXCEPT ![p] = NoKey]
    /\ sched' = p
    /\ UNCHANGED taken

\* The process may make a call: a new one, or the one it was sleeping in.
MayCall(p, c) == pc[p] = "run" /\ call[p] \in {NoCall, c}

IoInit ==
    /\ pc = [p \in Procs |-> "run"]
    /\ call = [p \in Procs |-> NoCall]
    /\ key = [p \in Procs |-> NoKey]
    /\ moved = [p \in Procs |-> FALSE]
    /\ pending = {}
    /\ taken = [p \in Procs |-> {}]
    /\ sched = Free

\* Steps of the protocol that do not touch an object.
IoNext(p) == take_wakes(p) \/ io_wake(p) \/ io_wait_until(p) \/ exit_flush(p)

IoTypeOK ==
    /\ pc \in [Procs -> PCs]
    /\ key \in [Procs -> Keys \cup {NoKey}]
    /\ moved \in [Procs -> BOOLEAN]
    /\ pending \in SUBSET Keys
    /\ taken \in [Procs -> SUBSET Keys]
    /\ sched \in Procs \cup {Free}

\* The event that will wake a sleeper on k is on its way.
OnItsWay(k) == k \in pending \/ \E p \in Procs : pc[p] = "fire" /\ k \in taken[p]

=============================================================================
