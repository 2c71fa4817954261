----------------------------- MODULE PipeProofs -----------------------------
(***************************************************************************)
(* Proofs about Pipe, for every number of processes and pipes and every    *)
(* capacity: its types, the exactness of the reference counters, and the   *)
(* absence of lost wake-ups as long as PENDING has room for every key.     *)
(***************************************************************************)
EXTENDS Pipe, FiniteSetTheorems, TLAPS

-----------------------------------------------------------------------------
(* The inductive invariant. *)

\* A dying or dead process has no descriptors.
DeadHasNone == \A p \in Procs : pc[p] \in {"exit", "dead"} => fds[p] = {}

\* Where a process may have a key to wait for, and where it must.
KeysNoted ==
    \A p \in Procs : /\ pc[p] \in {"run", "exit", "dead"} => key[p] = NoKey
                     /\ pc[p] \in {"wait", "IoWait"} => key[p] \in Keys

\* A process on its way to sleep notices that its call would now proceed.
NotedBeforeSleep ==
    \A p \in Procs : /\ pc[p] \in {"flush", "fire", "wait"}
                     /\ key[p] \in Keys
                     /\ Proceeds(key[p])
                     => moved[p]

\* What the counters rest on.
CountInv == TypeOK /\ RefsExact /\ DeadHasNone

\* What the wake-ups rest on.
WakeInv == KeysNoted /\ NotedBeforeSleep /\ NoLostWakeup

-----------------------------------------------------------------------------
(* Keys and counters. *)

\* Every key is an end of a pipe, and the two ends differ.
LEMMA KeyShape ==
    /\ \A i \in Pipes : key_r(i) \in Keys /\ key_w(i) \in Keys
    /\ \A e \in Keys : \E i \in Pipes : e = key_r(i) \/ e = key_w(i)
    /\ \A e \in Keys : OtherEnd(e) \in Keys
    /\ \A i, j \in Pipes : /\ key_r(i) # key_w(j)
                           /\ key_r(i) = key_r(j) => i = j
                           /\ key_w(i) = key_w(j) => i = j
    /\ \A i \in Pipes : OtherEnd(key_r(i)) = key_w(i) /\ OtherEnd(key_w(i)) = key_r(i)
  BY PipeKeysAssumption DEF PipeKeys, key_r, key_w, OtherEnd

\* The number of holders of an end is a natural number.
LEMMA HoldersFinite ==
    \A e : IsFiniteSet(Holders(e)) /\ Cardinality(Holders(e)) \in Nat
<1> SUFFICES ASSUME NEW e
             PROVE  IsFiniteSet(Holders(e)) /\ Cardinality(Holders(e)) \in Nat
  OBVIOUS
<1>1. Holders(e) \in SUBSET Procs
  BY DEF Holders
<1>2. IsFiniteSet(Holders(e))
  BY <1>1, IoWaitAssumption, FS_Subset
<1> QED
  BY <1>2, FS_CardinalityType

\* The same after a step.
LEMMA HoldersFiniteNext ==
    \A e : IsFiniteSet(Holders(e)') /\ Cardinality(Holders(e)') \in Nat
<1> SUFFICES ASSUME NEW e
             PROVE  IsFiniteSet(Holders(e)') /\ Cardinality(Holders(e)') \in Nat
  OBVIOUS
<1>1. Holders(e)' \in SUBSET Procs
  BY DEF Holders
<1>2. IsFiniteSet(Holders(e)')
  BY <1>1, IoWaitAssumption, FS_Subset
<1> QED
  BY <1>2, FS_CardinalityType

\* Opening an end in one more process, and closing it in one of them.
LEMMA HoldersChange ==
    ASSUME NEW e, NEW p \in Procs
    PROVE  /\ Holders(e)' = Holders(e) \cup {p} /\ p \notin Holders(e)
                => Cardinality(Holders(e)') = Cardinality(Holders(e)) + 1
           /\ Holders(e)' = Holders(e) \ {p} /\ p \in Holders(e)
                => Cardinality(Holders(e)') = Cardinality(Holders(e)) - 1
           /\ Holders(e)' = Holders(e)
                => Cardinality(Holders(e)') = Cardinality(Holders(e))
  BY HoldersFinite, FS_AddElement, FS_RemoveElement

-----------------------------------------------------------------------------
(* Types of the wait protocol. *)

\* PENDING keeps to the keys, whether or not it overflows.
LEMMA EnqueueType ==
    ASSUME TypeOK, NEW K \in SUBSET Keys, Enqueue(K)
    PROVE  pending' \in SUBSET Keys
  BY DEF Enqueue, TypeOK, IoTypeOK

\* The steps of the protocol keep the types and leave nothing asleep with a
\* descriptor in a dead process.
LEMMA ProtocolTypes ==
    ASSUME CountInv, NEW p \in Procs, Protocol(p)
    PROVE  CountInv'
<1> USE DEF CountInv, TypeOK, IoTypeOK, PCs, pipeVars
<1>1. UNCHANGED <<len, readers, writers, fds>>
  BY DEF Protocol
<1>2. RefsExact'
  BY <1>1 DEF RefsExact, Holders
<1>3. CASE take_wakes(p)
  BY <1>1, <1>2, <1>3 DEF take_wakes, AfterFlush, DeadHasNone
<1>4. CASE io_wake(p)
  <2>1. PICK k \in taken[p] :
           /\ taken' = [taken EXCEPT ![p] = @ \ {k}]
           /\ pc' = Awaken({k}, IF taken[p] = {k} THEN [pc EXCEPT ![p] = AfterFlush(p)] ELSE pc)
           /\ key' = ForgetKey({k})
    BY <1>4 DEF io_wake
  <2>2. pc' \in [Procs -> PCs]
    BY <2>1 DEF Awaken, AfterFlush
  <2>3. key' \in [Procs -> Keys \cup {NoKey}]
    BY <2>1 DEF ForgetKey
  <2>4. taken' \in [Procs -> SUBSET Keys]
    BY <2>1
  <2>5. \A q \in Procs : pc'[q] \in {"exit", "dead"} => pc[q] \in {"exit", "dead"}
    BY <2>1 DEF Awaken, AfterFlush
  <2> QED
    BY <1>1, <1>2, <1>4, <2>2, <2>3, <2>4, <2>5 DEF io_wake, DeadHasNone
<1>5. CASE io_wait_until(p)
  BY <1>1, <1>2, <1>5 DEF io_wait_until, DeadHasNone
<1>6. CASE exit_flush(p)
  <2>1. pc' = [Awaken(pending, pc) EXCEPT ![p] = "dead"] /\ key' = ForgetKey(pending)
    BY <1>6 DEF exit_flush
  <2>2. pc' \in [Procs -> PCs]
    BY <2>1 DEF Awaken
  <2>3. key' \in [Procs -> Keys \cup {NoKey}]
    BY <2>1 DEF ForgetKey
  <2>4. \A q \in Procs : pc'[q] \in {"exit", "dead"} => pc[q] \in {"exit", "dead"}
    BY <2>1, <1>6 DEF Awaken, exit_flush
  <2> QED
    BY <1>1, <1>2, <1>6, <2>2, <2>3, <2>4 DEF exit_flush, DeadHasNone
<1> QED
  BY <1>3, <1>4, <1>5, <1>6 DEF Protocol, IoNext

\* The end of a call in "flush", with or without a key.
LEMMA DoneTypes ==
    ASSUME TypeOK, NEW p \in Procs, Done(p), NEW K \in SUBSET Keys, push_wake(K) \/ NoWake
    PROVE  /\ IoTypeOK'
           /\ call' \in [Procs -> ({"read", "write"} \X Pipes) \cup {NoCall}]
           /\ \A q \in Procs : pc'[q] \in {"exit", "dead"} => pc[q] \in {"exit", "dead"}
<1>1. pending' \in SUBSET Keys
  BY EnqueueType DEF push_wake, NoWake, TypeOK, IoTypeOK
<1>2. moved' \in [Procs -> BOOLEAN]
  BY DEF push_wake, NoWake, Bump, TypeOK, IoTypeOK
<1> QED
  BY <1>1, <1>2 DEF TypeOK, IoTypeOK, Done, PCs

\* The same for a call that must wait.
LEMMA BlockTypes ==
    ASSUME TypeOK, NEW p \in Procs, NEW c \in {"read", "write"} \X Pipes, NEW k \in Keys,
           would_block(p, c, k)
    PROVE  /\ IoTypeOK'
           /\ call' \in [Procs -> ({"read", "write"} \X Pipes) \cup {NoCall}]
           /\ \A q \in Procs : pc'[q] \in {"exit", "dead"} => pc[q] \in {"exit", "dead"}
  BY DEF would_block, TypeOK, IoTypeOK, PCs

-----------------------------------------------------------------------------
(* The counters are exact. *)

\* pipe2 takes an unused pipe: nobody holds its ends before, one after.
LEMMA PipeCounts ==
    ASSUME CountInv, NEW p \in Procs, NEW i \in Pipes, pipe(p, i)
    PROVE  CountInv'
<1> USE DEF CountInv
<1>1. readers[i] = 0 /\ writers[i] = 0
  <2>1. readers[i] \in Nat /\ writers[i] \in Nat
    BY DEF TypeOK
  <2>2. ~(readers[i] + writers[i] > 0)
    BY DEF pipe, Used
  <2> QED
    BY <2>1, <2>2
<1>2. Holders(key_r(i)) = {} /\ Holders(key_w(i)) = {}
  <2>1. Cardinality(Holders(key_r(i))) = 0 /\ Cardinality(Holders(key_w(i))) = 0
    BY <1>1 DEF RefsExact
  <2>2. \A S : IsFiniteSet(S) => (Cardinality(S) = 0 <=> S = {})
    BY FS_EmptySet
  <2> QED
    BY <2>1, <2>2, HoldersFinite
<1>3. fds' = [fds EXCEPT ![p] = @ \cup {key_r(i), key_w(i)}]
  BY DEF pipe
<1>4. /\ Holders(key_r(i))' = Holders(key_r(i)) \cup {p} /\ p \notin Holders(key_r(i))
      /\ Holders(key_w(i))' = Holders(key_w(i)) \cup {p} /\ p \notin Holders(key_w(i))
  BY <1>2, <1>3 DEF Holders, TypeOK
<1>5. \A j \in Pipes \ {i} : /\ Holders(key_r(j))' = Holders(key_r(j))
                             /\ Holders(key_w(j))' = Holders(key_w(j))
  BY <1>3, KeyShape DEF Holders, TypeOK
<1>6. readers' = [readers EXCEPT ![i] = 1] /\ writers' = [writers EXCEPT ![i] = 1]
  BY DEF pipe
<1>7. RefsExact'
  <2> SUFFICES ASSUME NEW j \in Pipes
               PROVE  /\ readers'[j] = Cardinality(Holders(key_r(j))')
                      /\ writers'[j] = Cardinality(Holders(key_w(j))')
    BY DEF RefsExact, key_r, key_w
  <2>1. CASE j = i
    <3>1. Cardinality(Holders(key_r(i))) = 0 /\ Cardinality(Holders(key_w(i))) = 0
      BY <1>1 DEF RefsExact
    <3>2. /\ Cardinality(Holders(key_r(i))') = Cardinality(Holders(key_r(i))) + 1
          /\ Cardinality(Holders(key_w(i))') = Cardinality(Holders(key_w(i))) + 1
      BY <1>4, HoldersChange
    <3>3. readers'[i] = 1 /\ writers'[i] = 1
      BY <1>6 DEF TypeOK
    <3> QED
      BY <2>1, <3>1, <3>2, <3>3
  <2>2. CASE j # i
    BY <2>2, <1>5, <1>6 DEF RefsExact, TypeOK
  <2> QED
    BY <2>1, <2>2
<1>8. TypeOK'
  <2>1. IoTypeOK' /\ call' \in [Procs -> ({"read", "write"} \X Pipes) \cup {NoCall}]
    BY DoneTypes DEF pipe
  <2>2. len' \in [Pipes -> 0 .. Cap]
    BY PipeAssumption DEF pipe, TypeOK
  <2> QED
    BY <2>1, <2>2, <1>3, <1>6, KeyShape DEF TypeOK
<1>9. DeadHasNone'
  BY <1>3, DoneTypes DEF pipe, DeadHasNone, MayCall, TypeOK
<1> QED
  BY <1>7, <1>8, <1>9

\* Reads and writes leave the descriptors alone.
LEMMA TransferCounts ==
    ASSUME CountInv, NEW p \in Procs, NEW i \in Pipes, pipe_read(p, i) \/ pipe_write(p, i)
    PROVE  CountInv'
<1> USE DEF CountInv
<1>1. UNCHANGED <<readers, writers, fds>>
  BY DEF pipe_read, pipe_write
<1>2. RefsExact'
  BY <1>1 DEF RefsExact, Holders
<1>3. len' \in [Pipes -> 0 .. Cap]
  <2>1. CASE pipe_read(p, i)
    BY <2>1, PipeAssumption DEF pipe_read, TypeOK
  <2>2. CASE pipe_write(p, i)
    BY <2>2, PipeAssumption DEF pipe_write, TypeOK
  <2> QED
    BY <2>1, <2>2
<1>4. key_r(i) \in Keys /\ key_w(i) \in Keys /\ <<"read", i>> \in {"read", "write"} \X Pipes
      /\ <<"write", i>> \in {"read", "write"} \X Pipes
  BY KeyShape
<1>5. \/ Done(p) /\ (NoWake \/ push_wake({key_w(i)}) \/ push_wake({key_r(i)}))
      \/ would_block(p, <<"read", i>>, key_r(i))
      \/ would_block(p, <<"write", i>>, key_w(i))
  BY DEF pipe_read, pipe_write
<1>6. /\ IoTypeOK'
      /\ call' \in [Procs -> ({"read", "write"} \X Pipes) \cup {NoCall}]
      /\ \A q \in Procs : pc'[q] \in {"exit", "dead"} => pc[q] \in {"exit", "dead"}
  <2>1. CASE Done(p) /\ NoWake
    BY <2>1, DoneTypes
  <2>2. CASE Done(p) /\ push_wake({key_w(i)})
    BY <2>2, <1>4, DoneTypes
  <2>3. CASE Done(p) /\ push_wake({key_r(i)})
    BY <2>3, <1>4, DoneTypes
  <2>4. CASE would_block(p, <<"read", i>>, key_r(i))
    BY <2>4, <1>4, BlockTypes
  <2>5. CASE would_block(p, <<"write", i>>, key_w(i))
    BY <2>5, <1>4, BlockTypes
  <2> QED
    BY <1>5, <2>1, <2>2, <2>3, <2>4, <2>5
<1> QED
  BY <1>1, <1>2, <1>3, <1>6 DEF TypeOK, DeadHasNone

\* Dropping the descriptors E of a process that has them.
LEMMA DropCounts ==
    ASSUME CountInv, NEW p \in Procs, NEW E \in SUBSET fds[p], drop_refs(E),
           fds' = [fds EXCEPT ![p] = @ \ E]
    PROVE  /\ RefsExact'
           /\ readers' \in [Pipes -> Nat]
           /\ writers' \in [Pipes -> Nat]
           /\ len' \in [Pipes -> 0 .. Cap]
<1> USE DEF CountInv
<1>1. \A j \in Pipes :
         /\ readers'[j] = IF key_r(j) \in E THEN readers[j] - 1 ELSE readers[j]
         /\ writers'[j] = IF key_w(j) \in E THEN writers[j] - 1 ELSE writers[j]
  BY DEF drop_refs
<1>2. \A e \in Keys : /\ e \in E => Holders(e)' = Holders(e) \ {p} /\ p \in Holders(e)
                      /\ e \notin E => Holders(e)' = Holders(e)
  BY DEF Holders, TypeOK
<1>3. ASSUME NEW j \in Pipes
      PROVE  /\ readers'[j] = Cardinality(Holders(key_r(j))')
             /\ writers'[j] = Cardinality(Holders(key_w(j))')
             /\ readers'[j] \in Nat
             /\ writers'[j] \in Nat
  <2>1. readers'[j] = Cardinality(Holders(key_r(j))')
    <3>1. key_r(j) \in Keys
      BY KeyShape
    <3> QED
      BY <1>1, <1>2, <3>1, HoldersChange DEF RefsExact
  <2>2. writers'[j] = Cardinality(Holders(key_w(j))')
    <3>1. key_w(j) \in Keys
      BY KeyShape
    <3> QED
      BY <1>1, <1>2, <3>1, HoldersChange DEF RefsExact
  <2> QED
    BY <2>1, <2>2, HoldersFiniteNext
<1>4. RefsExact'
  BY <1>3 DEF RefsExact, key_r, key_w
<1>5. readers' \in [Pipes -> Nat] /\ writers' \in [Pipes -> Nat]
  BY <1>3 DEF drop_refs
<1>6. len' \in [Pipes -> 0 .. Cap]
  BY PipeAssumption DEF drop_refs, TypeOK
<1> QED
  BY <1>4, <1>5, <1>6

\* close: one descriptor of one process less, and one off its counter.
LEMMA CloseCounts ==
    ASSUME CountInv, NEW p \in Procs, NEW e \in Keys, close(p, e)
    PROVE  CountInv'
<1> USE DEF CountInv
<1>1. e \in fds[p] /\ drop_refs({e}) /\ fds' = [fds EXCEPT ![p] = @ \ {e}] /\ Done(p)
  BY DEF close
<1>2. push_wake({OtherEnd(x) : x \in {e}}) /\ {OtherEnd(x) : x \in {e}} \in SUBSET Keys
  BY <1>1, KeyShape DEF drop_refs
<1>3. /\ IoTypeOK'
      /\ call' \in [Procs -> ({"read", "write"} \X Pipes) \cup {NoCall}]
      /\ \A q \in Procs : pc'[q] \in {"exit", "dead"} => pc[q] \in {"exit", "dead"}
  BY <1>1, <1>2, DoneTypes
<1>4. fds' \in [Procs -> SUBSET Keys]
  BY <1>1 DEF TypeOK
<1>5. RefsExact' /\ readers' \in [Pipes -> Nat] /\ writers' \in [Pipes -> Nat]
      /\ len' \in [Pipes -> 0 .. Cap]
  BY <1>1, DropCounts
<1>6. DeadHasNone'
  BY <1>1, <1>3 DEF DeadHasNone, TypeOK
<1> QED
  BY <1>3, <1>4, <1>5, <1>6 DEF TypeOK

\* The end of a process: all its descriptors at once.
LEMMA ReleaseCounts ==
    ASSUME CountInv, NEW p \in Procs, release(p)
    PROVE  CountInv'
<1> USE DEF CountInv
<1>1. drop_refs(fds[p]) /\ fds' = [fds EXCEPT ![p] = {}] /\ StartExit(p)
  BY DEF release
<1>2. fds' = [fds EXCEPT ![p] = @ \ fds[p]]
  BY <1>1 DEF TypeOK
<1>3. RefsExact' /\ readers' \in [Pipes -> Nat] /\ writers' \in [Pipes -> Nat]
      /\ len' \in [Pipes -> 0 .. Cap]
  BY <1>1, <1>2, DropCounts
<1>4. push_wake({OtherEnd(x) : x \in fds[p]}) /\ {OtherEnd(x) : x \in fds[p]} \in SUBSET Keys
  BY <1>1, KeyShape DEF drop_refs, TypeOK
<1>5. pending' \in SUBSET Keys
  BY <1>4, EnqueueType DEF push_wake
<1>6. moved' \in [Procs -> BOOLEAN]
  BY <1>4 DEF push_wake, Bump, TypeOK, IoTypeOK
<1>7. TypeOK'
  BY <1>1, <1>3, <1>5, <1>6 DEF TypeOK, IoTypeOK, StartExit, PCs
<1>8. DeadHasNone'
  BY <1>1 DEF DeadHasNone, StartExit, TypeOK, IoTypeOK
<1> QED
  BY <1>3, <1>7, <1>8

\* fork: the child had nothing and gets a copy of what the caller has.
LEMMA CloneCounts ==
    ASSUME CountInv, NEW p \in Procs, NEW q \in Procs, clone_table(p, q)
    PROVE  CountInv'
<1> USE DEF CountInv
<1>1. fds[q] = {} /\ fds' = [fds EXCEPT ![q] = fds[p]]
  BY DEF clone_table, DeadHasNone
<1>2. \A e \in Keys :
         /\ e \in fds[p] => Holders(e)' = Holders(e) \cup {q} /\ q \notin Holders(e)
         /\ e \notin fds[p] => Holders(e)' = Holders(e)
  BY <1>1 DEF Holders, TypeOK
<1>3. \A j \in Pipes :
         /\ readers'[j] = IF key_r(j) \in fds[p] THEN readers[j] + 1 ELSE readers[j]
         /\ writers'[j] = IF key_w(j) \in fds[p] THEN writers[j] + 1 ELSE writers[j]
  BY DEF clone_table
<1>4. ASSUME NEW j \in Pipes
      PROVE  /\ readers'[j] = Cardinality(Holders(key_r(j))')
             /\ writers'[j] = Cardinality(Holders(key_w(j))')
  <2>1. readers'[j] = Cardinality(Holders(key_r(j))')
    <3>1. CASE key_r(j) \in fds[p]
      <4>1. Holders(key_r(j))' = Holders(key_r(j)) \cup {q} /\ q \notin Holders(key_r(j))
        BY <3>1, <1>2, KeyShape DEF key_r
      <4>2. Cardinality(Holders(key_r(j))') = Cardinality(Holders(key_r(j))) + 1
        BY <4>1, HoldersChange
      <4> QED
        BY <3>1, <4>2, <1>3 DEF RefsExact
    <3>2. CASE key_r(j) \notin fds[p]
      BY <3>2, <1>2, <1>3, KeyShape DEF RefsExact, key_r
    <3> QED
      BY <3>1, <3>2
  <2>2. writers'[j] = Cardinality(Holders(key_w(j))')
    <3>1. CASE key_w(j) \in fds[p]
      <4>1. Holders(key_w(j))' = Holders(key_w(j)) \cup {q} /\ q \notin Holders(key_w(j))
        BY <3>1, <1>2, KeyShape DEF key_w
      <4>2. Cardinality(Holders(key_w(j))') = Cardinality(Holders(key_w(j))) + 1
        BY <4>1, HoldersChange
      <4> QED
        BY <3>1, <4>2, <1>3 DEF RefsExact
    <3>2. CASE key_w(j) \notin fds[p]
      BY <3>2, <1>2, <1>3, KeyShape DEF RefsExact, key_w
    <3> QED
      BY <3>1, <3>2
  <2> QED
    BY <2>1, <2>2
<1>5. RefsExact'
  BY <1>4 DEF RefsExact, key_r, key_w
<1>6. TypeOK'
  BY <1>1 DEF TypeOK, IoTypeOK, clone_table, PCs
<1>7. DeadHasNone'
  BY <1>1 DEF DeadHasNone, TypeOK, IoTypeOK, clone_table, MayCall
<1> QED
  BY <1>5, <1>6, <1>7

\* Every step keeps the counters.
LEMMA CountStep == CountInv /\ [Next]_vars => CountInv'
<1> SUFFICES ASSUME CountInv, [Next]_vars PROVE CountInv'
  OBVIOUS
<1>1. CASE UNCHANGED vars
  BY <1>1 DEF CountInv, TypeOK, IoTypeOK, RefsExact, Holders, DeadHasNone, vars, ioVars, pipeVars
<1>2. ASSUME NEW p \in Procs, Protocol(p) PROVE CountInv'
  BY <1>2, ProtocolTypes
<1>3. ASSUME NEW p \in Procs, release(p) PROVE CountInv'
  BY <1>3, ReleaseCounts
<1>4. ASSUME NEW p \in Procs, NEW i \in Pipes, pipe(p, i) PROVE CountInv'
  BY <1>4, PipeCounts
<1>5. ASSUME NEW p \in Procs, NEW i \in Pipes, pipe_read(p, i) \/ pipe_write(p, i) PROVE CountInv'
  BY <1>5, TransferCounts
<1>6. ASSUME NEW p \in Procs, NEW e \in Keys, close(p, e) PROVE CountInv'
  BY <1>6, CloseCounts
<1>7. ASSUME NEW p \in Procs, NEW q \in Procs, clone_table(p, q) PROVE CountInv'
  BY <1>7, CloneCounts
<1> QED
  BY <1>1, <1>2, <1>3, <1>4, <1>5, <1>6, <1>7 DEF Next

\* The boot state has no descriptor and no pipe.
LEMMA CountInit == Init => CountInv
<1> SUFFICES ASSUME Init PROVE CountInv
  OBVIOUS
<1>1. \A e : Holders(e) = {}
  BY DEF Init, Holders
<1>2. RefsExact
  BY <1>1, FS_EmptySet DEF RefsExact, Init
<1> QED
  BY <1>2, PipeAssumption DEF CountInv, TypeOK, IoTypeOK, DeadHasNone, Init, IoInit, PCs

\* The invariant of the counters, for every behaviour.
LEMMA CountAlways == Spec => []CountInv
<1> QED
  BY CountInit, CountStep, PTL DEF Spec

\* Type correctness of the pipes and of the wait protocol: in particular no
\* counter of descriptors is ever decremented below zero.
THEOREM PipeTypes == Spec => []TypeOK
<1>1. CountInv => TypeOK
  BY DEF CountInv
<1> QED
  BY <1>1, CountAlways, PTL

\* The counters of a pipe are exactly the descriptors open on its ends, for
\* any number of processes that fork, close and die.
THEOREM PipeRefsExact == Spec => []RefsExact
<1>1. CountInv => RefsExact
  BY DEF CountInv
<1> QED
  BY <1>1, CountAlways, PTL

-----------------------------------------------------------------------------
(* No wake-up is lost, when PENDING has room for every key. *)

RoomForAll == Cardinality(Keys) <= PendingMax

\* push_wake drops nothing when PENDING has room for every key.
LEMMA EnqueueAll ==
    ASSUME RoomForAll, TypeOK, NEW K \in SUBSET Keys, Enqueue(K)
    PROVE  pending' = pending \cup K
<1>1. pending \cup K \in SUBSET Keys
  BY DEF TypeOK, IoTypeOK
<1>2. Cardinality(pending \cup K) \in Nat /\ Cardinality(pending \cup K) <= Cardinality(Keys)
  BY <1>1, IoWaitAssumption, FS_Subset, FS_CardinalityType
<1>3. Cardinality(Keys) \in Nat /\ PendingMax \in Nat
  BY IoWaitAssumption, FS_CardinalityType
<1>4. ~(Cardinality(pending \cup K) > PendingMax)
  BY <1>2, <1>3 DEF RoomForAll
<1> QED
  BY <1>4 DEF Enqueue

\* What a process does to its own place in the protocol when it ends a call
\* without a key, starts to die, or is born.
Leaves(q) == /\ pc[q] \in {"run", "IoWait", "dead"}
             /\ pc'[q] \in {"run", "flush", "exit"}
             /\ key'[q] = NoKey

\* An action that fires every key whose waiters it lets proceed loses
\* nobody: whoever sleeps has its key queued, whoever is about to sleep saw
\* the counter move.
LEMMA WakeStep ==
    ASSUME TypeOK, WakeInv, NEW K \in SUBSET Keys,
           pending' = pending \cup K,
           taken' = taken,
           \A q \in Procs : (pc'[q] = pc[q] /\ key'[q] = key[q]) \/ Leaves(q),
           \A q \in Procs : moved[q] \/ (key[q] \in K /\ pc[q] # "IoWait") => moved'[q],
           \A k \in Keys : Proceeds(k)' => Proceeds(k) \/ k \in K
    PROVE  WakeInv'
<1> USE DEF WakeInv
<1>1. KeysNoted'
  BY DEF KeysNoted, Leaves
<1>2. \A k \in Keys : OnItsWay(k) \/ k \in K => OnItsWay(k)'
  BY DEF OnItsWay, Leaves
<1>3. \A q \in Procs : pc'[q] \in {"wait", "fire", "IoWait"} => pc'[q] = pc[q] /\ key'[q] = key[q]
  BY DEF Leaves
<1>4. NoLostWakeup'
  <2> SUFFICES ASSUME NEW q \in Procs, pc'[q] = "IoWait", Proceeds(key[q])'
               PROVE  OnItsWay(key[q])'
    BY DEF NoLostWakeup
  <2>1. pc[q] = "IoWait" /\ key'[q] = key[q] /\ key[q] \in Keys
    BY <1>3 DEF KeysNoted
  <2>2. Proceeds(key[q]) \/ key[q] \in K
    BY <2>1 DEF Proceeds
  <2>3. OnItsWay(key[q]) \/ key[q] \in K
    BY <2>1, <2>2 DEF NoLostWakeup
  <2> QED
    BY <1>2, <2>1, <2>3 DEF OnItsWay
<1>5. NotedBeforeSleep'
  <2> SUFFICES ASSUME NEW q \in Procs, pc'[q] \in {"flush", "fire", "wait"},
                      key'[q] \in Keys, Proceeds(key[q])'
               PROVE  moved'[q]
    BY DEF NotedBeforeSleep
  <2>1. pc'[q] = pc[q] /\ key'[q] = key[q]
    BY SentinelsOK DEF Leaves
  <2>2. Proceeds(key[q]) \/ key[q] \in K
    BY <2>1 DEF Proceeds
  <2> QED
    BY <2>1, <2>2 DEF NotedBeforeSleep
<1> QED
  BY <1>1, <1>4, <1>5

\* What an action with push_wake or NoWake does to the queue.
LEMMA Pushed ==
    ASSUME RoomForAll, TypeOK, NEW K \in SUBSET Keys, push_wake(K)
    PROVE  /\ pending' = pending \cup K
           /\ \A q \in Procs : moved[q] \/ (key[q] \in K /\ pc[q] # "IoWait") => moved'[q]
  BY EnqueueAll DEF push_wake, Bump

\* The same for an action that queues nothing.
LEMMA NotPushed ==
    ASSUME TypeOK, NoWake
    PROVE  /\ pending' = pending \cup {}
           /\ \A q \in Procs : moved[q] \/ (key[q] \in {} /\ pc[q] # "IoWait") => moved'[q]
  BY DEF NoWake

\* A call that ends leaves the other processes where they were.
LEMMA DoneLeaves ==
    ASSUME TypeOK, NEW p \in Procs, pc[p] = "run", Done(p)
    PROVE  /\ taken' = taken
           /\ \A q \in Procs : (pc'[q] = pc[q] /\ key'[q] = key[q]) \/ Leaves(q)
  BY DEF Done, Leaves, TypeOK, IoTypeOK

\* A pipe just taken was unused: its ends proceeded already.
LEMMA PipeWakes ==
    ASSUME RoomForAll, CountInv, WakeInv, NEW p \in Procs, NEW i \in Pipes, pipe(p, i)
    PROVE  WakeInv'
<1>1. TypeOK /\ readers[i] = 0 /\ writers[i] = 0
  <2>1. readers[i] \in Nat /\ writers[i] \in Nat
    BY DEF CountInv, TypeOK
  <2>2. ~(readers[i] + writers[i] > 0)
    BY DEF pipe, Used
  <2> QED
    BY <2>1, <2>2 DEF CountInv
<1>2. pc[p] = "run" /\ Done(p) /\ NoWake
  BY DEF pipe, MayCall
<1>3. \A k \in Keys : Proceeds(k)' => Proceeds(k) \/ k \in {}
  <2> SUFFICES ASSUME NEW k \in Keys, Proceeds(k)' PROVE Proceeds(k)
    OBVIOUS
  <2>1. PICK j \in Pipes : k = key_r(j) \/ k = key_w(j)
    BY KeyShape
  <2>2. CASE j = i
    BY <2>1, <2>2, <1>1 DEF Proceeds, pipe, key_r, key_w, TypeOK
  <2>3. CASE j # i
    BY <2>1, <2>3, <1>1 DEF Proceeds, pipe, key_r, key_w, TypeOK
  <2> QED
    BY <2>2, <2>3
<1>4. {} \in SUBSET Keys
  OBVIOUS
<1> QED
  BY <1>1, <1>2, <1>3, <1>4, NotPushed, DoneLeaves, WakeStep

\* A call that must wait would not proceed when it notes its key.
LEMMA BlockWakes ==
    ASSUME TypeOK, WakeInv, NEW p \in Procs, NEW c, NEW k \in Keys, pc[p] = "run",
           would_block(p, c, k), ~Proceeds(k), UNCHANGED pipeVars
    PROVE  WakeInv'
<1> USE DEF WakeInv
<1>1. /\ pc' = [pc EXCEPT ![p] = "flush"]
      /\ key' = [key EXCEPT ![p] = k]
      /\ moved' = [moved EXCEPT ![p] = FALSE]
      /\ UNCHANGED <<pending, taken>>
  BY DEF would_block
<1>2. KeysNoted'
  BY <1>1 DEF KeysNoted, TypeOK, IoTypeOK
<1>3. NoLostWakeup'
  <2> SUFFICES ASSUME NEW q \in Procs, pc'[q] = "IoWait", Proceeds(key[q])'
               PROVE  OnItsWay(key[q])'
    BY DEF NoLostWakeup
  <2>1. q # p /\ pc[q] = "IoWait" /\ key'[q] = key[q]
    BY <1>1 DEF TypeOK, IoTypeOK
  <2>2. Proceeds(key[q])
    BY <2>1 DEF Proceeds, pipeVars
  <2>3. OnItsWay(key[q])
    BY <2>1, <2>2 DEF NoLostWakeup
  <2> QED
    BY <2>1, <2>3, <1>1 DEF OnItsWay, TypeOK, IoTypeOK
<1>4. NotedBeforeSleep'
  <2> SUFFICES ASSUME NEW q \in Procs, pc'[q] \in {"flush", "fire", "wait"},
                      key'[q] \in Keys, Proceeds(key[q])'
               PROVE  moved'[q]
    BY DEF NotedBeforeSleep
  <2>1. CASE q = p
    BY <2>1, <1>1 DEF Proceeds, pipeVars, TypeOK, IoTypeOK
  <2>2. CASE q # p
    <3>1. pc'[q] = pc[q] /\ key'[q] = key[q] /\ moved'[q] = moved[q]
      BY <2>2, <1>1 DEF TypeOK, IoTypeOK
    <3>2. Proceeds(key[q])
      BY <3>1 DEF Proceeds, pipeVars
    <3> QED
      BY <3>1, <3>2 DEF NotedBeforeSleep
  <2> QED
    BY <2>1, <2>2
<1> QED
  BY <1>2, <1>3, <1>4

\* A read makes room, a write brings data: each fires the other end's key.
LEMMA TransferWakes ==
    ASSUME RoomForAll, CountInv, WakeInv, NEW p \in Procs, NEW i \in Pipes,
           pipe_read(p, i) \/ pipe_write(p, i)
    PROVE  WakeInv'
<1>1. TypeOK /\ pc[p] = "run" /\ UNCHANGED <<readers, writers, fds>>
  BY DEF CountInv, pipe_read, pipe_write, MayCall
<1>2. key_r(i) \in Keys /\ key_w(i) \in Keys
  BY KeyShape
<1>3. CASE Done(p) /\ NoWake /\ UNCHANGED len
  <2>1. \A k \in Keys : Proceeds(k)' => Proceeds(k) \/ k \in {}
    BY <1>1, <1>3 DEF Proceeds
  <2>2. {} \in SUBSET Keys
    OBVIOUS
  <2> QED
    BY <1>1, <1>3, <2>1, <2>2, NotPushed, DoneLeaves, WakeStep
<1>4. CASE /\ len[i] = 0 /\ writers[i] > 0
           /\ would_block(p, <<"read", i>>, key_r(i)) /\ UNCHANGED len
  <2>1. ~Proceeds(key_r(i))
    BY <1>1, <1>4 DEF Proceeds, key_r, TypeOK
  <2> QED
    BY <1>1, <1>2, <1>4, <2>1, BlockWakes DEF pipeVars
<1>5. CASE /\ readers[i] > 0 /\ len[i] = Cap
           /\ would_block(p, <<"write", i>>, key_w(i)) /\ UNCHANGED len
  <2>1. ~Proceeds(key_w(i))
    BY <1>1, <1>5, PipeAssumption DEF Proceeds, key_w, TypeOK
  <2> QED
    BY <1>1, <1>2, <1>5, <2>1, BlockWakes DEF pipeVars
<1>6. CASE /\ \E n \in 1 .. len[i] : len' = [len EXCEPT ![i] = @ - n]
           /\ Done(p) /\ push_wake({key_w(i)})
  <2>1. \A k \in Keys : Proceeds(k)' => Proceeds(k) \/ k \in {key_w(i)}
    <3> SUFFICES ASSUME NEW k \in Keys, Proceeds(k)', k # key_w(i) PROVE Proceeds(k)
      OBVIOUS
    <3>1. PICK j \in Pipes : k = key_r(j) \/ k = key_w(j)
      BY KeyShape
    <3>2. PICK n \in 1 .. len[i] : len' = [len EXCEPT ![i] = @ - n]
      BY <1>6
    <3>3. len[i] \in Nat /\ len[j] \in Nat
      BY <1>1 DEF TypeOK
    <3>4. CASE k = key_r(j)
      BY <1>1, <3>2, <3>3, <3>4 DEF Proceeds, key_r, TypeOK
    <3>5. CASE k = key_w(j)
      BY <1>1, <3>2, <3>5 DEF Proceeds, key_w, TypeOK
    <3> QED
      BY <3>1, <3>4, <3>5
  <2>2. {key_w(i)} \in SUBSET Keys
    BY <1>2
  <2> QED
    BY <1>1, <1>6, <2>1, <2>2, Pushed, DoneLeaves, WakeStep
<1>7. CASE /\ \E n \in 1 .. Cap - len[i] : len' = [len EXCEPT ![i] = @ + n]
           /\ Done(p) /\ push_wake({key_r(i)})
  <2>1. \A k \in Keys : Proceeds(k)' => Proceeds(k) \/ k \in {key_r(i)}
    <3> SUFFICES ASSUME NEW k \in Keys, Proceeds(k)', k # key_r(i) PROVE Proceeds(k)
      OBVIOUS
    <3>1. PICK j \in Pipes : k = key_r(j) \/ k = key_w(j)
      BY KeyShape
    <3>2. PICK n \in 1 .. Cap - len[i] : len' = [len EXCEPT ![i] = @ + n]
      BY <1>7
    <3>3. len[i] \in Nat /\ len[j] \in Nat /\ Cap \in Nat
      BY <1>1, PipeAssumption DEF TypeOK
    <3>4. CASE k = key_r(j)
      BY <1>1, <3>2, <3>4 DEF Proceeds, key_r, TypeOK
    <3>5. CASE k = key_w(j)
      BY <1>1, <3>2, <3>3, <3>5 DEF Proceeds, key_w, TypeOK
    <3> QED
      BY <3>1, <3>4, <3>5
  <2>2. {key_r(i)} \in SUBSET Keys
    BY <1>2
  <2> QED
    BY <1>1, <1>7, <2>1, <2>2, Pushed, DoneLeaves, WakeStep
<1> QED
  BY <1>3, <1>4, <1>5, <1>6, <1>7 DEF pipe_read, pipe_write

\* Closing the ends E fires the keys of whoever waits on the other ends.
LEMMA DropProceeds ==
    ASSUME CountInv, NEW p \in Procs, NEW E \in SUBSET fds[p], drop_refs(E),
           fds' = [fds EXCEPT ![p] = @ \ E]
    PROVE  \A k \in Keys : Proceeds(k)' => Proceeds(k) \/ k \in {OtherEnd(e) : e \in E}
<1> SUFFICES ASSUME NEW k \in Keys, Proceeds(k)', k \notin {OtherEnd(e) : e \in E}
             PROVE  Proceeds(k)
  OBVIOUS
<1>1. PICK j \in Pipes : k = key_r(j) \/ k = key_w(j)
  BY KeyShape
<1>2. /\ readers'[j] = IF key_r(j) \in E THEN readers[j] - 1 ELSE readers[j]
      /\ writers'[j] = IF key_w(j) \in E THEN writers[j] - 1 ELSE writers[j]
      /\ len'[j] = IF readers'[j] = 0 /\ writers'[j] = 0 THEN 0 ELSE len[j]
  BY DEF drop_refs
<1>3. len[j] \in Nat /\ readers[j] \in Nat /\ writers[j] \in Nat
  BY DEF CountInv, TypeOK
<1>4. CASE k = key_r(j)
  <2>1. key_w(j) \notin E
    BY <1>4, KeyShape
  <2> QED
    BY <1>2, <1>3, <1>4, <2>1 DEF Proceeds, key_r
<1>5. CASE k = key_w(j)
  <2>1. key_r(j) \notin E
    BY <1>5, KeyShape
  <2> QED
    BY <1>2, <1>3, <1>5, <2>1 DEF Proceeds, key_w
<1> QED
  BY <1>1, <1>4, <1>5

\* close: whoever sleeps on the other end is told.
LEMMA CloseWakes ==
    ASSUME RoomForAll, CountInv, WakeInv, NEW p \in Procs, NEW e \in Keys, close(p, e)
    PROVE  WakeInv'
<1> DEFINE K == {OtherEnd(x) : x \in {e}}
<1>1. /\ TypeOK /\ pc[p] = "run" /\ e \in fds[p] /\ drop_refs({e})
      /\ fds' = [fds EXCEPT ![p] = @ \ {e}] /\ Done(p)
  BY DEF close, MayCall, CountInv
<1>2. push_wake(K) /\ K \in SUBSET Keys
  BY <1>1, KeyShape DEF drop_refs
<1>3. \A k \in Keys : Proceeds(k)' => Proceeds(k) \/ k \in K
  BY <1>1, DropProceeds
<1> HIDE DEF K
<1> QED
  BY <1>1, <1>2, <1>3, Pushed, DoneLeaves, WakeStep

\* The end of a process: whoever sleeps on the other ends is told.
LEMMA ReleaseWakes ==
    ASSUME RoomForAll, CountInv, WakeInv, NEW p \in Procs, release(p)
    PROVE  WakeInv'
<1> DEFINE K == {OtherEnd(x) : x \in fds[p]}
<1>1. /\ TypeOK /\ pc[p] \in {"run", "IoWait"} /\ drop_refs(fds[p])
      /\ fds' = [fds EXCEPT ![p] = @ \ fds[p]] /\ StartExit(p)
  BY DEF release, CanExit, CountInv, TypeOK
<1>2. push_wake(K) /\ K \in SUBSET Keys
  BY <1>1, KeyShape DEF drop_refs, TypeOK
<1>3. \A k \in Keys : Proceeds(k)' => Proceeds(k) \/ k \in K
  BY <1>1, DropProceeds
<1>4. /\ taken' = taken
      /\ \A q \in Procs : (pc'[q] = pc[q] /\ key'[q] = key[q]) \/ Leaves(q)
  BY <1>1 DEF StartExit, Leaves, TypeOK, IoTypeOK
<1> HIDE DEF K
<1> QED
  BY <1>1, <1>2, <1>3, <1>4, Pushed, WakeStep

\* fork only adds descriptors: nobody proceeds because of it.
LEMMA CloneWakes ==
    ASSUME CountInv, WakeInv, NEW p \in Procs, NEW q \in Procs, clone_table(p, q)
    PROVE  WakeInv'
<1>1. TypeOK /\ pc[p] = "run" /\ pc[q] = "dead" /\ key[p] = NoKey /\ key[q] = NoKey
  BY DEF CountInv, WakeInv, KeysNoted, clone_table, MayCall
<1>2. \A k \in Keys : Proceeds(k)' => Proceeds(k) \/ k \in {}
  <2> SUFFICES ASSUME NEW k \in Keys, Proceeds(k)' PROVE Proceeds(k)
    OBVIOUS
  <2>1. PICK j \in Pipes : k = key_r(j) \/ k = key_w(j)
    BY KeyShape
  <2>2. /\ readers[j] \in Nat /\ writers[j] \in Nat /\ len' = len
        /\ readers'[j] \in {readers[j], readers[j] + 1}
        /\ writers'[j] \in {writers[j], writers[j] + 1}
    BY <1>1 DEF clone_table, TypeOK
  <2> QED
    BY <2>1, <2>2 DEF Proceeds, key_r, key_w
<1>3. /\ pending' = pending \cup {} /\ taken' = taken
      /\ \A r \in Procs : moved[r] \/ (key[r] \in {} /\ pc[r] # "IoWait") => moved'[r]
  BY DEF clone_table
<1>4. \A r \in Procs : (pc'[r] = pc[r] /\ key'[r] = key[r]) \/ Leaves(r)
  BY <1>1 DEF clone_table, Leaves, TypeOK, IoTypeOK
<1>5. {} \in SUBSET Keys
  OBVIOUS
<1> QED
  BY <1>1, <1>2, <1>3, <1>4, <1>5, WakeStep

\* The protocol: keys move from PENDING to the one that fires them, and only
\* the firing of a key takes it away.
LEMMA ProtocolWakes ==
    ASSUME CountInv, WakeInv, NEW p \in Procs, Protocol(p)
    PROVE  WakeInv'
<1> USE DEF WakeInv
<1>1. TypeOK /\ UNCHANGED <<len, readers, writers>>
  BY DEF CountInv, Protocol, pipeVars
<1>2. CASE take_wakes(p)
  <2>1. /\ pc[p] = "flush"
        /\ pc' = [pc EXCEPT ![p] = IF pending = {} THEN AfterFlush(p) ELSE "fire"]
        /\ taken' = [taken EXCEPT ![p] = pending] /\ pending' = {}
        /\ UNCHANGED <<key, moved>>
    BY <1>2 DEF take_wakes
  <2>2. AfterFlush(p) = IF key[p] = NoKey THEN "run" ELSE "wait"
    BY DEF AfterFlush
  <2>3. \A q \in Procs : q # p => pc'[q] = pc[q]
    BY <2>1 DEF TypeOK, IoTypeOK
  <2>4. pc'[p] \in {"run", "wait", "fire"} /\ (pc'[p] = "run" => key[p] = NoKey)
        /\ (pc'[p] = "wait" => key[p] # NoKey)
    BY <1>1, <2>1, <2>2 DEF TypeOK, IoTypeOK
  <2>5. KeysNoted'
    BY <1>1, <2>1, <2>3, <2>4 DEF KeysNoted, TypeOK, IoTypeOK
  <2>6. NoLostWakeup'
    <3> SUFFICES ASSUME NEW q \in Procs, pc'[q] = "IoWait", Proceeds(key[q])'
                 PROVE  OnItsWay(key[q])'
      BY DEF NoLostWakeup
    <3>1. pc[q] = "IoWait" /\ Proceeds(key[q])
      BY <1>1, <2>1, <2>3, <2>4 DEF Proceeds
    <3>2. OnItsWay(key[q])
      BY <3>1 DEF NoLostWakeup
    <3>3. CASE key[q] \in pending
      <4>1. pc'[p] = "fire" /\ key[q] \in taken'[p]
        BY <1>1, <2>1, <3>3 DEF TypeOK, IoTypeOK
      <4> QED
        BY <2>1, <4>1 DEF OnItsWay
    <3>4. CASE key[q] \notin pending
      <4>1. PICK r \in Procs : pc[r] = "fire" /\ key[q] \in taken[r]
        BY <3>2, <3>4 DEF OnItsWay
      <4>2. r # p /\ pc'[r] = "fire" /\ key[q] \in taken'[r]
        BY <1>1, <2>1, <2>3, <4>1 DEF TypeOK, IoTypeOK
      <4> QED
        BY <2>1, <4>2 DEF OnItsWay
    <3> QED
      BY <3>3, <3>4
  <2>7. NotedBeforeSleep'
    BY <1>1, <2>1, <2>3 DEF NotedBeforeSleep, Proceeds
  <2> QED
    BY <2>5, <2>6, <2>7
<1>3. CASE io_wake(p)
  <2>1. PICK k \in taken[p] :
           /\ taken' = [taken EXCEPT ![p] = @ \ {k}]
           /\ pc' = Awaken({k}, IF taken[p] = {k} THEN [pc EXCEPT ![p] = AfterFlush(p)] ELSE pc)
           /\ key' = ForgetKey({k})
    BY <1>3 DEF io_wake
  <2>2. pc[p] = "fire" /\ UNCHANGED <<moved, pending>>
    BY <1>3 DEF io_wake
  <2>3. \A q \in Procs : q # p =>
           /\ pc[q] = "IoWait" /\ key[q] = k => pc'[q] = "run" /\ key'[q] = NoKey
           /\ ~(pc[q] = "IoWait" /\ key[q] = k) => pc'[q] = pc[q] /\ key'[q] = key[q]
    BY <2>1 DEF Awaken, ForgetKey, TypeOK, IoTypeOK
  <2>4. /\ key'[p] = key[p]
        /\ taken[p] # {k} => pc'[p] = "fire"
        /\ taken[p] = {k} => pc'[p] = IF key[p] = NoKey THEN "run" ELSE "wait"
    BY <1>1, <2>1, <2>2 DEF Awaken, ForgetKey, AfterFlush, TypeOK, IoTypeOK
  <2>5. KeysNoted'
    BY <1>1, <2>2, <2>3, <2>4 DEF KeysNoted, TypeOK, IoTypeOK
  <2>6. NoLostWakeup'
    <3> SUFFICES ASSUME NEW q \in Procs, pc'[q] = "IoWait", Proceeds(key[q])'
                 PROVE  OnItsWay(key[q])'
      BY DEF NoLostWakeup
    <3>1. q # p /\ pc[q] = "IoWait" /\ key'[q] = key[q] /\ key[q] # k
      BY <2>3, <2>4
    <3>2. OnItsWay(key[q])
      BY <1>1, <3>1 DEF NoLostWakeup, Proceeds
    <3>3. CASE key[q] \in pending
      BY <2>2, <3>1, <3>3 DEF OnItsWay
    <3>4. CASE key[q] \notin pending
      <4>1. PICK r \in Procs : pc[r] = "fire" /\ key[q] \in taken[r]
        BY <3>2, <3>4 DEF OnItsWay
      <4>2. CASE r = p
        <5>1. taken[p] # {k} /\ key[q] \in taken'[p]
          BY <1>1, <2>1, <3>1, <4>1, <4>2 DEF TypeOK, IoTypeOK
        <5> QED
          BY <2>4, <3>1, <5>1 DEF OnItsWay
      <4>3. CASE r # p
        <5>1. pc'[r] = "fire" /\ key[q] \in taken'[r]
          BY <1>1, <2>1, <2>3, <4>1, <4>3 DEF TypeOK, IoTypeOK
        <5> QED
          BY <3>1, <5>1 DEF OnItsWay
      <4> QED
        BY <4>2, <4>3
    <3> QED
      BY <3>3, <3>4
  <2>7. NotedBeforeSleep'
    <3> SUFFICES ASSUME NEW q \in Procs, pc'[q] \in {"flush", "fire", "wait"},
                        key'[q] \in Keys, Proceeds(key[q])'
                 PROVE  moved'[q]
      BY DEF NotedBeforeSleep
    <3>1. key'[q] = key[q] /\ pc[q] \in {"flush", "fire", "wait"}
      BY <2>2, <2>3, <2>4
    <3> QED
      BY <1>1, <2>2, <3>1 DEF NotedBeforeSleep, Proceeds
  <2> QED
    BY <2>5, <2>6, <2>7
<1>4. CASE io_wait_until(p)
  <2>1. /\ pc[p] = "wait" /\ UNCHANGED <<pending, taken>>
        /\ moved' = [moved EXCEPT ![p] = FALSE]
        /\ \/ moved[p] /\ pc' = [pc EXCEPT ![p] = "run"] /\ key' = [key EXCEPT ![p] = NoKey]
           \/ ~moved[p] /\ pc' = [pc EXCEPT ![p] = "IoWait"] /\ key' = key
    BY <1>4 DEF io_wait_until
  <2>2. \A q \in Procs : q # p => pc'[q] = pc[q] /\ key'[q] = key[q] /\ moved'[q] = moved[q]
    BY <1>1, <2>1 DEF TypeOK, IoTypeOK
  <2>3. \/ pc'[p] = "run" /\ key'[p] = NoKey
        \/ pc'[p] = "IoWait" /\ key'[p] = key[p] /\ ~moved[p]
    BY <1>1, <2>1 DEF TypeOK, IoTypeOK
  <2>4. KeysNoted'
    BY <1>1, <2>1, <2>2, <2>3 DEF KeysNoted
  <2>5. NoLostWakeup'
    <3> SUFFICES ASSUME NEW q \in Procs, pc'[q] = "IoWait", Proceeds(key[q])'
                 PROVE  OnItsWay(key[q])'
      BY DEF NoLostWakeup
    <3>1. CASE q = p
      <4>1. key'[p] = key[p] /\ ~moved[p] /\ key[p] \in Keys
        BY <2>1, <2>3, <3>1 DEF KeysNoted
      <4>2. Proceeds(key[p])
        BY <1>1, <3>1, <4>1 DEF Proceeds
      <4> QED
        BY <2>1, <4>1, <4>2 DEF NotedBeforeSleep
    <3>2. CASE q # p
      <4>1. pc[q] = "IoWait" /\ key'[q] = key[q]
        BY <2>2, <3>2
      <4>2. OnItsWay(key[q])
        BY <1>1, <4>1 DEF NoLostWakeup, Proceeds
      <4>3. \A r \in Procs : pc[r] = "fire" => pc'[r] = "fire"
        BY <2>1, <2>2
      <4> QED
        BY <2>1, <4>1, <4>2, <4>3 DEF OnItsWay
    <3> QED
      BY <3>1, <3>2
  <2>6. NotedBeforeSleep'
    BY <1>1, <2>2, <2>3 DEF NotedBeforeSleep, Proceeds
  <2> QED
    BY <2>4, <2>5, <2>6
<1>5. CASE exit_flush(p)
  <2>1. /\ pc[p] = "exit" /\ UNCHANGED <<moved, taken>> /\ pending' = {}
        /\ pc' = [Awaken(pending, pc) EXCEPT ![p] = "dead"] /\ key' = ForgetKey(pending)
    BY <1>5 DEF exit_flush
  <2>2. \A q \in Procs : q # p =>
           /\ pc[q] = "IoWait" /\ key[q] \in pending => pc'[q] = "run" /\ key'[q] = NoKey
           /\ ~(pc[q] = "IoWait" /\ key[q] \in pending) => pc'[q] = pc[q] /\ key'[q] = key[q]
    BY <2>1 DEF Awaken, ForgetKey
  <2>3. pc'[p] = "dead" /\ key'[p] = key[p]
    BY <2>1 DEF Awaken, ForgetKey
  <2>4. KeysNoted'
    BY <2>1, <2>2, <2>3 DEF KeysNoted
  <2>5. NoLostWakeup'
    <3> SUFFICES ASSUME NEW q \in Procs, pc'[q] = "IoWait", Proceeds(key[q])'
                 PROVE  OnItsWay(key[q])'
      BY DEF NoLostWakeup
    <3>1. q # p /\ pc[q] = "IoWait" /\ key'[q] = key[q] /\ key[q] \notin pending
      BY <2>2, <2>3
    <3>2. OnItsWay(key[q])
      BY <1>1, <3>1 DEF NoLostWakeup, Proceeds
    <3>3. PICK r \in Procs : pc[r] = "fire" /\ key[q] \in taken[r]
      BY <3>1, <3>2 DEF OnItsWay
    <3>4. pc'[r] = "fire"
      BY <2>1, <2>2, <3>3
    <3> QED
      BY <2>1, <3>1, <3>3, <3>4 DEF OnItsWay
  <2>6. NotedBeforeSleep'
    BY <1>1, <2>1, <2>2, <2>3 DEF NotedBeforeSleep, Proceeds
  <2> QED
    BY <2>4, <2>5, <2>6
<1> QED
  BY <1>2, <1>3, <1>4, <1>5 DEF Protocol, IoNext

\* Every step keeps the wake-ups, as long as PENDING has room.
LEMMA WakeAlways == RoomForAll => ([Next]_vars /\ CountInv /\ WakeInv => WakeInv')
<1> SUFFICES ASSUME RoomForAll, [Next]_vars, CountInv, WakeInv PROVE WakeInv'
  OBVIOUS
<1>1. CASE UNCHANGED vars
  BY <1>1 DEF WakeInv, KeysNoted, NotedBeforeSleep, NoLostWakeup, Proceeds, OnItsWay,
              vars, ioVars, pipeVars
<1>2. ASSUME NEW p \in Procs, Protocol(p) PROVE WakeInv'
  BY <1>2, ProtocolWakes
<1>3. ASSUME NEW p \in Procs, release(p) PROVE WakeInv'
  BY <1>3, ReleaseWakes
<1>4. ASSUME NEW p \in Procs, NEW i \in Pipes, pipe(p, i) PROVE WakeInv'
  BY <1>4, PipeWakes
<1>5. ASSUME NEW p \in Procs, NEW i \in Pipes, pipe_read(p, i) \/ pipe_write(p, i) PROVE WakeInv'
  BY <1>5, TransferWakes
<1>6. ASSUME NEW p \in Procs, NEW e \in Keys, close(p, e) PROVE WakeInv'
  BY <1>6, CloseWakes
<1>7. ASSUME NEW p \in Procs, NEW q \in Procs, clone_table(p, q) PROVE WakeInv'
  BY <1>7, CloneWakes
<1> QED
  BY <1>1, <1>2, <1>3, <1>4, <1>5, <1>6, <1>7 DEF Next

\* No wake-up is lost on a pipe (would_block, io_wait_until, push_wake and
\* flush_wakes together), for any number of processes and pipes, provided
\* PENDING never overflows.
THEOREM PipeNoLostWakeup ==
    ASSUME RoomForAll
    PROVE  Spec => []NoLostWakeup
<1>1. Init => WakeInv
  BY DEF Init, IoInit, WakeInv, KeysNoted, NotedBeforeSleep, NoLostWakeup
<1>2. [Next]_vars /\ CountInv /\ WakeInv => WakeInv'
  BY WakeAlways
<1>3. WakeInv => NoLostWakeup
  BY DEF WakeInv
<1> QED
  BY <1>1, <1>2, <1>3, CountAlways, PTL DEF Spec

=============================================================================
