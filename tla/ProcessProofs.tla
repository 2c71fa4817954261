---------------------------- MODULE ProcessProofs ----------------------------
(***************************************************************************)
(* Proofs about Process, for every number of slots, CPUs and creations and *)
(* every set of system calls: its types, that a Running slot is on exactly *)
(* one CPU, that a send and a receive meet, that whoever waits in IPC      *)
(* waits for a process that exists, that the counts of the address spaces  *)
(* are right; and, for the system calls each theorem names, that vfork     *)
(* suspends its caller and that whoever waits for a child has one.         *)
(*                                                                         *)
(* Every action ends in Dispatch or in Return with a new table of states   *)
(* st and of partners `on`; the lemmas say what each action puts there and *)
(* what Dispatch and Return make of it.                                    *)
(***************************************************************************)
EXTENDS Process, FiniteSetTheorems, WellFoundedInduction, TLAPS

-----------------------------------------------------------------------------
(* The inductive invariant. *)

\* The variables of TypeOK, by what changes them.
WaitTypes ==
    /\ state \in [Slots -> States]
    /\ blocked_on \in [Slots -> Int]
    /\ partner_pid \in [Slots -> Int]
    /\ \A i \in Slots : state[i] \in Ipc => blocked_on[i] \in Slots
    /\ redo \in [Slots -> BOOLEAN]
    /\ timed \in [Slots -> BOOLEAN]
    /\ due \in [Slots -> BOOLEAN]

CpuTypes ==
    /\ current \in [Cpus -> Slots \cup {IDLE}]
    /\ rr_next \in Slots
    /\ mode \in [Cpus -> {"user", "syscall", "timer"}]

SpaceTypes ==
    /\ mm \in [Slots -> Slots]
    /\ members \in [Slots -> Nat]
    /\ root \in [Slots -> Nat]
    /\ tables \subseteq Nat

FamilyTypes ==
    /\ generation \in [Slots -> Nat]
    /\ leader \in [Slots -> Slots]
    /\ parent \in [Slots -> Int]
    /\ killed \in [Slots -> BOOLEAN]

VforkTypes ==
    /\ vfork_parent \in [Slots -> Slots \cup {IDLE}]
    /\ vfork_pid \in [Slots -> Int]

RingTypes ==
    /\ exits \in [0 .. ExitsMax - 1 -> [pid : Int, parent : Int]]
    /\ exits_next \in 0 .. ExitsMax - 1

Types == WaitTypes /\ CpuTypes /\ SpaceTypes /\ FamilyTypes /\ VforkTypes /\ RingTypes

\* Only a CPU that runs a program is in a trap of a program.
TrapOfProgram == \A c \in Cpus : mode[c] # "user" => current[c] # IDLE

\* What the scheduler rests on.
RunInv == Types /\ TrapOfProgram /\ RunningOnOneCpu

\* The parts are the type invariant.
LEMMA TypesAreTypeOK == (Types <=> TypeOK) /\ (Types <=> TypeOK)'
  BY DEF Types, WaitTypes, CpuTypes, SpaceTypes, FamilyTypes, VforkTypes, RingTypes, TypeOK

-----------------------------------------------------------------------------
(* Slots and the round robin. *)

\* Slots are numbers, finitely many, and no sentinel is one of them.
LEMMA SlotsOK ==
    /\ Slots \subseteq Nat
    /\ IsFiniteSet(Slots)
    /\ 0 \in Slots
    /\ IDLE \notin Slots /\ None \notin Slots
    /\ MaxProcs \in Nat \ {0}
<1>1. IsFiniteSet(0 .. MaxProcs - 1)
  BY ConstantsOK, FS_Interval
<1> QED
  BY <1>1, ConstantsOK DEF Slots, IDLE, None

\* A set of numbers that has a member has a smallest one.
LEMMA NatMin ==
    ASSUME NEW T, T \subseteq Nat, T # {}
    PROVE  \E m \in T : \A n \in T : m <= n
<1>1. \E x \in T : \A y \in T : ~ (<<y, x>> \in OpToRel(<, Nat))
  BY NatLessThanWellFounded, WFMin
<1>2. \A x, y \in T : x <= y \/ <<y, x>> \in OpToRel(<, Nat)
  BY DEF OpToRel
<1> QED
  BY <1>1, <1>2

\* The round robin finds a Ready slot if there is one.
LEMMA ChosenIs ==
    ASSUME NEW st, rr_next \in Slots
    PROVE  \/ Chosen(st) = IDLE /\ \A i \in Slots : st[i] # "Ready"
           \/ Chosen(st) \in Slots /\ st[Chosen(st)] = "Ready"
<1> DEFINE ready == {i \in Slots : st[i] = "Ready"}
           T == {Turn(i) : i \in ready}
<1>1. CASE ready = {}
  BY <1>1 DEF Chosen
<1>2. CASE ready # {}
  <2>1. \A i \in Slots : Turn(i) \in Nat
    BY SlotsOK DEF Turn, Slots
  <2>2. T \subseteq Nat /\ T # {}
    BY <1>2, <2>1
  <2>3. \E m \in T : \A n \in T : m <= n
    BY <2>2, NatMin
  <2>4. \E i \in ready : \A j \in ready : Turn(i) <= Turn(j)
    BY <2>3
  <2>5. Chosen(st) = CHOOSE i \in ready : \A j \in ready : Turn(i) <= Turn(j)
    BY <1>2 DEF Chosen
  <2>6. Chosen(st) \in ready
    BY <2>4, <2>5
  <2> QED
    BY <2>6
<1> QED
  BY <1>1, <1>2

\* A pid is a number.
LEMMA PidIsInt ==
    ASSUME Types
    PROVE  \A i \in Slots : Pid(i) \in Int
<1>1. \A i \in Slots : i \in Int /\ generation[i] - 1 \in Int
  BY SlotsOK DEF Types, FamilyTypes
<1> QED
  BY <1>1, SlotsOK DEF Pid

-----------------------------------------------------------------------------
(* Dispatch and Return. *)

\* A table that an action may ask for: states, and partners of who is in IPC.
Asked(st, on) ==
    /\ st \in [Slots -> States]
    /\ on \in [Slots -> Int]
    /\ \A i \in Slots : st[i] \in Ipc => on[i] \in Slots

\* The slot of CPU c stops running and nothing else does or starts to.
Leaves(c, st) ==
    \A i \in Slots : st[i] = "Running" <=> state[i] = "Running" /\ i # current[c]

\* Nobody stops or starts running.
Stays(st) ==
    \A i \in Slots : st[i] = "Running" <=> state[i] = "Running"

\* Settle keeps the types.
LEMMA SettleTypes ==
    ASSUME Types, NEW st, NEW on, NEW rd, NEW tm,
           rd \in [Slots -> BOOLEAN], tm \in [Slots -> BOOLEAN],
           Asked(st, on), Settle(st, on, rd, tm)
    PROVE  WaitTypes'
<1> USE DEF Settle, Asked
<1>1. state' \in [Slots -> States]
  OBVIOUS
<1>2. blocked_on' \in [Slots -> Int]
  BY DEF None
<1>3. partner_pid' \in [Slots -> Int]
  BY PidIsInt DEF None, Types, WaitTypes
<1>4. \A i \in Slots : state'[i] \in Ipc => blocked_on'[i] \in Slots
  OBVIOUS
<1>5. redo' \in [Slots -> BOOLEAN] /\ timed' \in [Slots -> BOOLEAN]
  OBVIOUS
<1>6. due' \in [Slots -> BOOLEAN]
  BY DEF Types, WaitTypes
<1> QED
  BY <1>1, <1>2, <1>3, <1>4, <1>5, <1>6 DEF WaitTypes

\* Dispatch runs on c a slot that no CPU was running.
LEMMA DispatchRuns ==
    ASSUME RunInv, NEW c \in Cpus, NEW st, NEW on, NEW rd, NEW tm,
           rd \in [Slots -> BOOLEAN], tm \in [Slots -> BOOLEAN],
           Asked(st, on), Leaves(c, st), Dispatch(c, st, on, rd, tm)
    PROVE  WaitTypes' /\ CpuTypes' /\ TrapOfProgram' /\ RunningOnOneCpu'
<1> DEFINE awake == wake_sleepers(st)
           next  == Chosen(awake)
           new   == [i \in Slots |-> IF i = next THEN "Running" ELSE awake[i]]
<1>1. /\ Settle(new, on, rd, tm)
      /\ current' = [current EXCEPT ![c] = next]
      /\ rr_next' = IF next = IDLE THEN rr_next ELSE (next + 1) % MaxProcs
      /\ mode' = [mode EXCEPT ![c] = "user"]
  BY DEF Dispatch
<1>2. /\ awake \in [Slots -> States]
      /\ \A i \in Slots : awake[i] = st[i] \/ awake[i] = "Ready"
      /\ \A i \in Slots : awake[i] = "Running" <=> st[i] = "Running"
  BY DEF wake_sleepers, Asked, States
<1>3. next = IDLE \/ (next \in Slots /\ awake[next] = "Ready")
  BY ChosenIs DEF RunInv, Types, CpuTypes
<1> HIDE DEF awake, next
<1>4. Asked(new, on)
  BY <1>2 DEF Asked, Ipc, States
<1>5. WaitTypes'
  BY <1>1, <1>4, SettleTypes DEF RunInv
<1>6. CpuTypes'
  <2>1. rr_next' \in Slots
    BY <1>1, <1>3, SlotsOK DEF Slots, RunInv, Types, CpuTypes
  <2> QED
    BY <1>1, <1>3, <2>1 DEF CpuTypes, RunInv, Types
<1>7. TrapOfProgram'
  BY <1>1 DEF TrapOfProgram, RunInv, Types, CpuTypes
<1>8. state' = new
  BY <1>1 DEF Settle
<1>9. \A i \in Slots : state'[i] = "Running" <=>
          i = next \/ (state[i] = "Running" /\ i # current[c])
  BY <1>2, <1>8 DEF Leaves
<1>10. next # IDLE => state[next] # "Running" \/ next = current[c]
  BY <1>2, <1>3 DEF Leaves
<1>11. \A d \in Cpus : current'[d] = IF d = c THEN next ELSE current[d]
  BY <1>1 DEF RunInv, Types, CpuTypes
<1>12. /\ \A d \in Cpus : current[d] \in Slots \cup {IDLE}
       /\ IDLE \notin Slots
  BY SlotsOK DEF RunInv, Types, CpuTypes
<1>13. RunningOnOneCpu
  BY DEF RunInv
<1>14. RunningOnOneCpu'
  BY <1>3, <1>9, <1>10, <1>11, <1>12, <1>13 DEF RunningOnOneCpu
<1> QED
  BY <1>5, <1>6, <1>7, <1>14

\* Return leaves every CPU with its slot.
LEMMA ReturnRuns ==
    ASSUME RunInv, NEW c \in Cpus, NEW st, NEW on,
           Asked(st, on), Stays(st), Return(c, st, on)
    PROVE  WaitTypes' /\ CpuTypes' /\ TrapOfProgram' /\ RunningOnOneCpu'
<1>1. Settle(st, on, redo, timed) /\ state' = st
  BY DEF Return, Settle
<1>2. WaitTypes'
  BY <1>1, SettleTypes DEF RunInv, Types, WaitTypes
<1>3. CpuTypes' /\ TrapOfProgram'
  BY DEF Return, RunInv, Types, CpuTypes, TrapOfProgram
<1>4. current' = current
  BY DEF Return
<1>5. \A d \in Cpus : current[d] \in Slots \cup {IDLE}
  BY DEF RunInv, Types, CpuTypes
<1>6. RunningOnOneCpu'
  BY <1>1, <1>4, <1>5 DEF RunInv, RunningOnOneCpu, Stays
<1> QED
  BY <1>2, <1>3, <1>6

\* A step that leaves spaces, families, vforks and the ring alone.
LEMMA RestUnchanged ==
    ASSUME Types, UNCHANGED <<space, ring, family, vfork, killed>>
    PROVE  SpaceTypes' /\ FamilyTypes' /\ VforkTypes' /\ RingTypes'
  BY DEF Types, SpaceTypes, FamilyTypes, VforkTypes, RingTypes, space, ring, family, vfork

-----------------------------------------------------------------------------
(* Termination. *)

\* The users left to a space are a number.
LEMMA LeftIsNat ==
    ASSUME Types, NEW X \in SUBSET Slots
    PROVE  \A m \in Slots : Left(X, m) \in Nat
<1> SUFFICES ASSUME NEW m \in Slots PROVE Left(X, m) \in Nat
  OBVIOUS
<1> DEFINE users == {x \in X : mm[x] = m}
<1>1. IsFiniteSet(users)
  BY SlotsOK, FS_Subset
<1>2. Cardinality(users) \in Nat
  BY <1>1, FS_CardinalityType
<1>3. members[m] \in Nat
  BY DEF Types, SpaceTypes
<1> HIDE DEF users
<1>4. Left(X, m) = IF Cardinality(users) >= members[m] THEN 0 ELSE members[m] - Cardinality(users)
  BY DEF Left, users
<1> QED
  BY <1>2, <1>3, <1>4

\* Dropping the spaces of the slots X keeps the types.
LEMMA DropSpacesTypes ==
    ASSUME Types, NEW X \in SUBSET Slots, DropSpaces(X)
    PROVE  SpaceTypes'
  BY LeftIsNat DEF DropSpaces, Types, SpaceTypes

\* Recording exits keeps the types.
LEMMA RecordExitTypes ==
    ASSUME Types, NEW D \in SUBSET Slots, RecordExit(D)
    PROVE  RingTypes'
<1>1. CASE \E l \in Ended(D) : Collectors(l) = {}
  <2> DEFINE l == CHOOSE x \in Ended(D) : Collectors(x) = {}
  <2>1. /\ exits' = [exits EXCEPT ![exits_next] = [pid |-> Pid(l), parent |-> parent[l]]]
        /\ exits_next' = (exits_next + 1) % ExitsMax
    BY <1>1 DEF RecordExit
  <2>2. l \in Slots
    BY <1>1 DEF Ended
  <2> HIDE DEF l
  <2>3. Pid(l) \in Int /\ parent[l] \in Int
    BY <2>2, PidIsInt DEF Types, FamilyTypes
  <2>4. exits_next' \in 0 .. ExitsMax - 1
    BY <2>1, ConstantsOK DEF Types, RingTypes
  <2> QED
    BY <2>1, <2>3, <2>4 DEF Types, RingTypes
<1>2. CASE ~ \E l \in Ended(D) : Collectors(l) = {}
  BY <1>2 DEF RecordExit, ring, Types, RingTypes
<1> QED
  BY <1>1, <1>2

\* Forgetting the vforks of the slots X keeps the types.
LEMMA ForgetVforkTypes ==
    ASSUME Types, NEW X, ForgetVfork(X)
    PROVE  VforkTypes'
  BY DEF ForgetVfork, Types, VforkTypes, IDLE, None

\* The rest of reap keeps the types.
LEMMA ReapTypes ==
    ASSUME Types, NEW D \in SUBSET Slots, NEW M, ReapEffects(D, M)
    PROVE  SpaceTypes' /\ FamilyTypes' /\ VforkTypes' /\ RingTypes'
<1>1. SpaceTypes'
  BY DropSpacesTypes DEF ReapEffects
<1>2. VforkTypes'
  BY ForgetVforkTypes DEF ReapEffects
<1>3. RingTypes'
  BY RecordExitTypes DEF ReapEffects
<1>4. killed' \in [Slots -> BOOLEAN]
  <2>1. killed \in [Slots -> BOOLEAN]
    BY DEF Types, FamilyTypes
  <2>2. \A i \in Slots : (IF i \in D THEN FALSE ELSE killed[i] \/ i \in M) \in BOOLEAN
    BY <2>1
  <2> QED
    BY <2>2 DEF ReapEffects
<1>5. FamilyTypes'
  BY <1>4 DEF ReapEffects, Types, FamilyTypes, family
<1> QED
  BY <1>1, <1>2, <1>3, <1>5

\* The states after a reap are states, and of the slots that ran exactly the
\* reaped ones stop: whoever reap wakes was blocked, and a space that goes
\* with its last user belonged to a Zombie.
LEMMA ReapedRuns ==
    ASSUME Types, NEW D \in SUBSET Slots
    PROVE  /\ Asked(Reaped(D), blocked_on)
           /\ \A i \in Slots : Reaped(D)[i] = "Running" <=> state[i] = "Running" /\ i \notin D
<1>1. /\ state \in [Slots -> States]
      /\ blocked_on \in [Slots -> Int]
      /\ \A i \in Slots : state[i] \in Ipc => blocked_on[i] \in Slots
  BY DEF Types, WaitTypes
<1>2. \A i \in Slots : i \in Freed(D) => i \in D \/ state[i] = "Zombie"
  BY DEF Freed
<1>3. \A i \in Slots : i \in VforkWoken(D) => state[i] = "VforkWait"
  BY DEF VforkWoken
<1>4. \A i \in Slots : (\E l \in Ended(D) : i \in ExitWoken(l)) => state[i] = "WaitChild"
  BY DEF ExitWoken, Waiters
<1>5. \A i \in Slots : Reaped(D)[i] \in {"Zombie", "Unused", "Ready"} \/ Reaped(D)[i] = state[i]
  BY DEF Reaped
<1>6. Asked(Reaped(D), blocked_on)
  <2>1. Reaped(D) \in [Slots -> States]
    BY <1>1 DEF Reaped, States
  <2> QED
    BY <1>1, <1>5, <2>1 DEF Asked, Ipc
<1>7. \A i \in Slots : Reaped(D)[i] = "Running" <=> state[i] = "Running" /\ i \notin D
  BY <1>2, <1>3, <1>4 DEF Reaped, Ipc
<1> QED
  BY <1>6, <1>7

\* What reap takes down besides the slot itself does not run.
LEMMA DoomedStopped ==
    ASSUME NEW s \in Slots
    PROVE  /\ Doomed(s) \in SUBSET Slots
           /\ s \in Doomed(s)
           /\ \A i \in Doomed(s) : i = s \/ state[i] # "Running"
  BY DEF Doomed, Stopped, OthersOf, Live

\* The current slot of c exits, with slots that do not run.
LEMMA ExitWithRuns ==
    ASSUME RunInv, NEW c \in Cpus, NEW D \in SUBSET Slots, NEW M,
           current[c] \in D, \A i \in D : i = current[c] \/ state[i] # "Running",
           ExitWith(c, D, M)
    PROVE  RunInv'
<1>1. Types
  BY DEF RunInv
<1>2. Asked(Reaped(D), blocked_on)
  BY <1>1, ReapedRuns
<1>3. Leaves(c, Reaped(D))
  BY <1>1, ReapedRuns DEF Leaves
<1>4. redo \in [Slots -> BOOLEAN] /\ timed \in [Slots -> BOOLEAN]
  BY <1>1 DEF Types, WaitTypes
<1>5. Dispatch(c, Reaped(D), blocked_on, redo, timed) /\ ReapEffects(D, M)
  BY DEF ExitWith
<1>6. WaitTypes' /\ CpuTypes' /\ TrapOfProgram' /\ RunningOnOneCpu'
  BY <1>2, <1>3, <1>4, <1>5, DispatchRuns
<1>7. SpaceTypes' /\ FamilyTypes' /\ VforkTypes' /\ RingTypes'
  BY <1>1, <1>5, ReapTypes
<1> QED
  BY <1>6, <1>7 DEF RunInv, Types

\* The current slot of c exits.
LEMMA ExitLockedRuns ==
    ASSUME RunInv, NEW c \in Cpus, current[c] # IDLE, exit_locked(c)
    PROVE  RunInv'
<1>1. current[c] \in Slots
  BY DEF RunInv, Types, CpuTypes
<1>2. ExitWith(c, Doomed(current[c]), Marked(current[c]))
  BY DEF exit_locked
<1> QED
  BY <1>1, <1>2, DoomedStopped, ExitWithRuns

\* The process of the current slot of c exits.
LEMMA ExitGroupRuns ==
    ASSUME RunInv, NEW c \in Cpus, current[c] # IDLE, exit_group(c)
    PROVE  RunInv'
<1> DEFINE s == current[c]
           l == leader[s]
<1>1. s \in Slots /\ l \in Slots
  BY DEF RunInv, Types, CpuTypes, FamilyTypes
<1>2. CASE exit_locked(c)
  BY <1>2, ExitLockedRuns
<1>3. CASE ExitWith(c, {s}, {l})
  <2>1. {s} \in SUBSET Slots
    BY <1>1
  <2> QED
    BY <1>3, <2>1, ExitWithRuns
<1>4. CASE state[l] # "Running" /\ ExitWith(c, Doomed(l) \cup {s}, Marked(l))
  <2>1. /\ Doomed(l) \in SUBSET Slots
        /\ \A i \in Doomed(l) : i = l \/ state[i] # "Running"
    BY <1>1, DoomedStopped
  <2>2. Doomed(l) \cup {s} \in SUBSET Slots
    BY <1>1, <2>1
  <2>3. \A i \in Doomed(l) \cup {s} : i = current[c] \/ state[i] # "Running"
    BY <1>4, <2>1
  <2> QED
    BY <1>4, <2>2, <2>3, ExitWithRuns
<1> QED
  BY <1>2, <1>3, <1>4 DEF exit_group

-----------------------------------------------------------------------------
(* Every action keeps RunInv. *)

\* The slot in the kernel half of a trap is one that runs.
LEMMA CallerRuns ==
    ASSUME RunInv, NEW c \in Cpus, mode[c] # "user"
    PROVE  current[c] \in Slots /\ state[current[c]] = "Running"
  BY DEF RunInv, Types, CpuTypes, TrapOfProgram, RunningOnOneCpu

\* The table as it is can be asked for.
LEMMA SameAsked ==
    ASSUME Types
    PROVE  /\ Asked(state, blocked_on)
           /\ Stays(state)
           /\ redo \in [Slots -> BOOLEAN]
           /\ timed \in [Slots -> BOOLEAN]
  BY DEF Types, WaitTypes, Asked, Stays

\* A step of the scheduler that leaves the rest alone keeps RunInv.
LEMMA OnlyScheduler ==
    ASSUME RunInv, WaitTypes' /\ CpuTypes' /\ TrapOfProgram' /\ RunningOnOneCpu',
           UNCHANGED <<space, ring, family, vfork, killed>>
    PROVE  RunInv'
<1>1. Types
  BY DEF RunInv
<1>2. SpaceTypes' /\ FamilyTypes' /\ VforkTypes' /\ RingTypes'
  BY <1>1, RestUnchanged
<1> QED
  BY <1>2 DEF RunInv, Types

\* The current slot of c blocks in state x, waiting for b.
LEMMA BlockRuns ==
    ASSUME RunInv, NEW c \in Cpus, mode[c] # "user",
           NEW x \in States \ {"Running"}, NEW b \in Int, x \in Ipc => b \in Slots,
           NEW rd \in [Slots -> BOOLEAN], NEW tm \in [Slots -> BOOLEAN], NEW on,
           on = [blocked_on EXCEPT ![current[c]] = b] \/ (x \notin Ipc /\ on = blocked_on),
           Block(c, [state EXCEPT ![current[c]] = x], on, rd, tm)
    PROVE  WaitTypes' /\ CpuTypes' /\ TrapOfProgram' /\ RunningOnOneCpu'
<1> DEFINE st == [state EXCEPT ![current[c]] = x]
<1>1. current[c] \in Slots /\ state[current[c]] = "Running"
  BY CallerRuns
<1>2. /\ state \in [Slots -> States]
      /\ blocked_on \in [Slots -> Int]
      /\ \A i \in Slots : state[i] \in Ipc => blocked_on[i] \in Slots
  BY DEF RunInv, Types, WaitTypes
<1>3. Asked(st, on)
  BY <1>1, <1>2 DEF Asked
<1>4. Leaves(c, st)
  BY <1>1, <1>2 DEF Leaves
<1>5. Dispatch(c, st, on, rd, tm)
  BY DEF Block
<1> QED
  BY <1>3, <1>4, <1>5, DispatchRuns

\* One slot that does not run becomes x, and the caller goes on.
LEMMA ReturnWithRuns ==
    ASSUME RunInv, NEW c \in Cpus, NEW i \in Slots, state[i] # "Running",
           NEW x \in States \ {"Running"}, NEW b \in Int, x \in Ipc => b \in Slots, NEW on,
           on = [blocked_on EXCEPT ![i] = b] \/ (x \notin Ipc /\ on = blocked_on),
           Return(c, [state EXCEPT ![i] = x], on)
    PROVE  WaitTypes' /\ CpuTypes' /\ TrapOfProgram' /\ RunningOnOneCpu'
<1> DEFINE st == [state EXCEPT ![i] = x]
<1>1. /\ state \in [Slots -> States]
      /\ blocked_on \in [Slots -> Int]
      /\ \A j \in Slots : state[j] \in Ipc => blocked_on[j] \in Slots
  BY DEF RunInv, Types, WaitTypes
<1>2. Asked(st, on)
  BY <1>1 DEF Asked
<1>3. Stays(st)
  BY <1>1 DEF Stays
<1> QED
  BY <1>2, <1>3, ReturnRuns

\* Trap entries.
LEMMA EnterRuns ==
    ASSUME RunInv, NEW c \in Cpus, NEW half \in {"syscall", "timer"}, Enter(c, half)
    PROVE  RunInv'
<1>1. CASE exit_locked(c)
  BY <1>1, ExitLockedRuns DEF Enter
<1>2. CASE /\ mode' = [mode EXCEPT ![c] = half]
           /\ UNCHANGED <<space, ring, family, waits, vfork, killed, current, rr_next>>
  <2>1. current[c] # IDLE
    BY DEF Enter
  <2>2. WaitTypes' /\ RunningOnOneCpu'
    BY <1>2 DEF RunInv, Types, WaitTypes, RunningOnOneCpu, waits
  <2>3. CpuTypes' /\ TrapOfProgram'
    BY <1>2, <2>1 DEF RunInv, Types, CpuTypes, TrapOfProgram
  <2> QED
    BY <1>2, <2>2, <2>3, OnlyScheduler
<1> QED
  BY <1>1, <1>2 DEF Enter

\* A timer on an idle CPU.
LEMMA IdleTickRuns ==
    ASSUME RunInv, NEW c \in Cpus, IdleTick(c)
    PROVE  RunInv'
<1>1. Types
  BY DEF RunInv
<1>2. Leaves(c, state)
  BY SlotsOK DEF IdleTick, Leaves
<1>3. Dispatch(c, state, blocked_on, redo, timed)
  BY DEF IdleTick
<1>4. WaitTypes' /\ CpuTypes' /\ TrapOfProgram' /\ RunningOnOneCpu'
  BY <1>1, <1>2, <1>3, SameAsked, DispatchRuns
<1> QED
  BY <1>4, OnlyScheduler DEF IdleTick

\* The current slot goes back to Ready.
LEMMA RescheduleRuns ==
    ASSUME RunInv, NEW c \in Cpus, mode[c] # "user", Reschedule(c)
    PROVE  WaitTypes' /\ CpuTypes' /\ TrapOfProgram' /\ RunningOnOneCpu'
<1> DEFINE st == [i \in Slots |-> IF i = current[c] /\ state[i] = "Running"
                                  THEN "Ready" ELSE state[i]]
<1>1. Types
  BY DEF RunInv
<1>2. Asked(st, blocked_on)
  BY <1>1 DEF Types, WaitTypes, Asked, States, Ipc
<1>3. Leaves(c, st)
  BY DEF Leaves
<1>4. Dispatch(c, st, blocked_on, redo, timed)
  BY DEF Reschedule
<1> QED
  BY <1>1, <1>2, <1>3, <1>4, SameAsked, DispatchRuns

\* Preemption and sched_yield.
LEMMA PreemptRuns ==
    ASSUME RunInv, NEW c \in Cpus, Preempt(c) \/ Yield(c)
    PROVE  RunInv'
<1>1. mode[c] # "user" /\ Reschedule(c) /\ UNCHANGED <<space, ring, family, vfork, killed>>
  BY DEF Preempt, Yield, Calls
<1> QED
  BY <1>1, RescheduleRuns, OnlyScheduler

\* A deadline that passes wakes nobody yet.
LEMMA DeadlineRuns ==
    ASSUME RunInv, NEW s \in Slots, Deadline(s)
    PROVE  RunInv'
<1>1. WaitTypes'
  BY DEF Deadline, RunInv, Types, WaitTypes
<1>2. CpuTypes' /\ TrapOfProgram' /\ RunningOnOneCpu'
  BY DEF Deadline, RunInv, Types, CpuTypes, TrapOfProgram, RunningOnOneCpu, cpu
<1> QED
  BY <1>1, <1>2, OnlyScheduler DEF Deadline

\* A call without effect.
LEMMA NullRuns ==
    ASSUME RunInv, NEW c \in Cpus, Null(c)
    PROVE  RunInv'
<1>1. Types
  BY DEF RunInv
<1>2. WaitTypes' /\ CpuTypes' /\ TrapOfProgram' /\ RunningOnOneCpu'
  BY <1>1, SameAsked, ReturnRuns DEF Null
<1> QED
  BY <1>2, OnlyScheduler DEF Null

\* What a new slot starts with keeps the types.
LEMMA NewSlotTypes ==
    ASSUME Types, NEW i \in Slots, NEW l \in Slots, NEW par \in Int, NewSlot(i, l, par)
    PROVE  FamilyTypes'
  BY DEF NewSlot, Types, FamilyTypes

\* A new slot joins the space of a slot that runs.
LEMMA JoinSpaceTypes ==
    ASSUME Types, NEW c \in Cpus, current[c] \in Slots, NEW i \in Slots, JoinSpace(c, i)
    PROVE  SpaceTypes'
<1>1. mm[current[c]] \in Slots
  BY DEF Types, SpaceTypes
<1> QED
  BY <1>1 DEF JoinSpace, Types, SpaceTypes

\* Page tables are numbers.
LEMMA RootsAreNat == \A i \in Slots : \A r \in RootsOf(i) : r \in Nat
  BY SlotsOK DEF RootsOf

\* A new process.
LEMMA CreateRuns ==
    ASSUME RunInv, NEW c \in Cpus, Create(c)
    PROVE  RunInv'
<1>1. PICK i \in Slots :
          /\ FreeSlot(i)
          /\ \E r \in RootsOf(i) \ tables :
                /\ root' = [root EXCEPT ![i] = r]
                /\ tables' = tables \cup {r}
          /\ NewSlot(i, i, Pid(leader[current[c]]))
          /\ mm' = [mm EXCEPT ![i] = i]
          /\ members' = [members EXCEPT ![i] = 1]
          /\ Return(c, [state EXCEPT ![i] = "Ready"], blocked_on)
          /\ vfork_parent' = [vfork_parent EXCEPT ![i] = IDLE]
          /\ vfork_pid' = [vfork_pid EXCEPT ![i] = None]
  BY DEF Create
<1>2. Types /\ mode[c] # "user"
  BY DEF RunInv, Create, Calls
<1>3. leader[current[c]] \in Slots
  BY <1>2, CallerRuns DEF Types, FamilyTypes
<1>4. state[i] # "Running"
  BY <1>1 DEF FreeSlot
<1>5. "Ready" \in States \ {"Running"} /\ "Ready" \notin Ipc /\ None \in Int
  BY DEF States, Ipc, None
<1>6. WaitTypes' /\ CpuTypes' /\ TrapOfProgram' /\ RunningOnOneCpu'
  BY <1>1, <1>4, <1>5, ReturnWithRuns
<1>7. FamilyTypes'
  BY <1>1, <1>2, <1>3, PidIsInt, NewSlotTypes
<1>8. SpaceTypes'
  <2>1. PICK r \in RootsOf(i) : root' = [root EXCEPT ![i] = r] /\ tables' = tables \cup {r}
    BY <1>1
  <2>2. r \in Nat
    BY <2>1, RootsAreNat
  <2> QED
    BY <1>1, <1>2, <2>1, <2>2 DEF Types, SpaceTypes
<1>9. VforkTypes' /\ RingTypes'
  BY <1>1, <1>2 DEF Create, ring, Types, VforkTypes, RingTypes, IDLE, None
<1> QED
  BY <1>6, <1>7, <1>8, <1>9 DEF RunInv, Types

\* A new thread.
LEMMA ThreadCreateRuns ==
    ASSUME RunInv, NEW c \in Cpus, thread_create(c)
    PROVE  RunInv'
<1> DEFINE l == leader[current[c]]
<1>1. PICK i \in Slots :
          /\ FreeSlot(i)
          /\ NewSlot(i, l, parent[l])
          /\ JoinSpace(c, i)
          /\ Return(c, [state EXCEPT ![i] = "Ready"], blocked_on)
          /\ vfork_parent' = [vfork_parent EXCEPT ![i] = IDLE]
          /\ vfork_pid' = [vfork_pid EXCEPT ![i] = None]
  BY DEF thread_create
<1>2. Types /\ mode[c] # "user"
  BY DEF RunInv, thread_create, Calls
<1>3. current[c] \in Slots
  BY <1>2, CallerRuns
<1>4. l \in Slots /\ parent[l] \in Int
  BY <1>2, <1>3 DEF Types, FamilyTypes
<1>5. state[i] # "Running"
  BY <1>1 DEF FreeSlot
<1>6. "Ready" \in States \ {"Running"} /\ "Ready" \notin Ipc /\ None \in Int
  BY DEF States, Ipc, None
<1>7. WaitTypes' /\ CpuTypes' /\ TrapOfProgram' /\ RunningOnOneCpu'
  BY <1>1, <1>5, <1>6, ReturnWithRuns
<1>8. FamilyTypes'
  BY <1>1, <1>2, <1>4, NewSlotTypes
<1>9. SpaceTypes'
  BY <1>1, <1>2, <1>3, JoinSpaceTypes
<1>10. VforkTypes' /\ RingTypes'
  BY <1>1, <1>2 DEF thread_create, ring, Types, VforkTypes, RingTypes, IDLE, None
<1> QED
  BY <1>7, <1>8, <1>9, <1>10 DEF RunInv, Types

\* A vfork: the caller stops, the child is ready.
LEMMA VforkRuns ==
    ASSUME RunInv, NEW c \in Cpus, Vfork(c)
    PROVE  RunInv'
<1> DEFINE s == current[c]
<1>1. PICK i \in Slots :
          /\ FreeSlot(i)
          /\ NewSlot(i, i, Pid(leader[s]))
          /\ JoinSpace(c, i)
          /\ vfork_parent' = [vfork_parent EXCEPT ![i] = s]
          /\ vfork_pid' = [vfork_pid EXCEPT ![i] = Pid(s)]
          /\ Block(c, [state EXCEPT ![i] = "Ready", ![s] = "VforkWait"], blocked_on, redo, timed)
  BY DEF Vfork
<1> DEFINE st == [state EXCEPT ![i] = "Ready", ![s] = "VforkWait"]
<1>2. Types /\ mode[c] # "user"
  BY DEF RunInv, Vfork, Calls
<1>3. s \in Slots /\ leader[s] \in Slots
  BY <1>2, CallerRuns DEF Types, FamilyTypes
<1>4. Pid(s) \in Int /\ Pid(leader[s]) \in Int
  BY <1>2, <1>3, PidIsInt
<1>5. state[i] # "Running"
  BY <1>1 DEF FreeSlot
<1>6. Asked(st, blocked_on)
  BY <1>2, <1>3 DEF Asked, Types, WaitTypes, States, Ipc
<1>7. Leaves(c, st)
  BY <1>2, <1>3, <1>5 DEF Leaves, Types, WaitTypes
<1>8. Dispatch(c, st, blocked_on, redo, timed)
  BY <1>1 DEF Block
<1>9. WaitTypes' /\ CpuTypes' /\ TrapOfProgram' /\ RunningOnOneCpu'
  BY <1>2, <1>6, <1>7, <1>8, SameAsked, DispatchRuns
<1>10. FamilyTypes'
  BY <1>1, <1>2, <1>4, NewSlotTypes
<1>11. SpaceTypes'
  BY <1>1, <1>2, <1>3, JoinSpaceTypes
<1>12. VforkTypes' /\ RingTypes'
  BY <1>1, <1>2, <1>3, <1>4 DEF Vfork, ring, Types, VforkTypes, RingTypes
<1> QED
  BY <1>9, <1>10, <1>11, <1>12 DEF RunInv, Types

\* An execve, whether it fails or not: no slot that runs stops running.
LEMMA ExecRuns ==
    ASSUME RunInv, NEW c \in Cpus, exec_replace(c)
    PROVE  RunInv'
<1> DEFINE s == current[c]
           D == Stopped(s)
           X == D \cup {s}
           st == [i \in Slots |-> IF i \in VforkWoken(X) \ D THEN "Ready"
                                  ELSE IF i \in Freed(X) \ X THEN "Unused"
                                  ELSE Reaped(D)[i]]
<1>1. Types /\ mode[c] # "user"
  BY DEF RunInv, exec_replace, Calls
<1>2. s \in Slots /\ state[s] = "Running"
  BY <1>1, CallerRuns
<1>3. D \in SUBSET Slots /\ X \in SUBSET Slots /\ \A i \in D : state[i] # "Running"
  BY <1>2 DEF Stopped, OthersOf, Live
<1>4. Asked(Reaped(D), blocked_on) /\ Stays(Reaped(D))
  BY <1>1, <1>3, ReapedRuns DEF Stays
<1>5. Asked(st, blocked_on) /\ Stays(st)
  <2>1. \A i \in Slots : i \in Freed(X) \ X => state[i] = "Zombie"
    BY DEF Freed
  <2>2. \A i \in Slots : i \in VforkWoken(X) => state[i] = "VforkWait"
    BY DEF VforkWoken
  <2> HIDE DEF D, X
  <2>3. Asked(st, blocked_on)
    BY <1>4 DEF Asked, States, Ipc
  <2> QED
    BY <1>4, <2>1, <2>2, <2>3 DEF Stays
<1>6. RingTypes'
  BY <1>1 DEF exec_replace, ring, Types, RingTypes
<1>7. FamilyTypes'
  <2>1. \A i \in Slots : (IF i \in D THEN FALSE ELSE killed[i] \/ i \in Elsewhere(s)) \in BOOLEAN
    BY <1>1 DEF Types, FamilyTypes
  <2>2. killed' = [i \in Slots |-> IF i \in D THEN FALSE ELSE killed[i] \/ i \in Elsewhere(s)]
    BY DEF exec_replace
  <2>3. killed' \in [Slots -> BOOLEAN]
    BY <2>1, <2>2
  <2> QED
    BY <1>1, <2>3 DEF exec_replace, family, Types, FamilyTypes
<1>8. CASE DropSpaces(D) /\ ForgetVfork(D) /\ Return(c, Reaped(D), blocked_on)
  <2>1. WaitTypes' /\ CpuTypes' /\ TrapOfProgram' /\ RunningOnOneCpu'
    BY <1>4, <1>8, ReturnRuns
  <2>2. SpaceTypes' /\ VforkTypes'
    BY <1>1, <1>3, <1>8, DropSpacesTypes, ForgetVforkTypes
  <2> QED
    BY <1>6, <1>7, <2>1, <2>2 DEF RunInv, Types
<1>9. CASE /\ members' = [m \in Slots |-> IF m = s THEN 1 ELSE Left(X, m)]
           /\ mm' = [i \in Slots |-> IF i \in X THEN i ELSE mm[i]]
           /\ \E r \in RootsOf(s) \ tables :
                 /\ root' = [i \in Slots |->
                       IF i = s THEN r
                       ELSE IF i \in Freed(X) \/ (i \in X /\ mm[i] # i) THEN 0
                       ELSE root[i]]
                 /\ tables' = (tables \ {root[m] : m \in Freed(X)}) \cup {r}
           /\ ForgetVfork(X)
           /\ Return(c, st, blocked_on)
  <2>1. WaitTypes' /\ CpuTypes' /\ TrapOfProgram' /\ RunningOnOneCpu'
    BY <1>5, <1>9, ReturnRuns
  <2>2. VforkTypes'
    BY <1>1, <1>9, ForgetVforkTypes
  <2>3. SpaceTypes'
    <3>1. PICK r \in RootsOf(s) :
              /\ root' = [i \in Slots |->
                    IF i = s THEN r
                    ELSE IF i \in Freed(X) \/ (i \in X /\ mm[i] # i) THEN 0
                    ELSE root[i]]
              /\ tables' = (tables \ {root[m] : m \in Freed(X)}) \cup {r}
      BY <1>9
    <3>2. r \in Nat
      BY <1>2, <3>1, RootsAreNat
    <3>3. \A m \in Slots : Left(X, m) \in Nat
      BY <1>1, <1>3, LeftIsNat
    <3> HIDE DEF X, D
    <3> QED
      BY <1>1, <1>9, <3>1, <3>2, <3>3 DEF Types, SpaceTypes
  <2> QED
    BY <1>6, <1>7, <2>1, <2>2, <2>3 DEF RunInv, Types
<1> QED
  BY <1>8, <1>9 DEF exec_replace

\* The ways a program ends itself: SYS_EXIT, SYS_EXIT_GROUP, a fault.
LEMMA ExitRuns ==
    ASSUME RunInv, NEW c \in Cpus, Exit(c) \/ ExitGroup(c) \/ UserFault(c)
    PROVE  RunInv'
<1>1. current[c] # IDLE
  BY CallerRuns, SlotsOK DEF Exit, ExitGroup, UserFault, Calls
<1> QED
  BY <1>1, ExitLockedRuns, ExitGroupRuns DEF Exit, ExitGroup, UserFault

\* A kill: a target that runs on another CPU goes on until it traps.
LEMMA KillRuns ==
    ASSUME RunInv, NEW c \in Cpus, Kill(c)
    PROVE  RunInv'
<1>1. Types /\ mode[c] # "user"
  BY DEF RunInv, Kill, Calls
<1>2. current[c] # IDLE
  BY <1>1, CallerRuns, SlotsOK
<1>3. PICK t \in Live :
          \/ exit_locked(c)
          \/ /\ killed' = [killed EXCEPT ![t] = TRUE]
             /\ Return(c, state, blocked_on)
             /\ UNCHANGED <<space, ring, family, vfork>>
          \/ /\ state[t] # "Running"
             /\ ReapEffects(Doomed(t), Marked(t))
             /\ Return(c, Reaped(Doomed(t)), blocked_on)
  BY DEF Kill
<1>4. t \in Slots
  BY DEF Live
<1>5. CASE exit_locked(c)
  BY <1>2, <1>5, ExitLockedRuns
<1>6. CASE /\ killed' = [killed EXCEPT ![t] = TRUE]
           /\ Return(c, state, blocked_on)
           /\ UNCHANGED <<space, ring, family, vfork>>
  <2>1. WaitTypes' /\ CpuTypes' /\ TrapOfProgram' /\ RunningOnOneCpu'
    BY <1>1, <1>6, SameAsked, ReturnRuns
  <2>2. SpaceTypes' /\ FamilyTypes' /\ VforkTypes' /\ RingTypes'
    BY <1>1, <1>6 DEF Types, SpaceTypes, FamilyTypes, VforkTypes, RingTypes,
                      space, ring, family, vfork
  <2> QED
    BY <2>1, <2>2 DEF RunInv, Types
<1>7. CASE /\ state[t] # "Running"
           /\ ReapEffects(Doomed(t), Marked(t))
           /\ Return(c, Reaped(Doomed(t)), blocked_on)
  <2>1. Doomed(t) \in SUBSET Slots /\ \A i \in Doomed(t) : state[i] # "Running"
    BY <1>4, <1>7, DoomedStopped
  <2>2. Asked(Reaped(Doomed(t)), blocked_on) /\ Stays(Reaped(Doomed(t)))
    BY <1>1, <2>1, ReapedRuns DEF Stays
  <2>3. WaitTypes' /\ CpuTypes' /\ TrapOfProgram' /\ RunningOnOneCpu'
    BY <1>7, <2>2, ReturnRuns
  <2>4. SpaceTypes' /\ FamilyTypes' /\ VforkTypes' /\ RingTypes'
    BY <1>1, <1>7, <2>1, ReapTypes
  <2> QED
    BY <2>3, <2>4 DEF RunInv, Types
<1> QED
  BY <1>3, <1>5, <1>6, <1>7

\* A sleep.
LEMMA SleepRuns ==
    ASSUME RunInv, NEW c \in Cpus, Sleep(c)
    PROVE  RunInv'
<1>1. Types /\ mode[c] # "user"
  BY DEF RunInv, Sleep, Calls
<1>2. /\ redo \in [Slots -> BOOLEAN]
      /\ [timed EXCEPT ![current[c]] = TRUE] \in [Slots -> BOOLEAN]
  BY <1>1 DEF Types, WaitTypes
<1>3. "Sleeping" \in States \ {"Running"} /\ "Sleeping" \notin Ipc /\ None \in Int
  BY DEF States, Ipc, None
<1>4. Block(c, [state EXCEPT ![current[c]] = "Sleeping"], blocked_on, redo,
            [timed EXCEPT ![current[c]] = TRUE])
  BY DEF Sleep
<1>5. WaitTypes' /\ CpuTypes' /\ TrapOfProgram' /\ RunningOnOneCpu'
  BY <1>1, <1>2, <1>3, <1>4, BlockRuns
<1> QED
  BY <1>5, OnlyScheduler DEF Sleep

\* A wait that finds a record, and one that blocks.
LEMMA WaitRuns ==
    ASSUME RunInv, NEW c \in Cpus, Wait(c)
    PROVE  RunInv'
<1> DEFINE s  == current[c]
           me == Pid(leader[s])
<1>1. Types /\ mode[c] # "user"
  BY DEF RunInv, Wait, Calls
<1>2. PICK pid \in AllPids \cup {ANY}, rd \in BOOLEAN :
          \/ /\ exits' = [exits EXCEPT ![Min(Records(me, pid))].pid = None]
             /\ Return(c, state, blocked_on)
             /\ UNCHANGED exits_next
          \/ /\ Block(c, [state EXCEPT ![s] = "WaitChild"], [blocked_on EXCEPT ![s] = pid],
                      [redo EXCEPT ![s] = rd], timed)
             /\ UNCHANGED ring
  BY DEF Wait
<1>3. pid \in Int
  BY DEF AllPids, ANY
<1>4. SpaceTypes' /\ FamilyTypes' /\ VforkTypes'
  BY <1>1 DEF Wait, Types, SpaceTypes, FamilyTypes, VforkTypes, space, family, vfork
<1>5. CASE /\ exits' = [exits EXCEPT ![Min(Records(me, pid))].pid = None]
           /\ Return(c, state, blocked_on)
           /\ UNCHANGED exits_next
  <2>1. WaitTypes' /\ CpuTypes' /\ TrapOfProgram' /\ RunningOnOneCpu'
    BY <1>1, <1>5, SameAsked, ReturnRuns
  <2>2. RingTypes'
    <3> DEFINE k == Min(Records(me, pid))
    <3>1. exits' = [j \in DOMAIN exits |->
              IF j = k THEN [exits[k] EXCEPT !.pid = None] ELSE exits[j]]
      BY <1>5
    <3> HIDE DEF k
    <3>2. exits \in [0 .. ExitsMax - 1 -> [pid : Int, parent : Int]]
      BY <1>1 DEF Types, RingTypes
    <3>3. \A j \in 0 .. ExitsMax - 1 :
              [exits[j] EXCEPT !.pid = None] \in [pid : Int, parent : Int]
      BY <3>2 DEF None
    <3>4. exits' \in [0 .. ExitsMax - 1 -> [pid : Int, parent : Int]]
      BY <3>1, <3>2, <3>3
    <3> QED
      BY <1>1, <1>5, <3>4 DEF Types, RingTypes
  <2> QED
    BY <1>4, <2>1, <2>2 DEF RunInv, Types
<1>6. CASE /\ Block(c, [state EXCEPT ![s] = "WaitChild"], [blocked_on EXCEPT ![s] = pid],
                    [redo EXCEPT ![s] = rd], timed)
           /\ UNCHANGED ring
  <2>1. [redo EXCEPT ![s] = rd] \in [Slots -> BOOLEAN] /\ timed \in [Slots -> BOOLEAN]
    BY <1>1 DEF Types, WaitTypes
  <2>2. "WaitChild" \in States \ {"Running"} /\ "WaitChild" \notin Ipc
    BY DEF States, Ipc
  <2>3. WaitTypes' /\ CpuTypes' /\ TrapOfProgram' /\ RunningOnOneCpu'
    BY <1>1, <1>3, <1>6, <2>1, <2>2, BlockRuns
  <2>4. RingTypes'
    BY <1>1, <1>6 DEF Types, RingTypes, ring
  <2> QED
    BY <1>4, <2>3, <2>4 DEF RunInv, Types
<1> QED
  BY <1>2, <1>5, <1>6

\* A send, which meets a receiver or waits for one.
LEMMA SendRuns ==
    ASSUME RunInv, NEW c \in Cpus, ipc_send(c)
    PROVE  RunInv'
<1> DEFINE me == current[c]
<1>1. Types /\ mode[c] # "user"
  BY DEF RunInv, ipc_send, Calls
<1>2. me \in Slots /\ state[me] = "Running"
  BY <1>1, CallerRuns
<1>3. PICK dst \in Live \ {me} :
          \/ /\ state[dst] = "RecvBlocked"
             /\ Block(c, [state EXCEPT ![dst] = "Ready", ![me] = "ReplyBlocked"],
                      [blocked_on EXCEPT ![me] = dst], redo, timed)
          \/ /\ state[dst] # "RecvBlocked"
             /\ Block(c, [state EXCEPT ![me] = "SendBlocked"],
                      [blocked_on EXCEPT ![me] = dst], redo, timed)
  BY DEF ipc_send
<1>4. dst \in Slots /\ dst \in Int
  BY SlotsOK DEF Live
<1> DEFINE on == [blocked_on EXCEPT ![me] = dst]
<1>5. CASE /\ state[dst] = "RecvBlocked"
           /\ Block(c, [state EXCEPT ![dst] = "Ready", ![me] = "ReplyBlocked"], on, redo, timed)
  <2> DEFINE st == [state EXCEPT ![dst] = "Ready", ![me] = "ReplyBlocked"]
  <2>1. Asked(st, on)
    BY <1>1, <1>2, <1>4 DEF Asked, Types, WaitTypes, States, Ipc
  <2>2. Leaves(c, st)
    BY <1>1, <1>2, <1>4, <1>5 DEF Leaves, Types, WaitTypes
  <2>3. Dispatch(c, st, on, redo, timed)
    BY <1>5 DEF Block
  <2> QED
    BY <1>1, <2>1, <2>2, <2>3, SameAsked, DispatchRuns, OnlyScheduler DEF ipc_send
<1>6. CASE Block(c, [state EXCEPT ![me] = "SendBlocked"], on, redo, timed)
  <2>1. "SendBlocked" \in States \ {"Running"}
    BY DEF States
  <2>2. WaitTypes' /\ CpuTypes' /\ TrapOfProgram' /\ RunningOnOneCpu'
    BY <1>1, <1>4, <1>6, <2>1, SameAsked, BlockRuns
  <2> QED
    BY <2>2, OnlyScheduler DEF ipc_send
<1> QED
  BY <1>3, <1>5, <1>6

\* find_sender finds one of the senders, if there is any.
LEMMA FirstSenderIs ==
    ASSUME NEW me \in Slots, Senders(me) # {}
    PROVE  FirstSender(me) \in Senders(me)
<1> DEFINE Turns(i) == (i - me - 1 + MaxProcs) % MaxProcs
           T == {Turns(i) : i \in Senders(me)}
<1>1. \A i \in Slots : Turns(i) \in Nat
  BY SlotsOK DEF Slots
<1>2. Senders(me) \subseteq Slots
  BY DEF Senders
<1>3. T \subseteq Nat /\ T # {}
  BY <1>1, <1>2
<1>4. \E m \in T : \A n \in T : m <= n
  BY <1>3, NatMin
<1>5. \E i \in Senders(me) : \A j \in Senders(me) : Turns(i) <= Turns(j)
  BY <1>4
<1> QED
  BY <1>5 DEF FirstSender

\* A receive, which accepts a sender or waits for one.
LEMMA RecvRuns ==
    ASSUME RunInv, NEW c \in Cpus, ipc_recv(c)
    PROVE  RunInv'
<1> DEFINE me == current[c]
<1>1. Types /\ mode[c] # "user"
  BY DEF RunInv, ipc_recv, Calls
<1>2. me \in Slots
  BY <1>1, CallerRuns
<1>3. CASE Senders(me) # {} /\ accept_from(c, FirstSender(me))
  <2> DEFINE f == FirstSender(me)
  <2>1. f \in Slots /\ state[f] # "Running"
    BY <1>2, <1>3, FirstSenderIs DEF Senders
  <2>2. Return(c, [state EXCEPT ![f] = "ReplyBlocked"], [blocked_on EXCEPT ![f] = me])
    BY <1>3 DEF accept_from
  <2> HIDE DEF f
  <2>3. "ReplyBlocked" \in States \ {"Running"}
    BY DEF States
  <2>4. me \in Int
    <3>1. \A i \in Slots : i \in Int
      BY SlotsOK
    <3> QED
      BY <1>2, <3>1, Zenon
  <2>5. WaitTypes' /\ CpuTypes' /\ TrapOfProgram' /\ RunningOnOneCpu'
    BY <1>2, <2>1, <2>2, <2>3, <2>4, ReturnWithRuns
  <2> QED
    BY <2>5, OnlyScheduler DEF ipc_recv
<1>4. CASE \E t \in BOOLEAN :
              Block(c, [state EXCEPT ![me] = "RecvBlocked"], blocked_on, redo,
                    [timed EXCEPT ![me] = t])
  <2>1. PICK t \in BOOLEAN :
              Block(c, [state EXCEPT ![me] = "RecvBlocked"], blocked_on, redo,
                    [timed EXCEPT ![me] = t])
    BY <1>4
  <2>2. redo \in [Slots -> BOOLEAN] /\ [timed EXCEPT ![me] = t] \in [Slots -> BOOLEAN]
    BY <1>1 DEF Types, WaitTypes
  <2>3. "RecvBlocked" \in States \ {"Running"} /\ "RecvBlocked" \notin Ipc /\ None \in Int
    BY DEF States, Ipc, None
  <2>4. WaitTypes' /\ CpuTypes' /\ TrapOfProgram' /\ RunningOnOneCpu'
    BY <1>1, <2>1, <2>2, <2>3, BlockRuns
  <2> QED
    BY <2>4, OnlyScheduler DEF ipc_recv
<1> QED
  BY <1>3, <1>4 DEF ipc_recv

\* A reply.
LEMMA ReplyRuns ==
    ASSUME RunInv, NEW c \in Cpus, ipc_reply(c)
    PROVE  RunInv'
<1>1. PICK to \in Live : /\ state[to] = "ReplyBlocked"
                         /\ Return(c, [state EXCEPT ![to] = "Ready"], blocked_on)
  BY DEF ipc_reply
<1>2. to \in Slots /\ state[to] # "Running"
  BY <1>1 DEF Live
<1>3. "Ready" \in States \ {"Running"} /\ "Ready" \notin Ipc /\ None \in Int
  BY DEF States, Ipc, None
<1>4. WaitTypes' /\ CpuTypes' /\ TrapOfProgram' /\ RunningOnOneCpu'
  BY <1>1, <1>2, <1>3, ReturnWithRuns
<1> QED
  BY <1>4, OnlyScheduler DEF ipc_reply

-----------------------------------------------------------------------------
(* Theorems: types and CPUs. *)

\* The boot state satisfies the invariant.
LEMMA InitRuns == Init => RunInv
<1> SUFFICES ASSUME Init PROVE RunInv
  OBVIOUS
<1> USE DEF Init
<1>1. WaitTypes
  BY DEF WaitTypes, States, Ipc, None
<1>2. CpuTypes
  BY SlotsOK DEF CpuTypes
<1>3. SpaceTypes
  BY SlotsOK DEF SpaceTypes
<1>4. FamilyTypes /\ VforkTypes
  BY SlotsOK DEF FamilyTypes, VforkTypes, KERNEL, IDLE, None
<1>5. RingTypes
  BY ConstantsOK DEF RingTypes, NoExit, None
<1>6. TrapOfProgram /\ RunningOnOneCpu
  BY DEF TrapOfProgram, RunningOnOneCpu
<1> QED
  BY <1>1, <1>2, <1>3, <1>4, <1>5, <1>6 DEF RunInv, Types

\* Every step keeps the invariant.
LEMMA NextRuns == RunInv /\ [Next]_vars => RunInv'
<1> SUFFICES ASSUME RunInv, [Next]_vars PROVE RunInv'
  OBVIOUS
<1>1. CASE UNCHANGED vars
  BY <1>1 DEF vars, space, ring, family, cpu, waits, vfork, RunInv, Types, WaitTypes, CpuTypes,
              SpaceTypes, FamilyTypes, VforkTypes, RingTypes, TrapOfProgram, RunningOnOneCpu
<1>2. ASSUME NEW c \in Cpus, Enter(c, "syscall") \/ Enter(c, "timer") PROVE RunInv'
  BY <1>2, EnterRuns
<1>3. ASSUME NEW c \in Cpus, IdleTick(c) \/ Preempt(c) \/ UserFault(c) PROVE RunInv'
  BY <1>3, IdleTickRuns, PreemptRuns, ExitRuns
<1>4. ASSUME NEW c \in Cpus, Syscall(c) PROVE RunInv'
  BY <1>4, NullRuns, PreemptRuns, SleepRuns, CreateRuns, ThreadCreateRuns, VforkRuns, ExecRuns,
     ExitRuns, KillRuns, WaitRuns, SendRuns, RecvRuns, ReplyRuns DEF Syscall
<1>5. ASSUME NEW s \in Slots, Deadline(s) PROVE RunInv'
  BY <1>5, DeadlineRuns
<1> QED
  BY <1>1, <1>2, <1>3, <1>4, <1>5 DEF Next

\* The scheduler's invariant holds throughout.
LEMMA RunInvAlways == Spec => []RunInv
  BY InitRuns, NextRuns, PTL DEF Spec

\* The table of processes keeps its types whatever the CPUs do: in
\* particular whoever is blocked in IPC names a slot of the table.
THEOREM ProcessTypes == Spec => []TypeOK
<1>1. RunInv => TypeOK
  BY TypesAreTypeOK DEF RunInv
<1> QED
  BY <1>1, RunInvAlways, PTL

\* A process is Running if and only if exactly one CPU runs it, for every
\* number of CPUs and slots (dispatch, exit_locked, kill_sig, reap).
THEOREM OneCpuEach == Spec => []RunningOnOneCpu
<1>1. RunInv => RunningOnOneCpu
  BY DEF RunInv
<1> QED
  BY <1>1, RunInvAlways, PTL

-----------------------------------------------------------------------------
(* IPC: the invariant and what Dispatch and Return make of a table. *)

\* A send and a receive meet, and nobody waits for a process that is gone.
IpcInv == RendezvousMet /\ PartnerAlive

Dead == {"Unused", "Zombie"}

\* The partners an action asks for are alive, before the step and after it,
\* and the ones who already waited keep theirs.
Pairs(st, on) ==
    \A i \in Slots : st[i] \in Ipc =>
        /\ on[i] \in Live
        /\ st[on[i]] \notin Dead
        /\ st[i] = "SendBlocked" => st[on[i]] # "RecvBlocked"
        /\ state[i] \in Ipc => partner_pid[i] = Pid(on[i])

\* The slot of a live process is not given to another one.
KeepsPids == \A i \in Live : generation'[i] = generation[i]

\* A step that asks for pairs ends with pairs.
LEMMA SettlePairs ==
    ASSUME Types, KeepsPids, NEW st, NEW on, NEW rd, NEW tm,
           st \in [Slots -> States], Pairs(st, on), Settle(st, on, rd, tm)
    PROVE  IpcInv'
<1>1. state' = st
  BY DEF Settle
<1>2. \A i \in Slots : st[i] \in Ipc =>
          /\ blocked_on'[i] = on[i]
          /\ partner_pid'[i] = IF state[i] \in Ipc THEN partner_pid[i] ELSE Pid(on[i])
  BY DEF Settle
<1>3. \A i \in Slots : st[i] \in Ipc => on[i] \in Slots
  BY DEF Pairs, Live
<1>4. RendezvousMet'
  BY <1>1, <1>2, <1>3 DEF RendezvousMet, Pairs, Ipc
<1>5. ASSUME NEW i \in Slots, state'[i] \in Ipc
      PROVE  IsPid(blocked_on[i], partner_pid[i])'
  <2>1. /\ on[i] \in Live /\ on[i] \in Slots
        /\ st[on[i]] \notin Dead
        /\ partner_pid'[i] = Pid(on[i])
        /\ blocked_on'[i] = on[i]
    BY <1>1, <1>2, <1>3, <1>5 DEF Pairs
  <2>2. generation'[on[i]] = generation[on[i]]
    BY <2>1 DEF KeepsPids
  <2>3. on[i] + MaxProcs * (generation'[on[i]] - 1) = Pid(on[i])
    BY <2>2 DEF Pid
  <2>4. blocked_on'[i] \in Live'
    BY <1>1, <2>1 DEF Live, Dead
  <2> QED
    BY <2>1, <2>3, <2>4 DEF IsPid, Pid
<1>6. PartnerAlive'
  BY <1>5 DEF PartnerAlive
<1> QED
  BY <1>4, <1>6 DEF IpcInv

\* Dispatch wakes and runs, which parts nobody.
LEMMA DispatchPairs ==
    ASSUME RunInv, KeepsPids, NEW c \in Cpus, NEW st, NEW on, NEW rd, NEW tm,
           st \in [Slots -> States], Pairs(st, on), Dispatch(c, st, on, rd, tm)
    PROVE  IpcInv'
<1> DEFINE awake == wake_sleepers(st)
           next  == Chosen(awake)
           new   == [i \in Slots |-> IF i = next THEN "Running" ELSE awake[i]]
<1>1. Settle(new, on, rd, tm)
  BY DEF Dispatch
<1>2. \A i \in Slots :
          \/ awake[i] = st[i]
          \/ awake[i] = "Ready" /\ st[i] \in {"Sleeping", "RecvBlocked"}
  BY DEF wake_sleepers
<1>3. next = IDLE \/ (next \in Slots /\ awake[next] = "Ready")
  BY ChosenIs DEF RunInv, Types, CpuTypes
<1> HIDE DEF awake, next
<1>4. \A i \in Slots :
          \/ new[i] = st[i]
          \/ new[i] \in {"Ready", "Running"} /\ st[i] \in {"Sleeping", "RecvBlocked", "Ready"}
  <2> SUFFICES ASSUME NEW i \in Slots
               PROVE  \/ new[i] = st[i]
                      \/ /\ new[i] \in {"Ready", "Running"}
                         /\ st[i] \in {"Sleeping", "RecvBlocked", "Ready"}
    OBVIOUS
  <2>1. CASE i = next
    <3>1. new[i] = "Running" /\ awake[i] = "Ready"
      BY <1>3, <2>1, SlotsOK
    <3> QED
      BY <1>2, <3>1
  <2>2. CASE i # next
    <3>1. new[i] = awake[i]
      BY <2>2
    <3> QED
      BY <1>2, <3>1
  <2> QED
    BY <2>1, <2>2
<1>5. new \in [Slots -> States]
  BY <1>4 DEF States
<1> HIDE DEF new
<1>6. Pairs(new, on)
  BY <1>4 DEF Pairs, Ipc, Dead, Live
<1> QED
  BY <1>1, <1>5, <1>6, SettlePairs DEF RunInv

\* Return parts nobody either.
LEMMA ReturnPairs ==
    ASSUME RunInv, KeepsPids, NEW c \in Cpus, NEW st, NEW on,
           st \in [Slots -> States], Pairs(st, on), Return(c, st, on)
    PROVE  IpcInv'
  BY SettlePairs DEF Return, RunInv

\* A table in which nobody starts to wait in IPC, and nobody stays waiting
\* for a slot that dies.
LEMMA QuietPairs ==
    ASSUME Types, IpcInv, NEW st, NEW on,
           \A i \in Slots : st[i] \in Ipc \cup {"RecvBlocked"} => st[i] = state[i],
           \A i \in Slots : st[i] \in Ipc =>
               on[i] = blocked_on[i] /\ st[blocked_on[i]] \notin Dead
    PROVE  Pairs(st, on)
<1> SUFFICES ASSUME NEW i \in Slots, st[i] \in Ipc
             PROVE  /\ on[i] \in Live
                    /\ st[on[i]] \notin Dead
                    /\ st[i] = "SendBlocked" => st[on[i]] # "RecvBlocked"
                    /\ state[i] \in Ipc => partner_pid[i] = Pid(on[i])
  BY DEF Pairs
<1>1. st[i] = state[i] /\ on[i] = blocked_on[i]
  OBVIOUS
<1>2. on[i] \in Live /\ Pid(on[i]) = partner_pid[i]
  BY <1>1 DEF IpcInv, PartnerAlive, IsPid
<1>3. on[i] \in Slots
  BY <1>2 DEF Live
<1>4. state[i] = "SendBlocked" => state[on[i]] # "RecvBlocked"
  BY <1>1 DEF IpcInv, RendezvousMet
<1> QED
  BY <1>1, <1>2, <1>3, <1>4

\* A table in which nobody starts to wait in IPC and nobody dies.
LEMMA NobodyDies ==
    ASSUME Types, IpcInv, NEW st, NEW on,
           \A i \in Slots : st[i] \in Ipc \cup {"RecvBlocked"} => st[i] = state[i],
           \A i \in Live : st[i] \notin Dead,
           \A i \in Slots : st[i] \in Ipc => on[i] = blocked_on[i]
    PROVE  Pairs(st, on)
<1>1. \A i \in Slots : state[i] \in Ipc => blocked_on[i] \in Live
  BY DEF IpcInv, PartnerAlive, IsPid
<1>2. \A i \in Slots : st[i] \in Ipc => on[i] = blocked_on[i] /\ st[blocked_on[i]] \notin Dead
  BY <1>1
<1> QED
  BY <1>2, QuietPairs

\* reap: whoever waited for a slot that dies is woken, and no slot dies but
\* those.
LEMMA ReapedPairs ==
    ASSUME Types, IpcInv, NEW D \in SUBSET Slots
    PROVE  /\ \A i \in Slots :
                 Reaped(D)[i] \in Ipc \cup {"RecvBlocked"} => Reaped(D)[i] = state[i]
           /\ \A i \in Slots : Reaped(D)[i] \in Ipc => Reaped(D)[blocked_on[i]] \notin Dead
           /\ Pairs(Reaped(D), blocked_on)
<1>1. \A i \in Slots : Reaped(D)[i] \in {"Zombie", "Unused", "Ready"} \/ Reaped(D)[i] = state[i]
  BY DEF Reaped
<1>2. \A i \in Slots : Reaped(D)[i] \in Ipc \cup {"RecvBlocked"} => Reaped(D)[i] = state[i]
  BY <1>1 DEF Ipc
<1>3. \A i \in Slots : Reaped(D)[i] \in Ipc => state[i] \in Ipc /\ blocked_on[i] \notin D
  BY DEF Reaped, Ipc
<1>4. \A i \in Live \ D : Reaped(D)[i] \notin Dead
  <2>1. \A i \in Live \ D : i \in Slots /\ i \notin Freed(D) /\ state[i] \notin Dead
    BY DEF Live, Freed, Dead
  <2> QED
    BY <2>1 DEF Reaped, Dead
<1>5. \A i \in Slots : state[i] \in Ipc => blocked_on[i] \in Live
  BY DEF IpcInv, PartnerAlive, IsPid
<1>6. \A i \in Slots : Reaped(D)[i] \in Ipc => Reaped(D)[blocked_on[i]] \notin Dead
  BY <1>3, <1>4, <1>5
<1> QED
  BY <1>2, <1>6, QuietPairs

-----------------------------------------------------------------------------
(* Every action keeps IpcInv. *)

\* The table as it is has its pairs.
LEMMA SamePairs ==
    ASSUME RunInv, IpcInv
    PROVE  Pairs(state, blocked_on) /\ state \in [Slots -> States]
<1>1. Types /\ state \in [Slots -> States]
  BY DEF RunInv, Types, WaitTypes
<1>2. \A i \in Live : state[i] \notin Dead
  BY DEF Live, Dead
<1> QED
  BY <1>1, <1>2, NobodyDies

\* One slot that is not waiting for anybody in IPC, or the caller, changes
\* to a state that is neither dead nor an IPC wait.
LEMMA ChangePairs ==
    ASSUME RunInv, IpcInv, NEW s \in Slots, NEW x \in States,
           x \notin Ipc \cup {"RecvBlocked"} \cup Dead, NEW on,
           \A i \in Slots \ {s} : on[i] = blocked_on[i]
    PROVE  /\ Pairs([state EXCEPT ![s] = x], on)
           /\ [state EXCEPT ![s] = x] \in [Slots -> States]
<1> DEFINE st == [state EXCEPT ![s] = x]
<1>1. Types /\ state \in [Slots -> States] /\ st \in [Slots -> States]
  BY DEF RunInv, Types, WaitTypes
<1>2. \A i \in Slots : st[i] = IF i = s THEN x ELSE state[i]
  BY <1>1
<1> HIDE DEF st
<1>3. \A i \in Live : st[i] \notin Dead
  BY <1>2 DEF Live, Dead
<1>4. \A i \in Slots : st[i] \in Ipc \cup {"RecvBlocked"} => st[i] = state[i]
  BY <1>2
<1>5. \A i \in Slots : st[i] \in Ipc => on[i] = blocked_on[i]
  BY <1>2
<1>6. Pairs(st, on)
  BY <1>1, <1>3, <1>4, <1>5, NobodyDies
<1> QED
  BY <1>1, <1>6 DEF st

\* No generation changes.
LEMMA SamePids ==
    ASSUME UNCHANGED family
    PROVE  KeepsPids
  BY DEF family, KeepsPids

\* A new slot takes a slot that nobody has.
LEMMA NewPids ==
    ASSUME Types, NEW i \in Slots, NEW l, NEW par, FreeSlot(i), NewSlot(i, l, par)
    PROVE  KeepsPids
<1>1. i \notin Live
  BY DEF FreeSlot, Live
<1>2. \A j \in Slots \ {i} : generation'[j] = generation[j]
  BY DEF NewSlot, Types, FamilyTypes
<1> QED
  BY <1>1, <1>2 DEF KeepsPids, Live

\* Slots exit.
LEMMA ExitWithPairs ==
    ASSUME RunInv, IpcInv, NEW c \in Cpus, NEW D \in SUBSET Slots, NEW M, ExitWith(c, D, M)
    PROVE  IpcInv'
<1>1. Types
  BY DEF RunInv
<1>2. Pairs(Reaped(D), blocked_on) /\ Reaped(D) \in [Slots -> States]
  BY <1>1, ReapedPairs, ReapedRuns DEF Asked
<1>3. KeepsPids
  BY SamePids DEF ExitWith, ReapEffects
<1> QED
  BY <1>2, <1>3, DispatchPairs DEF ExitWith

\* The current slot exits, alone or with its process.
LEMMA ExitLockedPairs ==
    ASSUME RunInv, IpcInv, NEW c \in Cpus, current[c] # IDLE, exit_locked(c)
    PROVE  IpcInv'
<1>1. current[c] \in Slots
  BY DEF RunInv, Types, CpuTypes
<1> QED
  BY <1>1, DoomedStopped, ExitWithPairs DEF exit_locked

\* The process of the current slot exits.
LEMMA ExitGroupPairs ==
    ASSUME RunInv, IpcInv, NEW c \in Cpus, current[c] # IDLE, exit_group(c)
    PROVE  IpcInv'
<1> DEFINE s == current[c]
           l == leader[s]
<1>1. s \in Slots /\ l \in Slots
  BY DEF RunInv, Types, CpuTypes, FamilyTypes
<1>2. {s} \in SUBSET Slots /\ Doomed(l) \cup {s} \in SUBSET Slots
  BY <1>1, DoomedStopped
<1>3. \/ exit_locked(c)
      \/ ExitWith(c, {s}, {l})
      \/ ExitWith(c, Doomed(l) \cup {s}, Marked(l))
  BY DEF exit_group
<1> QED
  BY <1>2, <1>3, ExitLockedPairs, ExitWithPairs

\* A step that only dispatches, with the current slot ready or not.
LEMMA ReschedulePairs ==
    ASSUME RunInv, IpcInv, NEW c \in Cpus, UNCHANGED family,
           \/ Dispatch(c, state, blocked_on, redo, timed)
           \/ Reschedule(c)
           \/ Return(c, state, blocked_on)
    PROVE  IpcInv'
<1> DEFINE st == [i \in Slots |-> IF i = current[c] /\ state[i] = "Running"
                                  THEN "Ready" ELSE state[i]]
<1>1. KeepsPids
  BY SamePids
<1>2. CASE Dispatch(c, state, blocked_on, redo, timed)
  BY <1>1, <1>2, SamePairs, DispatchPairs
<1>3. CASE Return(c, state, blocked_on)
  BY <1>1, <1>3, SamePairs, ReturnPairs
<1>4. CASE Reschedule(c)
  <2>1. Types /\ st \in [Slots -> States]
    BY DEF RunInv, Types, WaitTypes, States
  <2>2. \A i \in Live : st[i] \notin Dead
    BY DEF Live, Dead
  <2>3. \A i \in Slots : st[i] \in Ipc \cup {"RecvBlocked"} => st[i] = state[i]
    BY DEF Ipc
  <2>4. Pairs(st, blocked_on)
    BY <2>1, <2>2, <2>3, NobodyDies
  <2>5. Dispatch(c, st, blocked_on, redo, timed)
    BY <1>4 DEF Reschedule
  <2> QED
    BY <1>1, <2>1, <2>4, <2>5, DispatchPairs
<1> QED
  BY <1>2, <1>3, <1>4

\* A trap entry.
LEMMA EnterPairs ==
    ASSUME RunInv, IpcInv, NEW c \in Cpus, NEW half, Enter(c, half)
    PROVE  IpcInv'
<1>1. CASE exit_locked(c)
  BY <1>1, ExitLockedPairs DEF Enter
<1>2. CASE UNCHANGED <<space, ring, family, waits, vfork, killed, current, rr_next>>
  BY <1>2 DEF IpcInv, RendezvousMet, PartnerAlive, IsPid, Live, Pid, waits, family
<1> QED
  BY <1>1, <1>2 DEF Enter

\* A new process or thread.
LEMMA CreatePairs ==
    ASSUME RunInv, IpcInv, NEW c \in Cpus, Create(c) \/ thread_create(c)
    PROVE  IpcInv'
<1>1. PICK i \in Slots :
          /\ FreeSlot(i)
          /\ \E l, par : NewSlot(i, l, par)
          /\ Return(c, [state EXCEPT ![i] = "Ready"], blocked_on)
  BY DEF Create, thread_create
<1>2. KeepsPids
  BY <1>1, NewPids DEF RunInv
<1>3. "Ready" \in States /\ "Ready" \notin Ipc \cup {"RecvBlocked"} \cup Dead
  BY DEF States, Ipc, Dead
<1> QED
  BY <1>1, <1>2, <1>3, ChangePairs, ReturnPairs

\* A vfork child, and its parent that stops.
LEMMA VforkPairs ==
    ASSUME RunInv, IpcInv, NEW c \in Cpus, Vfork(c)
    PROVE  IpcInv'
<1> DEFINE s == current[c]
<1>1. PICK i \in Slots :
          /\ FreeSlot(i)
          /\ \E l, par : NewSlot(i, l, par)
          /\ Block(c, [state EXCEPT ![i] = "Ready", ![s] = "VforkWait"], blocked_on, redo, timed)
  BY DEF Vfork
<1> DEFINE st == [state EXCEPT ![i] = "Ready", ![s] = "VforkWait"]
<1>2. KeepsPids
  BY <1>1, NewPids DEF RunInv
<1>3. Types /\ s \in Slots
  BY CallerRuns DEF RunInv, Vfork, Calls
<1>4. st \in [Slots -> States]
  BY <1>3 DEF Types, WaitTypes, States
<1>5. \A j \in Slots : st[j] = IF j = s THEN "VforkWait" ELSE IF j = i THEN "Ready" ELSE state[j]
  BY <1>3 DEF Types, WaitTypes
<1>6. Dispatch(c, st, blocked_on, redo, timed)
  BY <1>1 DEF Block
<1> HIDE DEF st
<1>7. \A j \in Live : st[j] \notin Dead
  BY <1>5 DEF Live, Dead
<1>8. \A j \in Slots : st[j] \in Ipc \cup {"RecvBlocked"} => st[j] = state[j]
  BY <1>5 DEF Ipc
<1>9. Pairs(st, blocked_on)
  BY <1>3, <1>7, <1>8, NobodyDies
<1> QED
  BY <1>2, <1>4, <1>6, <1>9, DispatchPairs

\* An execve, which may reap threads and free the space it leaves.
LEMMA ExecPairs ==
    ASSUME RunInv, IpcInv, NEW c \in Cpus, exec_replace(c)
    PROVE  IpcInv'
<1> DEFINE s == current[c]
           D == Stopped(s)
           X == D \cup {s}
           st == [i \in Slots |-> IF i \in VforkWoken(X) \ D THEN "Ready"
                                  ELSE IF i \in Freed(X) \ X THEN "Unused"
                                  ELSE Reaped(D)[i]]
<1>1. Types /\ KeepsPids
  BY SamePids DEF RunInv, exec_replace
<1>2. D \in SUBSET Slots
  BY DEF Stopped, OthersOf, Live
<1>3. /\ \A i \in Slots :
            Reaped(D)[i] \in Ipc \cup {"RecvBlocked"} => Reaped(D)[i] = state[i]
      /\ \A i \in Slots : Reaped(D)[i] \in Ipc => Reaped(D)[blocked_on[i]] \notin Dead
      /\ Pairs(Reaped(D), blocked_on)
      /\ Reaped(D) \in [Slots -> States]
  BY <1>1, <1>2, ReapedPairs, ReapedRuns DEF Asked
<1>4. CASE Return(c, Reaped(D), blocked_on)
  BY <1>1, <1>3, <1>4, ReturnPairs
<1>5. CASE Return(c, st, blocked_on)
  <2>1. \A i \in Slots : i \in Freed(X) \ X => i \notin Live
    BY DEF Freed, Live
  <2> HIDE DEF D, X
  <2>2. st \in [Slots -> States]
    BY <1>3 DEF States
  <2>3. \A i \in Slots : \/ st[i] = "Ready"
                         \/ st[i] = "Unused" /\ i \notin Live
                         \/ st[i] = Reaped(D)[i]
    BY <2>1
  <2> HIDE DEF st
  <2>4. \A i \in Slots : st[i] \in Ipc \cup {"RecvBlocked"} => st[i] = state[i] /\ st[i] = Reaped(D)[i]
    BY <1>3, <2>3 DEF Ipc
  <2>5. \A i \in Slots : state[i] \in Ipc => blocked_on[i] \in Live /\ blocked_on[i] \in Slots
    BY DEF IpcInv, PartnerAlive, IsPid, Live
  <2>6. \A i \in Slots : st[i] \in Ipc => st[blocked_on[i]] \notin Dead
    BY <1>3, <2>3, <2>4, <2>5 DEF Dead
  <2>7. Pairs(st, blocked_on)
    BY <1>1, <2>4, <2>6, QuietPairs
  <2> QED
    BY <1>1, <1>5, <2>2, <2>7, ReturnPairs DEF st
<1> QED
  BY <1>4, <1>5 DEF exec_replace

\* A kill wakes the clients of what it kills.
LEMMA KillPairs ==
    ASSUME RunInv, IpcInv, NEW c \in Cpus, Kill(c)
    PROVE  IpcInv'
<1>1. Types /\ mode[c] # "user"
  BY DEF RunInv, Kill, Calls
<1>2. current[c] # IDLE
  BY <1>1, CallerRuns, SlotsOK
<1>3. PICK t \in Live :
          \/ exit_locked(c)
          \/ UNCHANGED family /\ Return(c, state, blocked_on)
          \/ ReapEffects(Doomed(t), Marked(t)) /\ Return(c, Reaped(Doomed(t)), blocked_on)
  BY DEF Kill
<1>4. Doomed(t) \in SUBSET Slots
  BY DoomedStopped DEF Live
<1>5. CASE ReapEffects(Doomed(t), Marked(t)) /\ Return(c, Reaped(Doomed(t)), blocked_on)
  <2>1. KeepsPids
    BY <1>5, SamePids DEF ReapEffects
  <2>2. Pairs(Reaped(Doomed(t)), blocked_on) /\ Reaped(Doomed(t)) \in [Slots -> States]
    BY <1>1, <1>4, ReapedPairs, ReapedRuns DEF Asked
  <2> QED
    BY <1>5, <2>1, <2>2, ReturnPairs
<1> QED
  BY <1>2, <1>3, <1>5, ExitLockedPairs, ReschedulePairs

\* A sleep and a wait for a child: the caller leaves nobody.
LEMMA SleepWaitPairs ==
    ASSUME RunInv, IpcInv, NEW c \in Cpus, Sleep(c) \/ Wait(c)
    PROVE  IpcInv'
<1> DEFINE s == current[c]
<1>1. Types /\ s \in Slots /\ KeepsPids
  BY CallerRuns, SamePids DEF RunInv, Sleep, Wait, Calls
<1>2. /\ "Sleeping" \in States /\ "Sleeping" \notin Ipc \cup {"RecvBlocked"} \cup Dead
      /\ "WaitChild" \in States /\ "WaitChild" \notin Ipc \cup {"RecvBlocked"} \cup Dead
  BY DEF States, Ipc, Dead
<1>3. CASE Sleep(c)
  <2>1. Dispatch(c, [state EXCEPT ![s] = "Sleeping"], blocked_on, redo,
                 [timed EXCEPT ![s] = TRUE])
    BY <1>3 DEF Sleep, Block
  <2>2. /\ Pairs([state EXCEPT ![s] = "Sleeping"], blocked_on)
        /\ [state EXCEPT ![s] = "Sleeping"] \in [Slots -> States]
    BY <1>1, <1>2, ChangePairs
  <2> QED
    BY <1>1, <2>1, <2>2, DispatchPairs
<1>4. CASE Return(c, state, blocked_on) /\ UNCHANGED family
  BY <1>4, ReschedulePairs
<1>5. ASSUME NEW pid, NEW rd,
             Block(c, [state EXCEPT ![s] = "WaitChild"], [blocked_on EXCEPT ![s] = pid],
                   [redo EXCEPT ![s] = rd], timed)
      PROVE  IpcInv'
  <2> DEFINE on == [blocked_on EXCEPT ![s] = pid]
             st == [state EXCEPT ![s] = "WaitChild"]
  <2>1. \A i \in Slots \ {s} : on[i] = blocked_on[i]
    BY <1>1 DEF Types, WaitTypes
  <2>2. Dispatch(c, st, on, [redo EXCEPT ![s] = rd], timed)
    BY <1>5 DEF Block
  <2> HIDE DEF on
  <2>3. Pairs(st, on) /\ st \in [Slots -> States]
    BY <1>1, <1>2, <2>1, ChangePairs
  <2> QED
    BY <1>1, <2>2, <2>3, DispatchPairs
<1> QED
  BY <1>3, <1>4, <1>5 DEF Wait

\* A send to a receiver that waits, or one that waits for its receiver.
LEMMA SendPairs ==
    ASSUME RunInv, IpcInv, NEW c \in Cpus, ipc_send(c)
    PROVE  IpcInv'
<1> DEFINE me == current[c]
<1>1. Types /\ KeepsPids /\ mode[c] # "user"
  BY SamePids DEF RunInv, ipc_send, Calls
<1>2. me \in Slots /\ state[me] = "Running"
  BY <1>1, CallerRuns
<1>3. PICK dst \in Live \ {me} :
          \/ /\ state[dst] = "RecvBlocked"
             /\ Block(c, [state EXCEPT ![dst] = "Ready", ![me] = "ReplyBlocked"],
                      [blocked_on EXCEPT ![me] = dst], redo, timed)
          \/ /\ state[dst] # "RecvBlocked"
             /\ Block(c, [state EXCEPT ![me] = "SendBlocked"],
                      [blocked_on EXCEPT ![me] = dst], redo, timed)
  BY DEF ipc_send
<1> DEFINE on == [blocked_on EXCEPT ![me] = dst]
           met == [state EXCEPT ![dst] = "Ready", ![me] = "ReplyBlocked"]
           left == [state EXCEPT ![me] = "SendBlocked"]
<1>4. /\ dst \in Slots /\ dst # me /\ dst \in Live /\ state[dst] \notin Dead
      /\ state[me] \notin Ipc
  BY <1>2 DEF Live, Dead, Ipc
<1>5. \A i \in Slots : on[i] = IF i = me THEN dst ELSE blocked_on[i]
  BY <1>1 DEF Types, WaitTypes
<1>6. \A i \in Slots : met[i] = IF i = me THEN "ReplyBlocked"
                                ELSE IF i = dst THEN "Ready" ELSE state[i]
  BY <1>1, <1>4 DEF Types, WaitTypes
<1>7. \A i \in Slots : left[i] = IF i = me THEN "SendBlocked" ELSE state[i]
  BY <1>1 DEF Types, WaitTypes
<1>8. met \in [Slots -> States] /\ left \in [Slots -> States]
  BY <1>1 DEF Types, WaitTypes, States
<1>9. \A i \in Slots : state[i] \in Ipc =>
          /\ blocked_on[i] \in Live /\ blocked_on[i] \in Slots
          /\ state[blocked_on[i]] \notin Dead
          /\ state[i] = "SendBlocked" => state[blocked_on[i]] # "RecvBlocked"
          /\ partner_pid[i] = Pid(blocked_on[i])
  BY DEF IpcInv, PartnerAlive, RendezvousMet, IsPid, Live, Dead
<1>10. \/ state[dst] = "RecvBlocked" /\ Dispatch(c, met, on, redo, timed)
       \/ state[dst] # "RecvBlocked" /\ Dispatch(c, left, on, redo, timed)
  BY <1>3 DEF Block
<1> HIDE DEF on, met, left
<1>11. Pairs(met, on)
  BY <1>4, <1>5, <1>6, <1>9 DEF Pairs, Ipc, Dead
<1>12. state[dst] # "RecvBlocked" => Pairs(left, on)
  BY <1>4, <1>5, <1>7, <1>9 DEF Pairs, Ipc, Dead
<1> QED
  BY <1>1, <1>8, <1>10, <1>11, <1>12, DispatchPairs

\* A receive takes a sender that waits, and waits only if there is none.
LEMMA RecvPairs ==
    ASSUME RunInv, IpcInv, NEW c \in Cpus, ipc_recv(c)
    PROVE  IpcInv'
<1> DEFINE me == current[c]
           f == FirstSender(me)
           waiting == [state EXCEPT ![me] = "RecvBlocked"]
<1>1. Types /\ KeepsPids /\ mode[c] # "user"
  BY SamePids DEF RunInv, ipc_recv, Calls
<1>2. me \in Slots /\ state[me] = "Running"
  BY <1>1, CallerRuns
<1>3. me \in Live
  BY <1>2 DEF Live
<1>4. \A i \in Slots : state[i] \in Ipc =>
          /\ blocked_on[i] \in Live /\ blocked_on[i] \in Slots
          /\ state[blocked_on[i]] \notin Dead
          /\ state[i] = "SendBlocked" => state[blocked_on[i]] # "RecvBlocked"
          /\ partner_pid[i] = Pid(blocked_on[i])
  BY DEF IpcInv, PartnerAlive, RendezvousMet, IsPid, Live, Dead
<1>5. CASE Senders(me) # {} /\ accept_from(c, f)
  <2> DEFINE on == [blocked_on EXCEPT ![f] = me]
             st == [state EXCEPT ![f] = "ReplyBlocked"]
  <2>1. f \in Slots /\ state[f] = "SendBlocked" /\ blocked_on[f] = me
    BY <1>2, <1>5, FirstSenderIs DEF Senders
  <2>2. Return(c, st, on)
    BY <1>5 DEF accept_from
  <2> HIDE DEF f
  <2>3. \A i \in Slots : on[i] = blocked_on[i]
    BY <1>1, <2>1 DEF Types, WaitTypes
  <2>4. \A i \in Slots : st[i] = IF i = f THEN "ReplyBlocked" ELSE state[i]
    BY <1>1 DEF Types, WaitTypes
  <2>5. st \in [Slots -> States]
    BY <1>1 DEF Types, WaitTypes, States
  <2> HIDE DEF on, st
  <2>6. Pairs(st, on)
    BY <1>4, <2>1, <2>3, <2>4 DEF Pairs, Ipc, Dead
  <2> QED
    BY <1>1, <2>2, <2>5, <2>6, ReturnPairs
<1>6. ASSUME NEW t, Senders(me) = {},
             Block(c, waiting, blocked_on, redo, [timed EXCEPT ![me] = t])
      PROVE  IpcInv'
  <2>1. \A i \in Slots : state[i] = "SendBlocked" => blocked_on[i] # me
    BY <1>6 DEF Senders
  <2>2. \A i \in Slots : waiting[i] = IF i = me THEN "RecvBlocked" ELSE state[i]
    BY <1>1 DEF Types, WaitTypes
  <2>3. waiting \in [Slots -> States]
    BY <1>1 DEF Types, WaitTypes, States
  <2>4. Dispatch(c, waiting, blocked_on, redo, [timed EXCEPT ![me] = t])
    BY <1>6 DEF Block
  <2> HIDE DEF waiting
  <2>5. Pairs(waiting, blocked_on)
    BY <1>4, <2>1, <2>2 DEF Pairs, Ipc, Dead
  <2> QED
    BY <1>1, <2>3, <2>4, <2>5, DispatchPairs
<1> QED
  BY <1>5, <1>6 DEF ipc_recv

\* A reply frees a client.
LEMMA ReplyPairs ==
    ASSUME RunInv, IpcInv, NEW c \in Cpus, ipc_reply(c)
    PROVE  IpcInv'
<1>1. PICK to \in Live : Return(c, [state EXCEPT ![to] = "Ready"], blocked_on)
  BY DEF ipc_reply
<1>2. to \in Slots /\ KeepsPids
  BY SamePids DEF Live, ipc_reply
<1>3. "Ready" \in States /\ "Ready" \notin Ipc \cup {"RecvBlocked"} \cup Dead
  BY DEF States, Ipc, Dead
<1> QED
  BY <1>1, <1>2, <1>3, ChangePairs, ReturnPairs

\* Every step keeps the IPC invariant.
LEMMA NextPairs == RunInv /\ IpcInv /\ [Next]_vars => IpcInv'
<1> SUFFICES ASSUME RunInv, IpcInv, [Next]_vars PROVE IpcInv'
  OBVIOUS
<1>1. ASSUME UNCHANGED <<waits, family>> PROVE IpcInv'
  BY <1>1 DEF waits, family, IpcInv, RendezvousMet, PartnerAlive, IsPid, Live, Pid
<1>2. CASE UNCHANGED vars
  BY <1>1, <1>2 DEF vars
<1>3. ASSUME NEW s \in Slots, Deadline(s) PROVE IpcInv'
  BY <1>3 DEF Deadline, family, IpcInv, RendezvousMet, PartnerAlive, IsPid, Live, Pid
<1>4. ASSUME NEW c \in Cpus, Enter(c, "syscall") \/ Enter(c, "timer") PROVE IpcInv'
  BY <1>4, EnterPairs
<1>5. ASSUME NEW c \in Cpus, IdleTick(c) \/ Preempt(c) \/ Null(c) \/ Yield(c) PROVE IpcInv'
  BY <1>5, ReschedulePairs DEF IdleTick, Preempt, Null, Yield
<1>6. ASSUME NEW c \in Cpus, UserFault(c) \/ Exit(c) \/ ExitGroup(c) PROVE IpcInv'
  <2>1. current[c] # IDLE
    BY <1>6, CallerRuns, SlotsOK DEF Exit, ExitGroup, UserFault, Calls
  <2> QED
    BY <1>6, <2>1, ExitLockedPairs, ExitGroupPairs DEF Exit, ExitGroup, UserFault
<1>7. ASSUME NEW c \in Cpus, Syscall(c) PROVE IpcInv'
  BY <1>5, <1>6, <1>7, SleepWaitPairs, CreatePairs, VforkPairs, ExecPairs, KillPairs, SendPairs,
     RecvPairs, ReplyPairs DEF Syscall
<1> QED
  BY <1>2, <1>3, <1>4, <1>5, <1>6, <1>7 DEF Next

\* The two invariants hold together.
LEMMA IpcInvAlways == Spec => []IpcInv
<1>1. Init => IpcInv
  BY DEF Init, IpcInv, RendezvousMet, PartnerAlive, Ipc
<1> QED
  BY <1>1, NextPairs, RunInvAlways, PTL DEF Spec

\* Death of the partner never leaves anybody waiting in IPC, and the slot of
\* a dead partner is never taken for it, for every number of processes and
\* every interleaving of exits, kills, execs and creations (reap, release).
THEOREM PartnersAlive == Spec => []PartnerAlive
<1>1. IpcInv => PartnerAlive
  BY DEF IpcInv
<1> QED
  BY <1>1, IpcInvAlways, PTL

\* A sender never waits for a receiver that waits for a message: ipc_send
\* and ipc_recv never miss each other.
THEOREM RendezvousNeverMissed == Spec => []RendezvousMet
<1>1. IpcInv => RendezvousMet
  BY DEF IpcInv
<1> QED
  BY <1>1, IpcInvAlways, PTL

-----------------------------------------------------------------------------
(* Address spaces: the invariant, of any table.                             *)

\* In a table st of states with the owners of: the slots that live, the
\* owners whose space is in use, and the users of a space.
Alive(st) == {i \in Slots : st[i] \notin Dead}
Owners(st, of) == {m \in Slots : st[m] # "Unused" /\ of[m] = m}
UsersOf(st, of, m) == {i \in Alive(st) : of[i] = m}

\* The counter n of a space is the number of its users; the tables rt are
\* those of the owners, one each; threads own no space.
SpaceOk(st, of, n, rt, tb, ld) ==
    /\ \A i \in Alive(st) : /\ of[i] \in Owners(st, of) /\ rt[i] = rt[of[i]]
                            /\ ld[i] # i => of[i] # i
    /\ \A m \in Owners(st, of) : n[m] = Cardinality(UsersOf(st, of, m)) /\ n[m] > 0
    /\ \A m \in Slots : st[m] = "Zombie" => of[m] = m
    /\ tb = {rt[m] : m \in Owners(st, of)}
    /\ \A m, k \in Owners(st, of) : rt[m] = rt[k] => m = k

SpaceInv == SpaceOk(state, mm, members, root, tables, leader)

\* Two tables in which the same slots are free and the same are dead.
SameLife(st, st2) ==
    \A i \in Slots : /\ st[i] = "Unused" <=> st2[i] = "Unused"
                     /\ st[i] = "Zombie" <=> st2[i] = "Zombie"

\* A set of slots is finite, and its size a number.
LEMMA SlotSets ==
    ASSUME NEW S \in SUBSET Slots
    PROVE  IsFiniteSet(S) /\ Cardinality(S) \in Nat
<1>1. IsFiniteSet(S)
  BY SlotsOK, FS_Subset
<1> QED
  BY <1>1, FS_CardinalityType

\* The invariant looks at states no closer than that.
LEMMA LikeOk ==
    ASSUME NEW st, NEW st2, NEW of, NEW n, NEW rt, NEW tb, NEW ld,
           SameLife(st, st2), SpaceOk(st, of, n, rt, tb, ld)
    PROVE  SpaceOk(st2, of, n, rt, tb, ld)
<1>1. Alive(st) = Alive(st2)
  BY DEF Alive, SameLife, Dead
<1>2. Owners(st, of) = Owners(st2, of)
  BY DEF Owners, SameLife
<1>3. \A m : UsersOf(st, of, m) = UsersOf(st2, of, m)
  BY <1>1 DEF UsersOf
<1>4. \A m \in Slots : st2[m] = "Zombie" => of[m] = m
  BY DEF SpaceOk, SameLife
<1> QED
  BY <1>1, <1>2, <1>3, <1>4 DEF SpaceOk

\* Of two tables, the second has a slot i more, with a space of its own.
Born(i, r, st, of, n, rt, ld, st2, of2, n2, rt2, ld2) ==
    /\ st[i] = "Unused" /\ st2[i] \notin Dead
    /\ of2[i] = i /\ n2[i] = 1 /\ rt2[i] = r /\ ld2[i] = i
    /\ \A j \in Slots \ {i} : /\ st2[j] = st[j] /\ of2[j] = of[j] /\ n2[j] = n[j]
                              /\ rt2[j] = rt[j] /\ ld2[j] = ld[j]

\* A slot i starts to live in a space of its own, with new tables r.
LEMMA NewSpaceOk ==
    ASSUME NEW st, NEW of, NEW n, NEW rt, NEW tb, NEW ld,
           NEW st2, NEW of2, NEW n2, NEW rt2, NEW ld2, NEW i \in Slots, NEW r,
           SpaceOk(st, of, n, rt, tb, ld), r \notin tb,
           Born(i, r, st, of, n, rt, ld, st2, of2, n2, rt2, ld2)
    PROVE  SpaceOk(st2, of2, n2, rt2, tb \cup {r}, ld2)
<1> USE DEF Born
<1>1. i \notin Alive(st) /\ i \notin Owners(st, of)
  BY DEF Alive, Owners, Dead
<1>2. Alive(st2) = Alive(st) \cup {i}
  BY <1>1 DEF Alive, Dead
<1>3. Owners(st2, of2) = Owners(st, of) \cup {i}
  BY DEF Owners, Dead
<1>4. \A k \in Alive(st) : k \in Slots /\ k # i /\ of[k] \in Owners(st, of) /\ of[k] \in Slots /\ of[k] # i
  BY <1>1 DEF SpaceOk, Owners, Alive
<1>5. \A m \in Owners(st, of) : UsersOf(st2, of2, m) = UsersOf(st, of, m)
  BY <1>1, <1>2, <1>4 DEF UsersOf
<1>6. UsersOf(st2, of2, i) = {i}
  BY <1>2, <1>4 DEF UsersOf
<1>7. Cardinality({i}) = 1
  BY FS_Singleton
<1>8. \A m \in Owners(st, of) : m \in Slots /\ m # i
  BY <1>1 DEF Owners
<1>9. \A m \in Owners(st2, of2) : n2[m] = Cardinality(UsersOf(st2, of2, m)) /\ n2[m] > 0
  <2>1. n2[i] = Cardinality(UsersOf(st2, of2, i)) /\ n2[i] > 0
    <3>1. n2[i] = 1 /\ Cardinality(UsersOf(st2, of2, i)) = 1
      BY <1>6, <1>7
    <3> QED  BY <3>1
  <2>2. \A m \in Owners(st, of) : n2[m] = n[m] /\ n[m] = Cardinality(UsersOf(st, of, m)) /\ n[m] > 0
    BY <1>8 DEF SpaceOk
  <2> QED
    BY <1>3, <1>5, <2>1, <2>2
<1>10. \A k \in Alive(st2) : /\ of2[k] \in Owners(st2, of2) /\ rt2[k] = rt2[of2[k]]
                             /\ ld2[k] # k => of2[k] # k
  BY <1>2, <1>3, <1>4 DEF SpaceOk
<1>11. tb \cup {r} = {rt2[m] : m \in Owners(st2, of2)}
  <2>1. tb = {rt2[m] : m \in Owners(st, of)}
    BY <1>8 DEF SpaceOk
  <2> QED
    BY <1>3, <2>1
<1>12. \A m, k \in Owners(st2, of2) : rt2[m] = rt2[k] => m = k
  <2>1. \A m \in Owners(st, of) : rt2[m] = rt[m] /\ rt[m] # r
    BY <1>8 DEF SpaceOk
  <2> QED
    BY <1>3, <2>1 DEF SpaceOk
<1>13. \A m \in Slots : st2[m] = "Zombie" => of2[m] = m
  BY DEF SpaceOk, Dead
<1> QED
  BY <1>9, <1>10, <1>11, <1>12, <1>13 DEF SpaceOk

\* A slot i starts to live in the space of an owner m.
LEMMA JoinOk ==
    ASSUME NEW st, NEW of, NEW n, NEW rt, NEW tb, NEW ld,
           NEW st2, NEW of2, NEW n2, NEW rt2, NEW ld2, NEW i \in Slots,
           NEW m \in Owners(st, of),
           SpaceOk(st, of, n, rt, tb, ld), st[i] = "Unused",
           st2[i] \notin Dead /\ of2[i] = m /\ rt2[i] = rt[m] /\ n2[m] = n[m] + 1,
           \A j \in Slots \ {i} : /\ st2[j] = st[j] /\ of2[j] = of[j]
                                  /\ rt2[j] = rt[j] /\ ld2[j] = ld[j],
           \A j \in Slots \ {i, m} : n2[j] = n[j]
    PROVE  SpaceOk(st2, of2, n2, rt2, tb, ld2)
<1>1. i \notin Alive(st) /\ i \notin Owners(st, of) /\ m \in Slots /\ m # i
  BY DEF Alive, Owners, Dead
<1>2. Alive(st2) = Alive(st) \cup {i}
  BY <1>1 DEF Alive, Dead
<1>3. Owners(st2, of2) = Owners(st, of)
  BY <1>1 DEF Owners
<1>4. \A k \in Alive(st) : k \in Slots /\ k # i /\ of[k] \in Owners(st, of) /\ of[k] \in Slots /\ of[k] # i
  BY <1>1 DEF SpaceOk, Owners, Alive
<1>5. \A k \in Owners(st, of) \ {m} : UsersOf(st2, of2, k) = UsersOf(st, of, k)
  BY <1>1, <1>2, <1>4 DEF UsersOf
<1>6. UsersOf(st2, of2, m) = UsersOf(st, of, m) \cup {i} /\ i \notin UsersOf(st, of, m)
  BY <1>1, <1>2, <1>4 DEF UsersOf
<1>7. n2[m] = Cardinality(UsersOf(st2, of2, m)) /\ n2[m] > 0
  <2>1. PICK U : U = UsersOf(st, of, m)
    OBVIOUS
  <2>2. U \in SUBSET Slots /\ i \notin U
    BY <1>6, <2>1 DEF UsersOf, Alive
  <2>3. IsFiniteSet(U) /\ Cardinality(U) \in Nat /\ Cardinality(U \cup {i}) = Cardinality(U) + 1
    BY <2>2, SlotSets, FS_AddElement
  <2>4. n[m] = Cardinality(U)
    BY <2>1 DEF SpaceOk
  <2>5. n2[m] = Cardinality(U \cup {i}) /\ n2[m] > 0
    BY <2>3, <2>4
  <2> QED
    BY <1>6, <2>1, <2>5
<1>8. \A k \in Owners(st, of) : k \in Slots /\ k # i
  BY <1>1 DEF Owners
<1>9. \A k \in Owners(st2, of2) : n2[k] = Cardinality(UsersOf(st2, of2, k)) /\ n2[k] > 0
  BY <1>3, <1>5, <1>7, <1>8 DEF SpaceOk
<1>10. \A k \in Alive(st2) : /\ of2[k] \in Owners(st2, of2) /\ rt2[k] = rt2[of2[k]]
                             /\ ld2[k] # k => of2[k] # k
  BY <1>1, <1>2, <1>3, <1>4 DEF SpaceOk
<1>11. tb = {rt2[k] : k \in Owners(st2, of2)}
  BY <1>3, <1>8 DEF SpaceOk
<1>12. \A j, k \in Owners(st2, of2) : rt2[j] = rt2[k] => j = k
  BY <1>3, <1>8 DEF SpaceOk
<1>13. \A k \in Slots : st2[k] = "Zombie" => of2[k] = k
  BY DEF SpaceOk, Dead
<1> QED
  BY <1>9, <1>10, <1>11, <1>12, <1>13 DEF SpaceOk

\* drop_mm counts the users that stay.
LEMMA LeftIs ==
    ASSUME Types, SpaceInv, NEW X \in SUBSET Live, NEW m \in Owners(state, mm)
    PROVE  /\ Left(X, m) = Cardinality(UsersOf(state, mm, m) \ X)
           /\ Left(X, m) > 0 <=> \E i \in Live \ X : mm[i] = m
<1>1. PICK U, Y : U = UsersOf(state, mm, m) /\ Y = {x \in X : mm[x] = m}
  OBVIOUS
<1>2. Live = Alive(state)
  BY DEF Live, Alive, Dead
<1>3. Y \in SUBSET U /\ U \ X = U \ Y /\ U \in SUBSET Slots /\ Y \in SUBSET Slots
  BY <1>1, <1>2 DEF UsersOf, Alive
<1>4. /\ IsFiniteSet(U) /\ IsFiniteSet(U \ Y) /\ Cardinality(U) \in Nat
      /\ Cardinality(Y) \in Nat /\ IsFiniteSet(Y) /\ Cardinality(U \ Y) \in Nat
  BY <1>3, SlotSets
<1>5. Cardinality(U) = Cardinality(U \ Y) + Cardinality(Y)
  <2>1. PICK V : V = U \ Y
    OBVIOUS
  <2>2. V \cup Y = U /\ V \cap Y = {} /\ IsFiniteSet(V) /\ Cardinality(V) \in Nat
    BY <1>3, <1>4, <2>1
  <2>3. Cardinality(V \cup Y) = Cardinality(V) + Cardinality(Y) - Cardinality(V \cap Y)
    BY <1>4, <2>2, FS_Union
  <2>4. Cardinality(V \cap Y) = 0
    BY <2>2, FS_EmptySet
  <2>5. Cardinality(U) = Cardinality(V \cup Y)
    BY <2>2
  <2>6. Cardinality(U) = Cardinality(V) + Cardinality(Y)
    <3>1. PICK u, a, b, e : /\ u = Cardinality(U) /\ a = Cardinality(V) /\ b = Cardinality(Y)
                            /\ e = Cardinality(V \cap Y)
      OBVIOUS
    <3>2. u = a + b - e /\ e = 0 /\ a \in Nat /\ b \in Nat
      BY <1>4, <2>2, <2>3, <2>4, <2>5, <3>1
    <3>3. u = a + b
      BY <3>2
    <3> QED  BY <3>1, <3>3
  <2> QED
    BY <2>1, <2>6
<1>6. members[m] = Cardinality(U)
  BY <1>1 DEF SpaceInv, SpaceOk
<1>7. Left(X, m) = IF Cardinality(Y) >= members[m] THEN 0 ELSE members[m] - Cardinality(Y)
  BY <1>1 DEF Left
<1>8. Left(X, m) = Cardinality(U \ Y)
  BY <1>4, <1>5, <1>6, <1>7
<1>9. Cardinality(U \ Y) > 0 <=> U \ Y # {}
  BY <1>4, FS_EmptySet
<1>10. U \ Y # {} <=> \E i \in Live \ X : mm[i] = m
  BY <1>1, <1>2, <1>3 DEF UsersOf
<1> QED
  BY <1>1, <1>3, <1>8, <1>9, <1>10

\* What drop_mm makes of owners and tables when the slots X let go.
MmWithout(X)   == [i \in Slots |-> IF i \in X THEN i ELSE mm[i]]
LeftWithout(X) == [m \in Slots |-> Left(X, m)]
RootWithout(X) == [i \in Slots |-> IF i \in Freed(X) \/ (i \in X /\ mm[i] # i) THEN 0 ELSE root[i]]

\* The slots X stop living in the table st: a Zombie stays where the space of
\* one of them is in use, and Zombies without users go.
Without(st, X) ==
    \A i \in Slots :
        /\ st[i] = "Unused" <=> \/ state[i] = "Unused" \/ i \in Freed(X)
                                \/ i \in X /\ ~(mm[i] = i /\ Left(X, i) > 0)
        /\ st[i] = "Zombie" <=> \/ state[i] = "Zombie" /\ i \notin Freed(X)
                                \/ i \in X /\ mm[i] = i /\ Left(X, i) > 0

\* The owners that remain are the ones that keep a user.
LEMMA RemainingOwners ==
    ASSUME Types, SpaceInv, NEW X \in SUBSET Live, NEW st, Without(st, X)
    PROVE  /\ Alive(st) = Live \ X
           /\ Owners(st, MmWithout(X)) = Owners(state, mm) \ Freed(X)
           /\ \A m \in Owners(state, mm) \ Freed(X) : Left(X, m) > 0
           /\ \A m \in Owners(state, mm) : (\E i \in Live \ X : mm[i] = m) => m \notin Freed(X)
           /\ Freed(X) \subseteq Owners(state, mm)
<1>1. Live = Alive(state) /\ Live \subseteq Slots
  BY DEF Live, Alive, Dead
<1>2. \A m \in Slots : state[m] = "Zombie" => mm[m] = m
  BY DEF SpaceInv, SpaceOk
<1>3. \A m \in Freed(X) : m \in Slots /\ mm[m] = m /\ (m \in X \/ state[m] = "Zombie") /\ Left(X, m) = 0
  BY DEF Freed
<1>4. Freed(X) \subseteq Owners(state, mm)
  BY <1>1, <1>3 DEF Owners, Alive, Dead
<1>5. \A m \in Owners(state, mm) : (\E i \in Live \ X : mm[i] = m) => m \notin Freed(X)
  <2> SUFFICES ASSUME NEW m \in Owners(state, mm), \E i \in Live \ X : mm[i] = m
               PROVE  m \notin Freed(X)
    OBVIOUS
  <2>1. Left(X, m) > 0
    BY LeftIs
  <2> QED
    BY <1>3, <2>1
<1>6. ASSUME NEW m \in Owners(state, mm) \ Freed(X)
      PROVE  Left(X, m) > 0
  <2>1. m \in Slots /\ mm[m] = m /\ state[m] # "Unused"
    BY <1>6 DEF Owners
  <2>2. Left(X, m) \in Nat
    BY <1>1, <2>1, LeftIsNat
  <2>3. CASE \E x \in X : mm[x] = m
    <3>1. CASE m \in X \/ state[m] = "Zombie"
      <4>1. Left(X, m) # 0
        BY <1>6, <2>1, <2>3, <3>1 DEF Freed
      <4> QED
        BY <2>2, <4>1
    <3>2. CASE m \notin X /\ state[m] # "Zombie"
      <4>1. m \in Live \ X
        BY <2>1, <3>2 DEF Live
      <4> QED
        BY <2>1, <4>1, LeftIs
    <3> QED
      BY <3>1, <3>2
  <2>4. CASE ~ \E x \in X : mm[x] = m
    <3>1. PICK U : U = UsersOf(state, mm, m)
      OBVIOUS
    <3>2. U # {}
      <4>1. members[m] = Cardinality(U) /\ members[m] > 0
        BY <3>1 DEF SpaceInv, SpaceOk
      <4> QED
        BY <4>1, FS_EmptySet
    <3>3. \E i \in Live \ X : mm[i] = m
      BY <1>1, <2>4, <3>1, <3>2 DEF UsersOf
    <3> QED
      BY <3>3, LeftIs
  <2> QED
    BY <2>3, <2>4
<1>7. Alive(st) = Live \ X
  <2>1. \A i \in Freed(X) : i \in X \/ i \notin Live
    BY <1>1, <1>3 DEF Alive, Dead
  <2> QED
    BY <1>1, <2>1 DEF Without, Alive, Dead
<1>8. Owners(st, MmWithout(X)) = Owners(state, mm) \ Freed(X)
  <2> SUFFICES ASSUME NEW m \in Slots
               PROVE  m \in Owners(st, MmWithout(X)) <=> m \in Owners(state, mm) \ Freed(X)
    BY DEF Owners
  <2>1. MmWithout(X)[m] = IF m \in X THEN m ELSE mm[m]
    BY DEF MmWithout
  <2>2. m \in X => state[m] # "Unused"
    BY <1>1 DEF Alive, Dead
  <2>3. CASE m \in X
    <3>1. m \in Owners(state, mm) \ Freed(X) => mm[m] = m /\ Left(X, m) > 0
      BY <1>6 DEF Owners
    <3>2. mm[m] = m => m \in Owners(state, mm)
      BY <2>2, <2>3 DEF Owners
    <3> QED
      BY <2>1, <2>2, <2>3, <3>1, <3>2 DEF Owners, Without
  <2>4. CASE m \notin X
    BY <2>1, <2>4 DEF Owners, Without
  <2> QED
    BY <2>3, <2>4
<1> QED
  BY <1>4, <1>5, <1>6, <1>7, <1>8

\* reap keeps the invariant.
LEMMA DropOk ==
    ASSUME Types, SpaceInv, NEW X \in SUBSET Live, NEW st, Without(st, X)
    PROVE  SpaceOk(st, MmWithout(X), LeftWithout(X), RootWithout(X),
                   tables \ {root[m] : m \in Freed(X)}, leader)
<1> DEFINE of == MmWithout(X)
           n  == LeftWithout(X)
           rt == RootWithout(X)
           was == Owners(state, mm)
           now == was \ Freed(X)
<1>1. Live = Alive(state) /\ Live \subseteq Slots /\ was \subseteq Slots
  BY DEF Live, Alive, Dead, Owners
<1>2. /\ Alive(st) = Live \ X /\ Owners(st, of) = now
      /\ \A m \in now : Left(X, m) > 0
      /\ \A m \in was : (\E i \in Live \ X : mm[i] = m) => m \notin Freed(X)
      /\ Freed(X) \subseteq was
  BY RemainingOwners
<1>3. \A i \in Slots : /\ of[i] = IF i \in X THEN i ELSE mm[i]
                       /\ n[i] = Left(X, i)
                       /\ rt[i] = IF i \in Freed(X) \/ (i \in X /\ mm[i] # i) THEN 0 ELSE root[i]
  BY DEF MmWithout, LeftWithout, RootWithout
<1>4. \A m \in was : mm[m] = m
  BY DEF Owners
<1> HIDE DEF of, n, rt, was
<1>5. \A m \in now : rt[m] = root[m]
  BY <1>1, <1>3, <1>4
<1>6. ASSUME NEW i \in Live \ X
      PROVE  of[i] \in now /\ rt[i] = rt[of[i]] /\ (leader[i] # i => of[i] # i)
  <2>1. mm[i] \in was /\ root[i] = root[mm[i]] /\ (leader[i] # i => mm[i] # i)
    BY <1>1 DEF SpaceInv, SpaceOk, was
  <2>2. of[i] = mm[i] /\ mm[i] \in now
    BY <1>1, <1>2, <1>3, <2>1
  <2>3. i \notin Freed(X)
    BY <1>1, <1>2, <1>4, <2>1, <2>2
  <2>4. rt[i] = root[i]
    BY <1>1, <1>3, <2>3
  <2> QED
    BY <1>5, <2>1, <2>2, <2>4
<1>7. ASSUME NEW m \in now
      PROVE  n[m] = Cardinality(UsersOf(st, of, m)) /\ n[m] > 0
  <2>1. UsersOf(st, of, m) = UsersOf(state, mm, m) \ X
    BY <1>1, <1>2, <1>3 DEF UsersOf
  <2>2. Left(X, m) = Cardinality(UsersOf(state, mm, m) \ X)
    BY LeftIs DEF was
  <2>3. n[m] = Left(X, m) /\ Left(X, m) > 0
    BY <1>1, <1>2, <1>3
  <2> QED
    BY <2>1, <2>2, <2>3
<1>8. ASSUME NEW m \in Slots, st[m] = "Zombie"
      PROVE  of[m] = m
  <2>1. state[m] = "Zombie" => mm[m] = m
    BY DEF SpaceInv, SpaceOk
  <2> QED
    BY <1>3, <1>8, <2>1 DEF Without
<1>9. tables \ {root[m] : m \in Freed(X)} = {rt[m] : m \in now}
  <2>1. tables = {root[m] : m \in was}
    BY DEF SpaceInv, SpaceOk, was
  <2>2. \A m, k \in was : root[m] = root[k] => m = k
    BY DEF SpaceInv, SpaceOk, was
  <2>3. {rt[m] : m \in now} = {root[m] : m \in now}
    BY <1>5
  <2>4. tables \ {root[m] : m \in Freed(X)} = {root[m] : m \in now}
    BY <1>2, <2>1, <2>2
  <2> QED
    BY <2>3, <2>4
<1>10. \A m, k \in now : rt[m] = rt[k] => m = k
  BY <1>5 DEF SpaceInv, SpaceOk, was
<1> QED
  BY <1>2, <1>6, <1>7, <1>8, <1>9, <1>10 DEF SpaceOk, of, n, rt, was

-----------------------------------------------------------------------------
(* Address spaces: every action keeps the invariant.                        *)

\* What Dispatch and Return make of a table st: who slept may wake, and one
\* that is ready runs.
Settled(st, on) ==
    \A i \in Slots :
        /\ \/ state'[i] = st[i]
           \/ /\ st[i] \in {"Ready", "Sleeping", "RecvBlocked"}
              /\ state'[i] \in {"Ready", "Running"}
        /\ state'[i] = "WaitChild" => blocked_on'[i] = on[i]

\* Dispatch settles.
LEMMA DispatchSettled ==
    ASSUME RunInv, NEW c, NEW st, NEW on, NEW rd, NEW tm, Dispatch(c, st, on, rd, tm)
    PROVE  Settled(st, on)
<1> DEFINE awake == wake_sleepers(st)
           next  == Chosen(awake)
           new   == [i \in Slots |-> IF i = next THEN "Running" ELSE awake[i]]
<1>1. Settle(new, on, rd, tm)
  BY DEF Dispatch
<1>2. \A i \in Slots :
          \/ awake[i] = st[i]
          \/ awake[i] = "Ready" /\ st[i] \in {"Sleeping", "RecvBlocked"}
  BY DEF wake_sleepers
<1>3. next = IDLE \/ (next \in Slots /\ awake[next] = "Ready")
  BY ChosenIs DEF RunInv, Types, CpuTypes
<1>4. \A i \in Slots : new[i] = IF i = next THEN "Running" ELSE awake[i]
  OBVIOUS
<1> HIDE DEF awake, next, new
<1>5. state' = new /\ \A i \in Slots : new[i] = "WaitChild" => blocked_on'[i] = on[i]
  BY <1>1 DEF Settle
<1> SUFFICES ASSUME NEW i \in Slots
             PROVE  /\ \/ new[i] = st[i]
                       \/ /\ st[i] \in {"Ready", "Sleeping", "RecvBlocked"}
                          /\ new[i] \in {"Ready", "Running"}
  BY <1>5 DEF Settled
<1>6. CASE i = next
  <2>1. awake[i] = "Ready" /\ new[i] = "Running"
    BY <1>3, <1>4, <1>6, SlotsOK
  <2> QED
    BY <1>2, <2>1
<1>7. CASE i # next
  <2>1. new[i] = awake[i]
    BY <1>4, <1>7
  <2> QED
    BY <1>2, <2>1
<1> QED
  BY <1>6, <1>7

\* Return settles.
LEMMA ReturnSettled ==
    ASSUME NEW c, NEW st, NEW on, Return(c, st, on)
    PROVE  Settled(st, on) /\ state' = st
  BY DEF Return, Settle, Settled

\* Whoever lives in the table lives after the step.
LEMMA SettledLife ==
    ASSUME NEW st, NEW on, Settled(st, on)
    PROVE  SameLife(st, state')
  BY DEF Settled, SameLife

\* A step that leaves spaces alone, and in which nobody dies or is born.
LEMMA QuietSpace ==
    ASSUME SpaceInv, NEW st, NEW on, SameLife(state, st), Settled(st, on),
           UNCHANGED <<space, leader>>
    PROVE  SpaceInv'
<1>1. SameLife(state, state')
  BY SettledLife DEF SameLife
<1>2. SpaceOk(state', mm, members, root, tables, leader)
  BY <1>1, LikeOk DEF SpaceInv
<1> QED
  BY <1>2 DEF SpaceInv, space

\* A table in which one live slot changes, and stays alive.
LEMMA AliveStays ==
    ASSUME Types, NEW i \in Live, NEW x, x \notin Dead
    PROVE  SameLife(state, [state EXCEPT ![i] = x])
  BY DEF Types, WaitTypes, SameLife, Live, Dead

\* The table of reap: its slots stop living, and nobody else.
LEMMA ReapedWithout ==
    ASSUME Types, SpaceInv, NEW X \in SUBSET Live
    PROVE  Without(Reaped(X), X)
<1>1. \A i \in Slots : i \in X => state[i] \notin Dead
  BY DEF Live, Dead
<1>2. \A i \in Slots : i \in Freed(X) => mm[i] = i /\ (i \in X \/ state[i] = "Zombie") /\ Left(X, i) = 0
  BY DEF Freed
<1>3. \A i \in Slots : (\/ state[i] \in Ipc /\ blocked_on[i] \in X
                        \/ i \in VforkWoken(X)
                        \/ \E l \in Ended(X) : i \in ExitWoken(l)) => state[i] \notin Dead
  BY DEF VforkWoken, ExitWoken, Waiters, Ipc, Dead
<1> SUFFICES ASSUME NEW i \in Slots
             PROVE  /\ Reaped(X)[i] = "Unused" <=> \/ state[i] = "Unused" \/ i \in Freed(X)
                                                   \/ i \in X /\ ~(mm[i] = i /\ Left(X, i) > 0)
                    /\ Reaped(X)[i] = "Zombie" <=> \/ state[i] = "Zombie" /\ i \notin Freed(X)
                                                   \/ i \in X /\ mm[i] = i /\ Left(X, i) > 0
  BY DEF Without
<1>4. CASE i \in X
  <2>1. Reaped(X)[i] = IF mm[i] = i /\ Left(X, i) > 0 THEN "Zombie" ELSE "Unused"
    BY <1>4 DEF Reaped
  <2> QED
    BY <1>1, <1>2, <1>4, <2>1 DEF Dead
<1>5. CASE i \notin X /\ i \in Freed(X)
  <2>1. Reaped(X)[i] = "Unused"
    BY <1>5 DEF Reaped
  <2> QED
    BY <1>5, <2>1
<1>6. CASE i \notin X /\ i \notin Freed(X)
  <2>1. Reaped(X)[i] = state[i] \/ (Reaped(X)[i] = "Ready" /\ state[i] \notin Dead)
    BY <1>3, <1>6 DEF Reaped
  <2> QED
    BY <1>6, <2>1 DEF Dead
<1> QED
  BY <1>4, <1>5, <1>6

\* Slots that live are reaped.
LEMMA ReapSpace ==
    ASSUME Types, SpaceInv, NEW X \in SUBSET Live, NEW on, DropSpaces(X), Settled(Reaped(X), on),
           UNCHANGED leader
    PROVE  SpaceInv'
<1>1. SpaceOk(Reaped(X), MmWithout(X), LeftWithout(X), RootWithout(X),
              tables \ {root[m] : m \in Freed(X)}, leader)
  BY ReapedWithout, DropOk
<1>2. /\ mm' = MmWithout(X) /\ members' = LeftWithout(X) /\ root' = RootWithout(X)
      /\ tables' = tables \ {root[m] : m \in Freed(X)}
  BY DEF DropSpaces, MmWithout, LeftWithout, RootWithout
<1>3. SameLife(Reaped(X), state')
  BY SettledLife
<1>4. SpaceOk(state', MmWithout(X), LeftWithout(X), RootWithout(X),
              tables \ {root[m] : m \in Freed(X)}, leader)
  BY <1>1, <1>3, LikeOk
<1> QED
  BY <1>2, <1>4 DEF SpaceInv

\* What reap takes down lives.
LEMMA DoomedLive ==
    ASSUME NEW s \in Live
    PROVE  Doomed(s) \in SUBSET Live /\ Stopped(s) \in SUBSET Live /\ s \notin Stopped(s)
  BY DEF Doomed, Stopped, OthersOf

\* Slots exit.
LEMMA ExitWithSpace ==
    ASSUME RunInv, SpaceInv, NEW c \in Cpus, NEW D \in SUBSET Live, NEW M, ExitWith(c, D, M)
    PROVE  SpaceInv'
<1>1. Types /\ DropSpaces(D) /\ leader' = leader
  BY DEF RunInv, ExitWith, ReapEffects, family
<1>2. Settled(Reaped(D), blocked_on)
  BY DispatchSettled DEF ExitWith
<1> QED
  BY <1>1, <1>2, ReapSpace

\* A step exits with slots that live.
Exits(c) == \E D \in SUBSET Live : \E M : ExitWith(c, D, M)

\* What exits with the current slot, alone or with its process.
LEMMA ExitLockedExits ==
    ASSUME RunInv, NEW c \in Cpus, current[c] # IDLE, exit_locked(c)
    PROVE  Exits(c)
<1>1. current[c] \in Live
  BY DEF RunInv, RunningOnOneCpu, Types, CpuTypes, Live
<1> QED
  BY <1>1, DoomedLive DEF exit_locked, Exits

\* The process of the current slot exits.
LEMMA ExitGroupExits ==
    ASSUME RunInv, NEW c \in Cpus, current[c] # IDLE, exit_group(c)
    PROVE  Exits(c)
<1>1. current[c] \in Live /\ leader[current[c]] \in Slots
  BY DEF RunInv, RunningOnOneCpu, Types, CpuTypes, FamilyTypes, Live
<1>2. CASE exit_locked(c)
  BY <1>2, ExitLockedExits
<1>3. CASE ExitWith(c, {current[c]}, {leader[current[c]]})
  BY <1>1, <1>3 DEF Exits
<1>4. CASE /\ state[leader[current[c]]] \notin {"Unused", "Zombie", "Running"}
           /\ ExitWith(c, Doomed(leader[current[c]]) \cup {current[c]}, Marked(leader[current[c]]))
  <2>1. leader[current[c]] \in Live
    BY <1>1, <1>4 DEF Live
  <2>2. Doomed(leader[current[c]]) \cup {current[c]} \in SUBSET Live
    BY <1>1, <2>1, DoomedLive
  <2> QED
    BY <1>4, <2>2 DEF Exits
<1> QED
  BY <1>2, <1>3, <1>4 DEF exit_group

\* An exit keeps the spaces right.
LEMMA ExitSpace ==
    ASSUME RunInv, SpaceInv, NEW c \in Cpus, Exits(c)
    PROVE  SpaceInv'
<1>1. PICK D \in SUBSET Live : \E M : ExitWith(c, D, M)
  BY DEF Exits
<1> QED
  BY <1>1, ExitWithSpace

\* A process created with a space of its own.
LEMMA CreateSpace ==
    ASSUME RunInv, SpaceInv, NEW c \in Cpus, Create(c)
    PROVE  SpaceInv'
<1>1. PICK i \in Slots :
          /\ FreeSlot(i)
          /\ \E r \in RootsOf(i) \ tables :
                root' = [root EXCEPT ![i] = r] /\ tables' = tables \cup {r}
          /\ NewSlot(i, i, Pid(leader[current[c]]))
          /\ mm' = [mm EXCEPT ![i] = i]
          /\ members' = [members EXCEPT ![i] = 1]
          /\ Return(c, [state EXCEPT ![i] = "Ready"], blocked_on)
  BY DEF Create
<1>2. PICK r \in RootsOf(i) \ tables : root' = [root EXCEPT ![i] = r] /\ tables' = tables \cup {r}
  BY <1>1
<1>3. state[i] = "Unused" /\ leader' = [leader EXCEPT ![i] = i] /\ state' = [state EXCEPT ![i] = "Ready"]
  BY <1>1, ReturnSettled DEF FreeSlot, NewSlot
<1>4. /\ state \in [Slots -> States] /\ mm \in [Slots -> Slots] /\ members \in [Slots -> Nat]
      /\ root \in [Slots -> Nat] /\ leader \in [Slots -> Slots]
  BY DEF RunInv, Types, WaitTypes, SpaceTypes, FamilyTypes
<1>5. Born(i, r, state, mm, members, root, leader, state', mm', members', root', leader')
  BY <1>1, <1>2, <1>3, <1>4 DEF Born, Dead
<1>6. SpaceOk(state', mm', members', root', tables \cup {r}, leader')
  <2>1. SpaceOk(state, mm, members, root, tables, leader) /\ r \notin tables
    BY <1>2 DEF SpaceInv
  <2> QED
    BY <1>5, <2>1, NewSpaceOk
<1> QED
  BY <1>2, <1>6 DEF SpaceInv

\* A slot joins the space of the caller.
LEMMA JoinSpaceKeeps ==
    ASSUME RunInv, SpaceInv, NEW c \in Cpus, mode[c] # "user", NEW i \in Slots, NEW l, NEW par,
           FreeSlot(i), NewSlot(i, l, par), JoinSpace(c, i), NEW st, NEW on, Settled(st, on),
           st[i] \notin Dead, \A j \in Slots \ {i} : st[j] = state[j] \/ {st[j], state[j]} \cap Dead = {}
    PROVE  SpaceInv'
<1> DEFINE m == mm[current[c]]
<1>1. current[c] \in Slots /\ current[c] \in Alive(state)
  BY CallerRuns DEF Alive, Dead
<1>2. m \in Owners(state, mm) /\ m \in Slots
  BY <1>1 DEF SpaceInv, SpaceOk, Owners
<1>3. state[i] = "Unused"
  BY DEF FreeSlot
<1>4. m # i
  BY <1>2, <1>3 DEF Owners
<1>5. /\ mm \in [Slots -> Slots] /\ members \in [Slots -> Nat]
      /\ root \in [Slots -> Nat] /\ leader \in [Slots -> Slots]
  BY DEF RunInv, Types, SpaceTypes, FamilyTypes
<1>6. /\ mm' = [mm EXCEPT ![i] = m] /\ root' = [root EXCEPT ![i] = root[m]] /\ tables' = tables
      /\ members' = [j \in Slots |-> IF j = m THEN members[m] + 1 ELSE IF j = i THEN 0 ELSE members[j]]
      /\ leader' = [leader EXCEPT ![i] = l]
  BY DEF JoinSpace, NewSlot
<1> HIDE DEF m
<1> DEFINE new == [j \in Slots |-> IF j = i THEN "Ready" ELSE state[j]]
<1>7. /\ new[i] \notin Dead /\ mm'[i] = m /\ root'[i] = root[m] /\ members'[m] = members[m] + 1
      /\ \A j \in Slots \ {i} : /\ new[j] = state[j] /\ mm'[j] = mm[j]
                                /\ root'[j] = root[j] /\ leader'[j] = leader[j]
      /\ \A j \in Slots \ {i, m} : members'[j] = members[j]
  BY <1>2, <1>4, <1>5, <1>6 DEF Dead
<1>8. SameLife(new, st)
  BY <1>7 DEF SameLife, Dead
<1> HIDE DEF new
<1>9. SpaceOk(new, mm', members', root', tables, leader')
  BY <1>2, <1>3, <1>7, JoinOk DEF SpaceInv
<1>10. SameLife(new, state')
  BY <1>8, SettledLife DEF SameLife
<1>11. SpaceOk(state', mm', members', root', tables, leader')
  BY <1>9, <1>10, LikeOk
<1> QED
  BY <1>6, <1>11 DEF SpaceInv

\* A thread.
LEMMA ThreadSpace ==
    ASSUME RunInv, SpaceInv, NEW c \in Cpus, thread_create(c)
    PROVE  SpaceInv'
<1>1. PICK i \in Slots :
          /\ FreeSlot(i)
          /\ NewSlot(i, leader[current[c]], parent[leader[current[c]]])
          /\ JoinSpace(c, i)
          /\ Return(c, [state EXCEPT ![i] = "Ready"], blocked_on)
  BY DEF thread_create
<1>2. PICK st : st = [state EXCEPT ![i] = "Ready"]
  OBVIOUS
<1>3. Settled(st, blocked_on) /\ mode[c] # "user"
  BY <1>1, <1>2, ReturnSettled DEF thread_create, Calls
<1>4. st[i] \notin Dead /\ \A j \in Slots \ {i} : st[j] = state[j]
  BY <1>2 DEF RunInv, Types, WaitTypes, Dead
<1> QED
  BY <1>1, <1>3, <1>4, JoinSpaceKeeps

\* A vfork child, and its parent that stops.
LEMMA VforkSpace ==
    ASSUME RunInv, SpaceInv, NEW c \in Cpus, Vfork(c)
    PROVE  SpaceInv'
<1> DEFINE s == current[c]
<1>1. PICK i \in Slots :
          /\ FreeSlot(i)
          /\ NewSlot(i, i, Pid(leader[s]))
          /\ JoinSpace(c, i)
          /\ Block(c, [state EXCEPT ![i] = "Ready", ![s] = "VforkWait"], blocked_on, redo, timed)
  BY DEF Vfork
<1>2. PICK st : st = [state EXCEPT ![i] = "Ready", ![s] = "VforkWait"]
  OBVIOUS
<1>3. mode[c] # "user"
  BY DEF Vfork, Calls
<1>4. s \in Slots /\ state[s] = "Running"
  BY <1>3, CallerRuns
<1>5. Dispatch(c, st, blocked_on, redo, timed)
  BY <1>1, <1>2 DEF Block
<1>6. Settled(st, blocked_on)
  BY <1>5, DispatchSettled
<1>7. /\ st[i] \notin Dead
      /\ \A j \in Slots \ {i} : st[j] = state[j] \/ {st[j], state[j]} \cap Dead = {}
  BY <1>2, <1>4 DEF RunInv, Types, WaitTypes, Dead
<1> QED
  BY <1>1, <1>3, <1>6, <1>7, JoinSpaceKeeps

\* The table of an execve that succeeds is one in which the caller left its
\* space with the threads that died, and then came back in a new one.
ExecTable(s, D) ==
    [i \in Slots |-> IF i \in VforkWoken(D \cup {s}) \ D THEN "Ready"
                     ELSE IF i \in Freed(D \cup {s}) \ (D \cup {s}) THEN "Unused"
                     ELSE Reaped(D)[i]]

\* The threads of a leader own no space, and the leader is the last user of
\* its own space if the execve does not fail.
LEMMA ExecLeaves ==
    ASSUME Types, SpaceInv, NEW s \in Live, IsLeader(s),
           ~(mm[s] = s /\ Left(Stopped(s), s) > 1)
    PROVE  Without([ExecTable(s, Stopped(s)) EXCEPT ![s] = "Unused"], Stopped(s) \cup {s})
<1> DEFINE D == Stopped(s)
           X == D \cup {s}
           st == ExecTable(s, D)
           st1 == [st EXCEPT ![s] = "Unused"]
<1>1. D \in SUBSET Live /\ X \in SUBSET Live /\ s \notin D /\ s \in X /\ D \subseteq X
  BY DoomedLive
<1>2. Live = Alive(state) /\ Live \subseteq Slots
  BY DEF Live, Alive, Dead
<1>3. \A d \in D : mm[d] # d
  <2>1. \A d \in D : leader[d] # d
    BY <1>1 DEF Stopped, OthersOf
  <2> QED
    BY <1>1, <1>2, <2>1 DEF SpaceInv, SpaceOk
<1>4. mm[s] = s => ~(Left(X, s) > 0)
  <2> SUFFICES ASSUME mm[s] = s PROVE ~(Left(X, s) > 0)
    OBVIOUS
  <2>1. s \in Owners(state, mm)
    BY <1>1, <1>2 DEF Owners, Alive, Dead
  <2>2. PICK U : U = UsersOf(state, mm, s)
    OBVIOUS
  <2>3. Left(D, s) = Cardinality(U \ D) /\ Left(X, s) = Cardinality(U \ X)
    BY <1>1, <2>1, <2>2, LeftIs
  <2>4. PICK V : V = U \ D
    OBVIOUS
  <2>5. V \in SUBSET Slots /\ s \in V /\ U \ X = V \ {s}
    BY <1>1, <1>2, <2>2, <2>4 DEF UsersOf
  <2>6. IsFiniteSet(V) /\ Cardinality(V) \in Nat /\ Cardinality(V \ {s}) = Cardinality(V) - 1
    BY <2>5, SlotSets, FS_RemoveElement
  <2>7. ~(Cardinality(V) > 1)
    BY <2>3, <2>4
  <2>8. ~(Cardinality(V \ {s}) > 0)
    BY <2>6, <2>7
  <2> QED
    BY <2>3, <2>5, <2>8
<1>5. Freed(D) \subseteq Freed(X)
  <2> SUFFICES ASSUME NEW m \in Freed(D) PROVE m \in Freed(X)
    OBVIOUS
  <2>1. /\ m \in Slots /\ mm[m] = m /\ (m \in D \/ state[m] = "Zombie")
        /\ (\E x \in D : mm[x] = m) /\ Left(D, m) = 0
    BY DEF Freed
  <2>2. m \in Owners(state, mm)
    BY <1>1, <1>2, <2>1 DEF Owners, Alive, Dead
  <2>3. ~(Left(X, m) > 0)
    <3>1. ~ \E i \in Live \ D : mm[i] = m
      <4>1. ~(Left(D, m) > 0)
        BY <2>1
      <4>2. Left(D, m) > 0 <=> \E i \in Live \ D : mm[i] = m
        BY <1>1, <2>2, LeftIs
      <4> QED
        BY <4>1, <4>2
    <3>2. ~ \E i \in Live \ X : mm[i] = m
      BY <1>1, <3>1
    <3> QED
      BY <1>1, <2>2, <3>2, LeftIs
  <2>4. Left(X, m) \in Nat
    BY <1>1, <1>2, <2>1, LeftIsNat
  <2>5. Left(X, m) = 0
    BY <2>3, <2>4
  <2> QED
    BY <1>1, <2>1, <2>5 DEF Freed
<1>6. \A i \in VforkWoken(X) : state[i] \notin Dead
  BY DEF VforkWoken, Dead
<1>7. \A i \in Freed(X) : mm[i] = i /\ (i \in X \/ state[i] = "Zombie") /\ Left(X, i) = 0
  BY DEF Freed
<1>8. \A i \in Slots : i \in X => state[i] \notin Dead
  BY <1>1 DEF Live, Dead
<1>9. \A i \in Slots : st[i] = IF i \in VforkWoken(X) \ D THEN "Ready"
                               ELSE IF i \in Freed(X) \ X THEN "Unused" ELSE Reaped(D)[i]
  BY DEF ExecTable
<1>10. \A i \in Slots : st1[i] = IF i = s THEN "Unused" ELSE st[i]
  BY DEF ExecTable
<1>11. Without(Reaped(D), D)
  BY <1>1, ReapedWithout
<1> HIDE DEF D, X, st, st1
<1> SUFFICES ASSUME NEW i \in Slots
             PROVE  /\ st1[i] = "Unused" <=> \/ state[i] = "Unused" \/ i \in Freed(X)
                                             \/ i \in X /\ ~(mm[i] = i /\ Left(X, i) > 0)
                    /\ st1[i] = "Zombie" <=> \/ state[i] = "Zombie" /\ i \notin Freed(X)
                                             \/ i \in X /\ mm[i] = i /\ Left(X, i) > 0
  BY DEF Without, D, X, st, st1
<1>12. /\ Reaped(D)[i] = "Unused" <=> \/ state[i] = "Unused" \/ i \in Freed(D)
                                      \/ i \in D /\ ~(mm[i] = i /\ Left(D, i) > 0)
       /\ Reaped(D)[i] = "Zombie" <=> \/ state[i] = "Zombie" /\ i \notin Freed(D)
                                      \/ i \in D /\ mm[i] = i /\ Left(D, i) > 0
  BY <1>11 DEF Without
<1>13. CASE i = s
  BY <1>1, <1>4, <1>8, <1>10, <1>13 DEF Dead
<1>14. CASE i \in D
  <2>1. i \in X /\ i # s /\ mm[i] # i
    BY <1>1, <1>3, <1>14
  <2>2. st1[i] = Reaped(D)[i]
    BY <1>9, <1>10, <1>14, <2>1
  <2> QED
    BY <1>8, <1>12, <1>14, <2>1, <2>2 DEF Dead
<1>15. CASE i \notin X
  <2>1. i \notin D /\ i # s
    BY <1>1, <1>15
  <2>2. CASE i \in VforkWoken(X)
    <3>1. st1[i] = "Ready" /\ i \notin Freed(X)
      BY <1>6, <1>7, <1>9, <1>10, <1>15, <2>1, <2>2 DEF Dead
    <3> QED
      BY <1>6, <1>15, <2>2, <3>1 DEF Dead
  <2>3. CASE i \notin VforkWoken(X) /\ i \in Freed(X)
    <3>1. st1[i] = "Unused"
      BY <1>9, <1>10, <1>15, <2>1, <2>3
    <3> QED
      BY <1>15, <2>3, <3>1
  <2>4. CASE i \notin VforkWoken(X) /\ i \notin Freed(X)
    <3>1. st1[i] = Reaped(D)[i] /\ i \notin Freed(D)
      BY <1>5, <1>9, <1>10, <1>15, <2>1, <2>4
    <3> QED
      BY <1>12, <1>15, <2>1, <2>4, <3>1
  <2> QED
    BY <2>2, <2>3, <2>4
<1>16. X = D \cup {s}
  BY DEF X
<1> QED
  BY <1>13, <1>14, <1>15, <1>16

\* An execve.
LEMMA ExecSpace ==
    ASSUME RunInv, SpaceInv, NEW c \in Cpus, exec_replace(c)
    PROVE  SpaceInv'
<1> DEFINE s == current[c]
           D == Stopped(s)
           X == D \cup {s}
<1>1. s \in Live /\ s \in Slots /\ state[s] = "Running"
  BY CallerRuns DEF Live, exec_replace, Calls
<1>2. D \in SUBSET Live /\ X \in SUBSET Live /\ s \in X /\ IsLeader(s) /\ Types
  BY <1>1, DoomedLive DEF exec_replace, RunInv
<1>3. leader' = leader
  BY DEF exec_replace, family
<1>4. CASE DropSpaces(D) /\ Return(c, Reaped(D), blocked_on)
  <2>1. Settled(Reaped(D), blocked_on)
    BY <1>4, ReturnSettled
  <2> QED
    BY <1>2, <1>3, <1>4, <2>1, ReapSpace
<1>5. ASSUME ~(mm[s] = s /\ Left(D, s) > 1),
             members' = [m \in Slots |-> IF m = s THEN 1 ELSE Left(X, m)],
             mm' = [i \in Slots |-> IF i \in X THEN i ELSE mm[i]],
             NEW r \in RootsOf(s) \ tables,
             root' = [i \in Slots |->
                        IF i = s THEN r
                        ELSE IF i \in Freed(X) \/ (i \in X /\ mm[i] # i) THEN 0
                        ELSE root[i]],
             tables' = (tables \ {root[m] : m \in Freed(X)}) \cup {r},
             Return(c, ExecTable(s, D), blocked_on)
      PROVE  SpaceInv'
  <2>1. PICK st1 : st1 = [ExecTable(s, D) EXCEPT ![s] = "Unused"]
    OBVIOUS
  <2>2. Without(st1, X)
    BY <1>1, <1>2, <1>5, <2>1, ExecLeaves
  <2>3. PICK tb : tb = tables \ {root[m] : m \in Freed(X)}
    OBVIOUS
  <2>4. SpaceOk(st1, MmWithout(X), LeftWithout(X), RootWithout(X), tb, leader)
    BY <1>2, <2>2, <2>3, DropOk
  <2>5. state' = ExecTable(s, D)
    BY <1>5, ReturnSettled
  <2>6. /\ st1[s] = "Unused"
        /\ \A j \in Slots \ {s} : st1[j] = state'[j]
    BY <1>1, <2>1, <2>5 DEF ExecTable
  <2>7. state'[s] \notin Dead
    <3>1. s \notin D /\ s \notin Freed(D) /\ s \notin Freed(X) \ X /\ s \notin VforkWoken(X)
      BY <1>1, <1>2, DoomedLive DEF Freed, VforkWoken, Live
    <3>2. ExecTable(s, D)[s] = Reaped(D)[s]
      BY <1>1, <3>1 DEF ExecTable
    <3>3. Reaped(D)[s] \in {state[s], "Ready"}
      BY <1>1, <3>1 DEF Reaped
    <3> QED
      BY <1>1, <2>5, <3>2, <3>3 DEF Dead
  <2>8. /\ \A j \in Slots : mm'[j] = MmWithout(X)[j]
        /\ \A j \in Slots \ {s} : /\ members'[j] = LeftWithout(X)[j]
                                  /\ root'[j] = RootWithout(X)[j]
        /\ mm'[s] = s /\ members'[s] = 1 /\ root'[s] = r
    BY <1>1, <1>2, <1>5 DEF MmWithout, LeftWithout, RootWithout
  <2>9. leader'[s] = s /\ r \notin tb /\ tables' = tb \cup {r}
    BY <1>2, <1>3, <1>5, <2>3 DEF IsLeader
  <2>10. Born(s, r, st1, MmWithout(X), LeftWithout(X), RootWithout(X), leader,
              state', mm', members', root', leader')
    BY <1>3, <2>6, <2>7, <2>8, <2>9 DEF Born
  <2>11. SpaceOk(state', mm', members', root', tb \cup {r}, leader')
    BY <1>1, <2>4, <2>9, <2>10, NewSpaceOk
  <2> QED
    BY <2>9, <2>11 DEF SpaceInv
<1>6. \/ DropSpaces(D) /\ Return(c, Reaped(D), blocked_on)
      \/ /\ ~(mm[s] = s /\ Left(D, s) > 1)
         /\ members' = [m \in Slots |-> IF m = s THEN 1 ELSE Left(X, m)]
         /\ mm' = [i \in Slots |-> IF i \in X THEN i ELSE mm[i]]
         /\ \E r \in RootsOf(s) \ tables :
               /\ root' = [i \in Slots |->
                     IF i = s THEN r
                     ELSE IF i \in Freed(X) \/ (i \in X /\ mm[i] # i) THEN 0
                     ELSE root[i]]
               /\ tables' = (tables \ {root[m] : m \in Freed(X)}) \cup {r}
         /\ Return(c, ExecTable(s, D), blocked_on)
  BY DEF exec_replace, ExecTable
<1> QED
  BY <1>4, <1>5, <1>6

\* A kill of a slot that does not run, or of the caller, or a mark.
LEMMA KillSpace ==
    ASSUME RunInv, SpaceInv, NEW c \in Cpus, Kill(c)
    PROVE  SpaceInv'
<1>1. Types /\ current[c] # IDLE
  BY CallerRuns, SlotsOK DEF RunInv, Kill, Calls
<1>2. PICK t \in Live :
          \/ exit_locked(c)
          \/ UNCHANGED <<space, family>> /\ Return(c, state, blocked_on)
          \/ ReapEffects(Doomed(t), Marked(t)) /\ Return(c, Reaped(Doomed(t)), blocked_on)
  BY DEF Kill
<1>3. CASE exit_locked(c)
  BY <1>1, <1>3, ExitLockedExits, ExitSpace
<1>4. CASE UNCHANGED <<space, family>> /\ Return(c, state, blocked_on)
  BY <1>4, ReturnSettled, QuietSpace DEF SameLife, family
<1>5. CASE ReapEffects(Doomed(t), Marked(t)) /\ Return(c, Reaped(Doomed(t)), blocked_on)
  <2>1. DropSpaces(Doomed(t)) /\ leader' = leader
    BY <1>5 DEF ReapEffects, family
  <2> QED
    BY <1>1, <1>5, <2>1, ReturnSettled, DoomedLive, ReapSpace
<1> QED
  BY <1>2, <1>3, <1>4, <1>5

\* A table in which slots that live, and are in no vfork, change among
\* themselves, and who starts to wait for a child has one.
Milder(st, on) ==
    \A i \in Slots :
        /\ \/ st[i] = state[i]
           \/ /\ state[i] \notin Dead \cup {"VforkWait"}
              /\ st[i] \notin Dead \cup {"VforkWait"}
        /\ st[i] = "WaitChild" => \/ state[i] = "WaitChild" /\ on[i] = blocked_on[i]
                                  \/ HasChild(Pid(leader[i]), on[i])

\* A step in which nobody is born or dies and no space changes.
Quiet ==
    /\ UNCHANGED <<space, leader, generation, parent, vfork>>
    /\ \E st, on : Settled(st, on) /\ Milder(st, on)

\* A quiet step keeps the spaces right.
LEMMA QuietKeepsSpace ==
    ASSUME SpaceInv, Quiet
    PROVE  SpaceInv'
<1>1. PICK st, on : Settled(st, on) /\ Milder(st, on)
  BY DEF Quiet
<1>2. SameLife(state, st) /\ UNCHANGED <<space, leader>>
  BY <1>1 DEF SameLife, Milder, Dead, Quiet
<1> QED
  BY <1>1, <1>2, QuietSpace

\* The table as it is.
LEMMA SameQuiet ==
    ASSUME Types, UNCHANGED <<space, family, vfork>>,
           \/ Settled(state, blocked_on)
           \/ UNCHANGED <<state, blocked_on>>
    PROVE  Quiet
<1>1. Settled(state, blocked_on)
  BY DEF Settled
<1>2. Milder(state, blocked_on)
  BY DEF Milder
<1> QED
  BY <1>1, <1>2 DEF Quiet, family

\* One slot changes, to no wait for a child.
LEMMA OneQuiet ==
    ASSUME Types, UNCHANGED <<space, family, vfork>>, NEW i \in Slots, NEW x, NEW on,
           state[i] \notin Dead \cup {"VforkWait"}, x \notin Dead \cup {"VforkWait", "WaitChild"},
           \A j \in Slots \ {i} : on[j] = blocked_on[j],
           Settled([state EXCEPT ![i] = x], on)
    PROVE  Quiet
<1>1. PICK st : st = [state EXCEPT ![i] = x]
  OBVIOUS
<1>2. \A j \in Slots : st[j] = IF j = i THEN x ELSE state[j]
  BY <1>1 DEF Types, WaitTypes
<1>3. Milder(st, on)
  BY <1>2 DEF Milder
<1> QED
  BY <1>1, <1>3 DEF Quiet, family

\* A call that waits for a child, or collects one.
LEMMA WaitQuiet ==
    ASSUME RunInv, NEW c \in Cpus, Wait(c)
    PROVE  Quiet
<1> DEFINE s == current[c]
<1>1. s \in Slots /\ state[s] = "Running" /\ Types /\ UNCHANGED <<space, family, vfork>>
  BY CallerRuns DEF Wait, Calls, RunInv
<1>2. PICK pid \in AllPids \cup {ANY}, rd \in BOOLEAN :
          \/ Return(c, state, blocked_on)
          \/ /\ HasChild(Pid(leader[s]), pid)
             /\ Block(c, [state EXCEPT ![s] = "WaitChild"], [blocked_on EXCEPT ![s] = pid],
                      [redo EXCEPT ![s] = rd], timed)
  BY DEF Wait
<1>3. CASE Return(c, state, blocked_on)
  BY <1>1, <1>3, ReturnSettled, SameQuiet
<1>4. CASE /\ HasChild(Pid(leader[s]), pid)
           /\ Block(c, [state EXCEPT ![s] = "WaitChild"], [blocked_on EXCEPT ![s] = pid],
                    [redo EXCEPT ![s] = rd], timed)
  <2>1. PICK st, on, rd2 : /\ st = [state EXCEPT ![s] = "WaitChild"]
                           /\ on = [blocked_on EXCEPT ![s] = pid]
                           /\ rd2 = [redo EXCEPT ![s] = rd]
    OBVIOUS
  <2>2. Dispatch(c, st, on, rd2, timed)
    BY <1>4, <2>1 DEF Block
  <2>3. Settled(st, on)
    BY <2>2, DispatchSettled
  <2>4. /\ \A j \in Slots : st[j] = IF j = s THEN "WaitChild" ELSE state[j]
        /\ \A j \in Slots \ {s} : on[j] = blocked_on[j]
        /\ on[s] = pid
    BY <1>1, <2>1 DEF Types, WaitTypes
  <2>5. Milder(st, on)
    BY <1>1, <1>4, <2>4 DEF Milder, Dead
  <2> QED
    BY <1>1, <2>3, <2>5 DEF Quiet, family
<1> QED
  BY <1>2, <1>3, <1>4

\* The scheduler, the clock, and calls that only sleep.
LEMMA SchedulerQuiet ==
    ASSUME RunInv, NEW c \in Cpus,
           IdleTick(c) \/ Preempt(c) \/ Null(c) \/ Yield(c) \/ Sleep(c)
    PROVE  Quiet
<1>1. Types /\ UNCHANGED <<space, family, vfork>>
  BY DEF RunInv, IdleTick, Preempt, Null, Yield, Sleep
<1>2. CASE Dispatch(c, state, blocked_on, redo, timed)
  BY <1>1, <1>2, DispatchSettled, SameQuiet
<1>3. CASE Return(c, state, blocked_on)
  BY <1>1, <1>3, ReturnSettled, SameQuiet
<1>4. CASE Reschedule(c)
  <2>1. PICK st : st = [i \in Slots |-> IF i = current[c] /\ state[i] = "Running"
                                        THEN "Ready" ELSE state[i]]
    OBVIOUS
  <2>2. Dispatch(c, st, blocked_on, redo, timed)
    BY <1>4, <2>1 DEF Reschedule
  <2>3. Settled(st, blocked_on)
    BY <2>2, DispatchSettled
  <2>4. Milder(st, blocked_on)
    BY <2>1 DEF Milder, Dead
  <2> QED
    BY <1>1, <2>3, <2>4 DEF Quiet, family
<1>5. CASE Sleep(c)
  <2>1. current[c] \in Slots /\ state[current[c]] = "Running"
    BY <1>5, CallerRuns DEF Sleep, Calls
  <2>2. PICK tm : tm = [timed EXCEPT ![current[c]] = TRUE]
    OBVIOUS
  <2>3. Dispatch(c, [state EXCEPT ![current[c]] = "Sleeping"], blocked_on, redo, tm)
    BY <1>5, <2>2 DEF Sleep, Block
  <2>4. Settled([state EXCEPT ![current[c]] = "Sleeping"], blocked_on)
    BY <2>3, DispatchSettled
  <2>5. "Running" \notin Dead \cup {"VforkWait"} /\ "Sleeping" \notin Dead \cup {"VforkWait", "WaitChild"}
    BY DEF Dead
  <2> QED
    BY <1>1, <2>1, <2>4, <2>5, OneQuiet
<1> QED
  BY <1>2, <1>3, <1>4, <1>5 DEF IdleTick, Preempt, Null, Yield

\* The calls of IPC.
LEMMA IpcQuiet ==
    ASSUME RunInv, NEW c \in Cpus, ipc_send(c) \/ ipc_recv(c) \/ ipc_reply(c)
    PROVE  Quiet
<1> DEFINE me == current[c]
<1>1. Types /\ UNCHANGED <<space, family, vfork>> /\ me \in Slots /\ state[me] = "Running"
  BY CallerRuns DEF RunInv, ipc_send, ipc_recv, ipc_reply, Calls
<1>2. \A x \in {"Running", "SendBlocked", "ReplyBlocked", "RecvBlocked", "Ready"} :
          x \notin Dead \cup {"VforkWait", "WaitChild"}
  BY DEF Dead
<1>3. CASE ipc_send(c)
  <2>1. PICK dst \in Live \ {me} :
          \/ /\ state[dst] = "RecvBlocked"
             /\ Block(c, [state EXCEPT ![dst] = "Ready", ![me] = "ReplyBlocked"],
                      [blocked_on EXCEPT ![me] = dst], redo, timed)
          \/ Block(c, [state EXCEPT ![me] = "SendBlocked"],
                   [blocked_on EXCEPT ![me] = dst], redo, timed)
    BY <1>3 DEF ipc_send
  <2>2. PICK on : on = [blocked_on EXCEPT ![me] = dst]
    OBVIOUS
  <2>3. \A j \in Slots \ {me} : on[j] = blocked_on[j]
    BY <2>2 DEF RunInv, Types, WaitTypes
  <2>4. CASE Block(c, [state EXCEPT ![me] = "SendBlocked"], on, redo, timed)
    <3>1. Dispatch(c, [state EXCEPT ![me] = "SendBlocked"], on, redo, timed)
      BY <2>4 DEF Block
    <3>2. Settled([state EXCEPT ![me] = "SendBlocked"], on)
      BY <3>1, DispatchSettled
    <3> QED
      BY <1>1, <1>2, <2>3, <3>2, OneQuiet
  <2>5. CASE /\ state[dst] = "RecvBlocked"
             /\ Block(c, [state EXCEPT ![dst] = "Ready", ![me] = "ReplyBlocked"], on, redo, timed)
    <3>1. PICK st : st = [state EXCEPT ![dst] = "Ready", ![me] = "ReplyBlocked"]
      OBVIOUS
    <3>2. Dispatch(c, st, on, redo, timed)
      BY <2>5, <3>1 DEF Block
    <3>3. Settled(st, on)
      BY <3>2, DispatchSettled
    <3>4. \A j \in Slots : st[j] = IF j = me THEN "ReplyBlocked" ELSE IF j = dst THEN "Ready" ELSE state[j]
      BY <1>1, <3>1 DEF Types, WaitTypes
    <3>5. Milder(st, on)
      BY <1>1, <2>3, <2>5, <3>4 DEF Milder, Dead
    <3> QED
      BY <1>1, <3>3, <3>5 DEF Quiet, family
  <2> QED
    BY <2>1, <2>2, <2>4, <2>5
<1>4. CASE ipc_recv(c)
  <2>1. CASE Senders(me) # {} /\ accept_from(c, FirstSender(me))
    <3>1. PICK f : f = FirstSender(me)
      OBVIOUS
    <3>2. f \in Slots /\ state[f] = "SendBlocked"
      <4>1. f \in Senders(me)
        BY <1>1, <2>1, <3>1, FirstSenderIs DEF RunInv
      <4> QED
        BY <4>1 DEF Senders
    <3>3. PICK on : on = [blocked_on EXCEPT ![f] = me]
      OBVIOUS
    <3>4. \A j \in Slots \ {f} : on[j] = blocked_on[j]
      BY <3>3 DEF RunInv, Types, WaitTypes
    <3>5. Settled([state EXCEPT ![f] = "ReplyBlocked"], on)
      BY <2>1, <3>1, <3>3, ReturnSettled DEF accept_from
    <3> QED
      BY <1>1, <1>2, <3>2, <3>4, <3>5, OneQuiet
  <2>2. ASSUME NEW t \in BOOLEAN,
               Block(c, [state EXCEPT ![me] = "RecvBlocked"], blocked_on, redo, [timed EXCEPT ![me] = t])
        PROVE  Quiet
    <3>1. PICK tm : tm = [timed EXCEPT ![me] = t]
      OBVIOUS
    <3>2. Dispatch(c, [state EXCEPT ![me] = "RecvBlocked"], blocked_on, redo, tm)
      BY <2>2, <3>1 DEF Block
    <3>3. Settled([state EXCEPT ![me] = "RecvBlocked"], blocked_on)
      BY <3>2, DispatchSettled
    <3> QED
      BY <1>1, <1>2, <3>3, OneQuiet
  <2> QED
    BY <1>4, <2>1, <2>2 DEF ipc_recv
<1>5. CASE ipc_reply(c)
  <2>1. PICK to \in Live : state[to] = "ReplyBlocked" /\ Return(c, [state EXCEPT ![to] = "Ready"], blocked_on)
    BY <1>5 DEF ipc_reply
  <2>2. to \in Slots /\ Settled([state EXCEPT ![to] = "Ready"], blocked_on)
    BY <2>1, ReturnSettled DEF Live
  <2> QED
    BY <1>1, <1>2, <2>1, <2>2, OneQuiet
<1> QED
  BY <1>3, <1>4, <1>5

\* Every step is quiet, a birth, an execve, a kill or an exit.
LEMMA Kinds ==
    ASSUME RunInv, [Next]_vars
    PROVE  \/ Quiet
           \/ \E c \in Cpus : \/ Exits(c) \/ Create(c) \/ thread_create(c) \/ Vfork(c)
                              \/ exec_replace(c) \/ Kill(c)
<1>1. Types
  BY DEF RunInv
<1>2. CASE UNCHANGED vars
  BY <1>1, <1>2, SameQuiet DEF vars, waits
<1>3. ASSUME NEW s \in Slots, Deadline(s) PROVE Quiet
  BY <1>1, <1>3, SameQuiet DEF Deadline
<1>4. ASSUME NEW c \in Cpus, NEW half, Enter(c, half) PROVE Quiet \/ Exits(c)
  <2>1. CASE exit_locked(c)
    BY <1>4, <2>1, ExitLockedExits DEF Enter
  <2>2. CASE UNCHANGED <<space, ring, family, waits, vfork, killed, current, rr_next>>
    BY <1>1, <2>2, SameQuiet DEF waits
  <2> QED
    BY <1>4, <2>1, <2>2 DEF Enter
<1>5. ASSUME NEW c \in Cpus, UserFault(c) \/ Exit(c) \/ ExitGroup(c) PROVE Exits(c)
  <2>1. current[c] # IDLE
    BY <1>5, CallerRuns, SlotsOK DEF Exit, ExitGroup, UserFault, Calls
  <2> QED
    BY <1>5, <2>1, ExitLockedExits, ExitGroupExits DEF Exit, ExitGroup, UserFault
<1> QED
  BY <1>2, <1>3, <1>4, <1>5, SchedulerQuiet, WaitQuiet, IpcQuiet DEF Next, Syscall

\* Every step keeps the spaces right.
LEMMA SpaceKept == RunInv /\ SpaceInv /\ [Next]_vars => SpaceInv'
  BY Kinds, QuietKeepsSpace, ExitSpace, CreateSpace, ThreadSpace, VforkSpace, ExecSpace, KillSpace

\* The boot's process owns the only space.
LEMMA InitSpace == Init => SpaceInv
<1> SUFFICES ASSUME Init PROVE SpaceInv
  OBVIOUS
<1>1. 0 \in Slots
  BY ConstantsOK DEF Slots
<1>2. Alive(state) = {0} /\ Owners(state, mm) = {0} /\ UsersOf(state, mm, 0) = {0}
  BY <1>1 DEF Init, Alive, Owners, UsersOf, Dead
<1>3. Cardinality({0}) = 1
  BY FS_Singleton
<1>4. members[0] = 1 /\ root[0] = 1 /\ mm[0] = 0 /\ leader[0] = 0 /\ tables = {1}
  BY <1>1 DEF Init
<1>5. \A m \in Slots : state[m] # "Zombie"
  BY DEF Init
<1> QED
  BY <1>2, <1>3, <1>4, <1>5 DEF SpaceInv, SpaceOk

\* The invariant of the spaces holds.
LEMMA SpaceAlways == Spec => []SpaceInv
  BY InitSpace, SpaceKept, RunInvAlways, PTL DEF Spec

\* No thread and no vfork child runs on tables that were given back, and no
\* tables stay without a user, for every number of processes and in every
\* order in which owners, threads and vfork children end (drop_mm, free_mm).
THEOREM SpacesExact == Spec => []SpaceExact
<1>1. SpaceInv => SpaceExact
  <2> SUFFICES ASSUME SpaceInv PROVE SpaceExact
    OBVIOUS
  <2>1. Live = Alive(state)
    BY DEF Live, Alive, Dead
  <2>2. \A m : {i \in Live : mm[i] = m} = UsersOf(state, mm, m)
    BY <2>1 DEF UsersOf
  <2>3. \A i \in Live : mm[mm[i]] = mm[i] /\ root[i] = root[mm[i]] /\ root[i] \in tables
    BY <2>1 DEF SpaceInv, SpaceOk, Owners
  <2>4. \A m \in Owners(state, mm) : members[m] = Cardinality({i \in Live : mm[i] = m}) /\ members[m] > 0
    BY <2>2 DEF SpaceInv, SpaceOk
  <2>5. ASSUME NEW r \in tables PROVE \E i \in Live : root[i] = r
    <3>1. PICK m \in Owners(state, mm) : r = root[m]
      BY DEF SpaceInv, SpaceOk
    <3>2. PICK U : U = {i \in Live : mm[i] = m}
      OBVIOUS
    <3>3. U # {}
      BY <2>4, <3>2, FS_EmptySet
    <3>4. PICK i \in Live : mm[i] = m
      BY <3>2, <3>3
    <3> QED
      BY <2>1, <3>1, <3>4 DEF SpaceInv, SpaceOk
  <2> QED
    BY <2>3, <2>4, <2>5 DEF SpaceExact, Owners
<1> QED
  BY <1>1, SpaceAlways, PTL

-----------------------------------------------------------------------------
(* vfork: the caller that owns its space sleeps while the child is in it.    *)

\* A vfork child runs in the space of its caller, which waits or is dead,
\* and has no other such child.
VforkInv ==
    \A i \in Live : LET p == vfork_parent[i] IN
        p # IDLE => /\ mm[i] = p
                    /\ state[p] \in {"VforkWait", "Zombie"}
                    /\ \A j \in Live \ {i} : vfork_parent[j] # p

\* Who waits for a child that stays in its space goes on waiting, or is a
\* Zombie that stays.
Suspended(st, X) ==
    \A p \in Slots :
        /\ state[p] \in {"VforkWait", "Zombie"}
        /\ \A x \in X : vfork_parent[x] # p
        /\ \E i \in Live \ X : mm[i] = p
        => st[p] \in {"VforkWait", "Zombie"}

\* A step in which the slots X let go of their spaces.
LEMMA LetGo ==
    ASSUME Types, SpaceInv, VforkInv, NEW X \in SUBSET Live, NEW st, NEW on,
           Settled(st, on), Suspended(st, X), ForgetVfork(X),
           \A i \in Slots \ X : mm'[i] = mm[i],
           \A i \in Slots \ X : st[i] \notin Dead => i \in Live
    PROVE  VforkInv'
<1>1. /\ vfork_parent' = [i \in Slots |-> IF i \in X THEN IDLE ELSE vfork_parent[i]]
      /\ Live \subseteq Slots /\ vfork_parent \in [Slots -> Slots \cup {IDLE}]
  BY DEF ForgetVfork, Live, Types, VforkTypes
<1>2. \A i \in Live' : i \in Slots /\ (i \notin X => i \in Live)
  <2>1. \A i \in Slots : state'[i] \notin Dead => st[i] \notin Dead
    BY DEF Settled, Dead
  <2> QED
    BY <2>1 DEF Live, Dead
<1> SUFFICES ASSUME NEW i \in Live', vfork_parent'[i] # IDLE
             PROVE  /\ mm'[i] = vfork_parent'[i]
                    /\ state'[vfork_parent'[i]] \in {"VforkWait", "Zombie"}
                    /\ \A j \in Live' \ {i} : vfork_parent'[j] # vfork_parent'[i]
  BY DEF VforkInv
<1>3. i \in Live \ X /\ vfork_parent'[i] = vfork_parent[i] /\ i \in Slots
  BY <1>1, <1>2
<1>4. PICK p \in Slots : p = vfork_parent[i] /\ p # IDLE
  BY <1>1, <1>3
<1>5. /\ mm[i] = p /\ state[p] \in {"VforkWait", "Zombie"}
      /\ \A j \in Live \ {i} : vfork_parent[j] # p
  BY <1>3, <1>4 DEF VforkInv
<1>6. mm'[i] = p
  BY <1>3, <1>5
<1>7. \A j \in Live' \ {i} : vfork_parent'[j] # p
  BY <1>1, <1>2, <1>4, <1>5
<1>8. st[p] \in {"VforkWait", "Zombie"}
  BY <1>3, <1>5 DEF Suspended
<1>9. state'[p] = st[p]
  BY <1>8 DEF Settled
<1> QED
  BY <1>3, <1>4, <1>6, <1>7, <1>8, <1>9

\* reap wakes no caller whose child stays.
LEMMA ReapedSuspended ==
    ASSUME Types, SpaceInv, NEW X \in SUBSET Live
    PROVE  /\ Suspended(Reaped(X), X)
           /\ \A i \in Slots \ X : Reaped(X)[i] \notin Dead => i \in Live
<1>1. ASSUME NEW p \in Slots, state[p] \in {"VforkWait", "Zombie"},
             \A x \in X : vfork_parent[x] # p, NEW i \in Live \ X, mm[i] = p
      PROVE  Reaped(X)[p] \in {"VforkWait", "Zombie"}
  <2>1. p \in Owners(state, mm) /\ mm[p] = p
    BY <1>1 DEF SpaceInv, SpaceOk, Owners, Live, Alive, Dead
  <2>2. Left(X, p) > 0
    BY <1>1, <2>1, LeftIs
  <2>3. p \notin Freed(X)
    BY <2>2 DEF Freed
  <2>4. p \notin VforkWoken(X) /\ ~ \E l \in Ended(X) : p \in ExitWoken(l)
    BY <1>1 DEF VforkWoken, ExitWoken, Waiters
  <2> QED
    BY <1>1, <2>1, <2>2, <2>3, <2>4 DEF Reaped, Ipc
<1>2. ASSUME NEW i \in Slots \ X, Reaped(X)[i] \notin Dead PROVE i \in Live
  <2>1. Without(Reaped(X), X)
    BY ReapedWithout
  <2> QED
    BY <1>2, <2>1 DEF Without, Live, Dead
<1> QED
  BY <1>1, <1>2 DEF Suspended

\* Slots exit or are killed.
LEMMA ReapVfork ==
    ASSUME Types, SpaceInv, VforkInv, NEW X \in SUBSET Live, NEW on, Settled(Reaped(X), on),
           DropSpaces(X), ForgetVfork(X)
    PROVE  VforkInv'
<1>1. \A i \in Slots \ X : mm'[i] = mm[i]
  BY DEF DropSpaces
<1> QED
  BY <1>1, ReapedSuspended, LetGo

\* Exits and kills.
LEMMA ExitVfork ==
    ASSUME RunInv, SpaceInv, VforkInv, NEW c \in Cpus, Exits(c)
    PROVE  VforkInv'
<1>1. PICK D \in SUBSET Live : \E M : ExitWith(c, D, M)
  BY DEF Exits
<1>2. Types /\ DropSpaces(D) /\ ForgetVfork(D)
  BY <1>1 DEF RunInv, ExitWith, ReapEffects
<1>3. Settled(Reaped(D), blocked_on)
  BY <1>1, DispatchSettled DEF ExitWith
<1> QED
  BY <1>2, <1>3, ReapVfork

\* A step in which no vfork changes.
LEMMA QuietVfork ==
    ASSUME Types, VforkInv, Quiet
    PROVE  VforkInv'
<1>1. PICK st, on : Settled(st, on) /\ Milder(st, on)
  BY DEF Quiet
<1>2. /\ \A i \in Slots : state[i] \in {"VforkWait", "Zombie"} => state'[i] = state[i]
      /\ \A i \in Slots : state'[i] \notin Dead <=> state[i] \notin Dead
  BY <1>1 DEF Settled, Milder, Dead
<1>3. Live' = Live
  BY <1>2 DEF Live, Dead
<1>4. vfork_parent' = vfork_parent /\ mm' = mm /\ mm \in [Slots -> Slots]
  BY DEF Quiet, vfork, space, Types, SpaceTypes
<1>5. ASSUME NEW i \in Live, vfork_parent[i] # IDLE
      PROVE  /\ mm'[i] = vfork_parent[i]
             /\ state'[vfork_parent[i]] \in {"VforkWait", "Zombie"}
             /\ \A j \in Live \ {i} : vfork_parent[j] # vfork_parent[i]
  <2>1. PICK p : p = vfork_parent[i]
    OBVIOUS
  <2>2. /\ mm[i] = p /\ state[p] \in {"VforkWait", "Zombie"}
        /\ \A j \in Live \ {i} : vfork_parent[j] # p
    BY <1>5, <2>1 DEF VforkInv
  <2>3. p \in Slots
    BY <1>4, <2>2 DEF Live
  <2>4. state'[p] = state[p]
    BY <1>2, <2>2, <2>3
  <2> QED
    BY <1>4, <2>1, <2>2, <2>4
<1> QED
  BY <1>3, <1>4, <1>5 DEF VforkInv

\* A kill.
LEMMA KillVfork ==
    ASSUME RunInv, SpaceInv, VforkInv, NEW c \in Cpus, Kill(c)
    PROVE  VforkInv'
<1>1. Types /\ current[c] # IDLE
  BY CallerRuns, SlotsOK DEF RunInv, Kill, Calls
<1>2. PICK t \in Live :
          \/ exit_locked(c)
          \/ UNCHANGED <<space, family, vfork>> /\ Return(c, state, blocked_on)
          \/ ReapEffects(Doomed(t), Marked(t)) /\ Return(c, Reaped(Doomed(t)), blocked_on)
  BY DEF Kill, family
<1>3. CASE exit_locked(c)
  BY <1>1, <1>3, ExitLockedExits, ExitVfork
<1>4. CASE UNCHANGED <<space, family, vfork>> /\ Return(c, state, blocked_on)
  BY <1>1, <1>4, ReturnSettled, SameQuiet, QuietVfork DEF family
<1>5. CASE ReapEffects(Doomed(t), Marked(t)) /\ Return(c, Reaped(Doomed(t)), blocked_on)
  BY <1>1, <1>5, ReturnSettled, DoomedLive, ReapVfork DEF ReapEffects
<1> QED
  BY <1>2, <1>3, <1>4, <1>5

\* Somebody is born, in no vfork.
LEMMA BornVfork ==
    ASSUME Types, VforkInv, NEW i \in Slots, state[i] = "Unused", vfork_parent'[i] = IDLE,
           \A j \in Slots \ {i} : /\ vfork_parent'[j] = vfork_parent[j] /\ mm'[j] = mm[j]
                                  /\ state'[j] = state[j]
    PROVE  VforkInv'
<1>1. Live \subseteq Slots /\ i \notin Live /\ Live' \subseteq Live \cup {i} /\ mm \in [Slots -> Slots]
  BY DEF Live, Types, SpaceTypes
<1> SUFFICES ASSUME NEW k \in Live', vfork_parent'[k] # IDLE
             PROVE  /\ mm'[k] = vfork_parent'[k]
                    /\ state'[vfork_parent'[k]] \in {"VforkWait", "Zombie"}
                    /\ \A j \in Live' \ {k} : vfork_parent'[j] # vfork_parent'[k]
  BY DEF VforkInv
<1>2. k \in Live /\ k # i
  BY <1>1
<1>3. PICK p : p = vfork_parent[k]
  OBVIOUS
<1>4. vfork_parent'[k] = p /\ p # IDLE /\ mm'[k] = mm[k]
  BY <1>1, <1>2, <1>3
<1>5. /\ mm[k] = p /\ state[p] \in {"VforkWait", "Zombie"}
      /\ \A j \in Live \ {k} : vfork_parent[j] # p
  BY <1>2, <1>3, <1>4 DEF VforkInv
<1>6. p \in Slots \ {i}
  BY <1>1, <1>2, <1>5
<1>7. state'[p] = state[p]
  BY <1>6
<1>8. \A j \in Live' \ {k} : vfork_parent'[j] # p
  BY <1>1, <1>4, <1>5
<1> QED
  BY <1>4, <1>5, <1>7, <1>8

\* A process or a thread.
LEMMA CreateVfork ==
    ASSUME RunInv, VforkInv, NEW c \in Cpus, Create(c) \/ thread_create(c)
    PROVE  VforkInv'
<1>1. PICK i \in Slots :
          /\ FreeSlot(i)
          /\ \E m : mm' = [mm EXCEPT ![i] = m]
          /\ Return(c, [state EXCEPT ![i] = "Ready"], blocked_on)
          /\ vfork_parent' = [vfork_parent EXCEPT ![i] = IDLE]
  BY DEF Create, thread_create, JoinSpace
<1>2. state' = [state EXCEPT ![i] = "Ready"] /\ Types /\ state[i] = "Unused"
  BY <1>1, ReturnSettled DEF RunInv, FreeSlot
<1>3. /\ state \in [Slots -> States] /\ mm \in [Slots -> Slots]
      /\ vfork_parent \in [Slots -> Slots \cup {IDLE}]
  BY <1>2 DEF Types, WaitTypes, SpaceTypes, VforkTypes
<1>4. /\ vfork_parent'[i] = IDLE
      /\ \A j \in Slots \ {i} : /\ vfork_parent'[j] = vfork_parent[j] /\ mm'[j] = mm[j]
                                /\ state'[j] = state[j]
  BY <1>1, <1>2, <1>3
<1> QED
  BY <1>2, <1>4, BornVfork

\* A vfork by the owner of a space.
LEMMA VforkVfork ==
    ASSUME RunInv, SpaceInv, VforkInv, "vfork_borrowed" \notin Syscalls, NEW c \in Cpus, Vfork(c)
    PROVE  VforkInv'
<1>1. PICK s : s = current[c]
  OBVIOUS
<1>2. s \in Slots /\ state[s] = "Running" /\ mm[s] = s
  BY <1>1, CallerRuns DEF Vfork, Calls, VforkOf
<1>3. PICK i \in Slots :
          /\ FreeSlot(i)
          /\ JoinSpace(c, i)
          /\ vfork_parent' = [vfork_parent EXCEPT ![i] = s]
          /\ Block(c, [state EXCEPT ![i] = "Ready", ![s] = "VforkWait"], blocked_on, redo, timed)
  BY <1>1 DEF Vfork
<1>4. PICK st : st = [state EXCEPT ![i] = "Ready", ![s] = "VforkWait"]
  OBVIOUS
<1>5. Settled(st, blocked_on)
  <2>1. Dispatch(c, st, blocked_on, redo, timed)
    BY <1>3, <1>4 DEF Block
  <2> QED
    BY <2>1, DispatchSettled
<1>6. /\ Types /\ state \in [Slots -> States] /\ mm \in [Slots -> Slots]
      /\ vfork_parent \in [Slots -> Slots \cup {IDLE}] /\ state[i] = "Unused" /\ i # s
  BY <1>2, <1>3 DEF RunInv, Types, WaitTypes, SpaceTypes, VforkTypes, FreeSlot
<1>7. /\ mm'[i] = s /\ vfork_parent'[i] = s
      /\ \A j \in Slots \ {i} : mm'[j] = mm[j] /\ vfork_parent'[j] = vfork_parent[j]
  BY <1>1, <1>2, <1>3, <1>6 DEF JoinSpace
<1>8. \A j \in Slots : st[j] = IF j = s THEN "VforkWait" ELSE IF j = i THEN "Ready" ELSE state[j]
  BY <1>2, <1>4, <1>6
<1>9. /\ state'[s] = "VforkWait"
      /\ \A j \in Slots : state[j] \in {"VforkWait", "Zombie"} => state'[j] = state[j]
      /\ \A j \in Slots \ {i, s} : state[j] \in Dead => state'[j] \in Dead
  BY <1>2, <1>5, <1>6, <1>8 DEF Settled, Dead
<1>10. Live \subseteq Slots /\ s \in Live /\ i \notin Live /\ Live' \subseteq Live \cup {i}
  BY <1>2, <1>6, <1>9 DEF Live, Dead
<1>11. \A j \in Live : vfork_parent[j] # s
  <2>1. ASSUME NEW j \in Live, vfork_parent[j] = s PROVE FALSE
    BY <1>2, <2>1, SlotsOK DEF VforkInv
  <2> QED
    BY <2>1
<1> SUFFICES ASSUME NEW k \in Live', vfork_parent'[k] # IDLE
             PROVE  /\ mm'[k] = vfork_parent'[k]
                    /\ state'[vfork_parent'[k]] \in {"VforkWait", "Zombie"}
                    /\ \A j \in Live' \ {k} : vfork_parent'[j] # vfork_parent'[k]
  BY DEF VforkInv
<1>12. CASE k = i
  BY <1>7, <1>9, <1>10, <1>11, <1>12
<1>13. CASE k # i
  <2>1. PICK p : p = vfork_parent[k]
    OBVIOUS
  <2>2. k \in Live /\ vfork_parent'[k] = p /\ p # IDLE /\ mm'[k] = mm[k]
    BY <1>7, <1>10, <1>13, <2>1
  <2>3. /\ mm[k] = p /\ state[p] \in {"VforkWait", "Zombie"}
        /\ \A j \in Live \ {k} : vfork_parent[j] # p
    BY <2>1, <2>2 DEF VforkInv
  <2>4. p \in Slots /\ p # s
    BY <1>6, <1>10, <1>11, <2>1, <2>2, <2>3
  <2>5. state'[p] = state[p]
    BY <1>9, <2>3, <2>4
  <2>6. \A j \in Live' \ {k} : vfork_parent'[j] # p
    BY <1>7, <1>10, <2>3, <2>4
  <2> QED
    BY <2>2, <2>3, <2>5, <2>6
<1> QED
  BY <1>12, <1>13

\* An execve wakes the caller of the vfork it came from, and nobody else's.
LEMMA ExecSuspended ==
    ASSUME Types, SpaceInv, NEW s \in Live, state[s] = "Running", IsLeader(s), NEW D, D = Stopped(s)
    PROVE  /\ Suspended(ExecTable(s, D), D \cup {s})
           /\ \A i \in Slots \ (D \cup {s}) : ExecTable(s, D)[i] \notin Dead => i \in Live
<1>1. PICK X : X = D \cup {s}
  OBVIOUS
<1>2. X \in SUBSET Live /\ D \in SUBSET Live /\ D \subseteq X
  BY <1>1, DoomedLive
<1>3. ASSUME NEW p \in Slots, state[p] \in {"VforkWait", "Zombie"},
             \A x \in X : vfork_parent[x] # p, NEW i \in Live \ X, mm[i] = p
      PROVE  ExecTable(s, D)[p] \in {"VforkWait", "Zombie"}
  <2>1. p \in Owners(state, mm) /\ mm[p] = p
    BY <1>3 DEF SpaceInv, SpaceOk, Owners, Live, Alive, Dead
  <2>2. p \notin D
    <3>1. \A d \in D : d \in Live /\ leader[d] # d
      BY DEF Stopped, OthersOf
    <3>2. \A d \in D : mm[d] # d
      BY <3>1 DEF SpaceInv, SpaceOk, Live, Alive, Dead
    <3> QED
      BY <2>1, <3>2
  <2>3. Left(X, p) > 0 /\ Left(D, p) > 0
    BY <1>2, <1>3, <2>1, LeftIs
  <2>4. p \notin Freed(X) /\ p \notin Freed(D)
    BY <2>3 DEF Freed
  <2>5. p \notin VforkWoken(X) /\ p \notin VforkWoken(D) /\ ~ \E l \in Ended(D) : p \in ExitWoken(l)
    BY <1>2, <1>3 DEF VforkWoken, ExitWoken, Waiters
  <2>6. Reaped(D)[p] = state[p]
    BY <1>3, <2>2, <2>4, <2>5 DEF Reaped, Ipc
  <2>7. ExecTable(s, D)[p] = Reaped(D)[p]
    BY <1>1, <2>4, <2>5 DEF ExecTable
  <2> QED
    BY <1>3, <2>6, <2>7
<1>4. ASSUME NEW i \in Slots \ X, ExecTable(s, D)[i] \notin Dead PROVE i \in Live
  <2>1. CASE i \in VforkWoken(X)
    BY <2>1 DEF VforkWoken, Live
  <2>2. CASE i \notin VforkWoken(X)
    <3>1. ExecTable(s, D)[i] = Reaped(D)[i]
      BY <1>1, <1>4, <2>2 DEF ExecTable, Dead
    <3>2. Without(Reaped(D), D)
      BY <1>2, ReapedWithout
    <3>3. i \notin D
      BY <1>2
    <3> QED
      BY <1>4, <3>1, <3>2, <3>3 DEF Without, Live, Dead
  <2> QED
    BY <2>1, <2>2
<1> QED
  BY <1>1, <1>3, <1>4 DEF Suspended

\* An execve.
LEMMA ExecVfork ==
    ASSUME RunInv, SpaceInv, VforkInv, NEW c \in Cpus, exec_replace(c)
    PROVE  VforkInv'
<1>1. PICK s, D, X : s = current[c] /\ D = Stopped(s) /\ X = D \cup {s}
  OBVIOUS
<1>2. s \in Live /\ state[s] = "Running" /\ IsLeader(s) /\ Types
  BY <1>1, CallerRuns DEF Live, exec_replace, Calls, RunInv
<1>3. D \in SUBSET Live /\ X \in SUBSET Live
  BY <1>1, <1>2, DoomedLive
<1>4. CASE DropSpaces(D) /\ ForgetVfork(D) /\ Return(c, Reaped(D), blocked_on)
  BY <1>2, <1>3, <1>4, ReturnSettled, ReapVfork
<1>5. CASE /\ mm' = [i \in Slots |-> IF i \in X THEN i ELSE mm[i]]
           /\ ForgetVfork(X)
           /\ Return(c, ExecTable(s, D), blocked_on)
  <2>1. Settled(ExecTable(s, D), blocked_on)
    BY <1>5, ReturnSettled
  <2>2. \A i \in Slots \ X : mm'[i] = mm[i]
    BY <1>5
  <2>3. /\ Suspended(ExecTable(s, D), X)
        /\ \A i \in Slots \ X : ExecTable(s, D)[i] \notin Dead => i \in Live
    BY <1>1, <1>2, ExecSuspended
  <2>4. PICK st : st = ExecTable(s, D)
    OBVIOUS
  <2> QED
    BY <1>2, <1>3, <1>5, <2>1, <2>2, <2>3, <2>4, LetGo
<1> QED
  BY <1>1, <1>4, <1>5 DEF exec_replace, ExecTable

\* Every step.
LEMMA NextVfork ==
    ASSUME "vfork_borrowed" \notin Syscalls, RunInv, SpaceInv, VforkInv, [Next]_vars
    PROVE  VforkInv'
<1>1. Types
  BY DEF RunInv
<1>2. CASE Quiet
  BY <1>1, <1>2, QuietVfork
<1>3. ASSUME NEW c \in Cpus, \/ Exits(c) \/ Create(c) \/ thread_create(c) \/ Vfork(c)
                             \/ exec_replace(c) \/ Kill(c)
      PROVE  VforkInv'
  BY <1>3, ExitVfork, CreateVfork, VforkVfork, ExecVfork, KillVfork
<1> QED
  BY <1>2, <1>3, Kinds

\* Where only owners call vfork, the caller of a vfork is suspended as long
\* as its child runs in the space they share, whoever is killed meanwhile
\* and whatever slots are taken again (OwnerSuspended: fork with a shared
\* space, wake_vfork_parent).
THEOREM OwnersSuspended ==
    ASSUME "vfork_borrowed" \notin Syscalls
    PROVE  Spec => []OwnerSuspended
<1>1. Init => VforkInv
  BY DEF Init, VforkInv, Live
<1>2. RunInv /\ SpaceInv /\ VforkInv /\ [Next]_vars => VforkInv'
  BY NextVfork
<1>3. VforkInv => OwnerSuspended
  BY DEF VforkInv, OwnerSuspended, IsPid, Live
<1> QED
  BY <1>1, <1>2, <1>3, RunInvAlways, SpaceAlways, PTL DEF Spec

-----------------------------------------------------------------------------
(* wait: where processes have no threads, who waits has a child to wait for. *)

\* Pids of two slots differ.
LEMMA PidsDiffer ==
    ASSUME Types, NEW i \in Slots, NEW j \in Slots, Pid(i) = Pid(j)
    PROVE  i = j
<1>1. /\ MaxProcs \in Nat \ {0} /\ i \in 0 .. MaxProcs - 1 /\ j \in 0 .. MaxProcs - 1
      /\ generation[i] \in Nat /\ generation[j] \in Nat
  BY ConstantsOK DEF Slots, Types, FamilyTypes
<1>2. PICK n, a, b : n = MaxProcs /\ a = generation[i] - 1 /\ b = generation[j] - 1
  OBVIOUS
<1>3. i + n * a = j + n * b
  BY <1>2 DEF Pid
<1>4. n \in Nat \ {0} /\ a \in Int /\ b \in Int /\ i \in 0 .. n - 1 /\ j \in 0 .. n - 1
  BY <1>1, <1>2
<1>5. \A x, y \in Int : x > y => n * x >= n * y + n
  <2> SUFFICES ASSUME NEW x \in Int, NEW y \in Int, x > y PROVE n * x >= n * y + n
    OBVIOUS
  <2>1. PICK d \in Nat : d = x - y - 1
    OBVIOUS
  <2>2. x = (y + 1) + d
    BY <2>1
  <2>3. n * d >= 0
    BY <1>4
  <2>4. n * x = (n * y + n) + n * d
    BY <1>4, <2>2
  <2> QED
    BY <1>4, <2>3, <2>4
<1>6. a = b
  <2>1. n * a \in Int /\ n * b \in Int
    BY <1>4
  <2>2. ~(a > b)
    BY <1>3, <1>4, <1>5, <2>1
  <2>3. ~(b > a)
    BY <1>3, <1>4, <1>5, <2>1
  <2> QED
    BY <1>4, <2>2, <2>3
<1> QED
  BY <1>3, <1>4, <1>6

\* Every process is its own leader, and who waits for a child has one.
WaitInv ==
    \A i \in Live : /\ leader[i] = i
                    /\ state[i] = "WaitChild" => HasChild(Pid(i), blocked_on[i])

\* In the table st, who waits for a child had one that goes on living.
Awaited(st, on) ==
    \A i \in Slots : st[i] = "WaitChild" =>
        /\ i \in Live
        /\ \E k \in Live : /\ st[k] \notin Dead
                           /\ parent[k] = Pid(i)
                           /\ on[i] \in {ANY, Pid(k)}

\* Who lives keeps its pid, its parent and its leader, and who is born leads.
KeepsFamily ==
    /\ \A i \in Live : /\ generation'[i] = generation[i]
                       /\ parent'[i] = parent[i]
                       /\ leader'[i] = leader[i]
    /\ \A i \in Live' \ Live : leader'[i] = i

\* A step after which every waiter has its child.
LEMMA WaitStep ==
    ASSUME Types, WaitInv, NEW st, NEW on, Settled(st, on), Awaited(st, on), KeepsFamily
    PROVE  WaitInv'
<1>1. Live \subseteq Slots /\ Live' \subseteq Slots
  BY DEF Live
<1>2. \A i \in Live' : leader'[i] = i
  BY DEF KeepsFamily, WaitInv
<1>3. \A i \in Live : Pid(i)' = Pid(i)
  BY DEF Pid, KeepsFamily
<1>4. \A i \in Slots : st[i] \notin Dead => i \in Live'
  BY DEF Settled, Live, Dead
<1>5. ASSUME NEW i \in Live', state'[i] = "WaitChild"
      PROVE  HasChild(Pid(i), blocked_on[i])'
  <2>1. st[i] = "WaitChild" /\ blocked_on'[i] = on[i]
    BY <1>1, <1>5 DEF Settled
  <2>2. i \in Live
    BY <1>1, <2>1 DEF Awaited
  <2>3. PICK k \in Live : st[k] \notin Dead /\ parent[k] = Pid(i) /\ on[i] \in {ANY, Pid(k)}
    BY <1>1, <2>1 DEF Awaited
  <2>4. k \in Live' /\ leader'[k] = k
    BY <1>1, <1>2, <1>4, <2>3
  <2>5. parent'[k] = Pid(i)' /\ blocked_on'[i] \in {ANY, Pid(k)'}
    BY <1>3, <2>1, <2>2, <2>3 DEF KeepsFamily
  <2> QED
    BY <2>4, <2>5 DEF HasChild, IsLeader
<1> QED
  BY <1>2, <1>5 DEF WaitInv

\* A quiet step.
LEMMA QuietWait ==
    ASSUME Types, WaitInv, Quiet
    PROVE  WaitInv'
<1>1. PICK st, on : Settled(st, on) /\ Milder(st, on)
  BY DEF Quiet
<1>2. \A i \in Slots : st[i] \in Dead <=> state[i] \in Dead
  BY <1>1 DEF Milder
<1>3. Live' = Live
  BY <1>1, <1>2 DEF Settled, Live, Dead
<1>4. KeepsFamily
  BY <1>3 DEF KeepsFamily, Quiet
<1>5. ASSUME NEW i \in Slots, st[i] = "WaitChild"
      PROVE  /\ i \in Live
             /\ \E k \in Live : st[k] \notin Dead /\ parent[k] = Pid(i) /\ on[i] \in {ANY, Pid(k)}
  <2>1. i \in Live /\ leader[i] = i
    BY <1>2, <1>5 DEF Live, Dead, WaitInv
  <2>2. HasChild(Pid(i), on[i])
    BY <1>1, <1>5, <2>1 DEF Milder, WaitInv
  <2>3. PICK k \in Live : parent[k] = Pid(i) /\ on[i] \in {ANY, Pid(k)}
    BY <2>2 DEF HasChild
  <2>4. st[k] \notin Dead
    BY <1>2 DEF Live, Dead
  <2> QED
    BY <2>1, <2>3, <2>4
<1>6. Awaited(st, on)
  BY <1>5 DEF Awaited
<1> QED
  BY <1>1, <1>4, <1>6, WaitStep

\* The exit of the child one waits for ends the wait: the only process that
\* the pid of the parent names is the waiter.
LEMMA ReapedAwaits ==
    ASSUME Types, WaitInv, NEW X \in SUBSET Live
    PROVE  Awaited(Reaped(X), blocked_on)
<1> SUFFICES ASSUME NEW i \in Slots, Reaped(X)[i] = "WaitChild"
             PROVE  /\ i \in Live
                    /\ \E k \in Live : /\ Reaped(X)[k] \notin Dead
                                       /\ parent[k] = Pid(i)
                                       /\ blocked_on[i] \in {ANY, Pid(k)}
  BY DEF Awaited
<1>1. i \notin X /\ state[i] = "WaitChild" /\ \A l \in Ended(X) : i \notin ExitWoken(l)
  BY DEF Reaped
<1>2. i \in Live /\ leader[i] = i
  BY <1>1 DEF Live, WaitInv
<1>3. PICK k \in Live : parent[k] = Pid(i) /\ blocked_on[i] \in {ANY, Pid(k)}
  BY <1>1, <1>2 DEF HasChild, WaitInv
<1>4. k \in Slots /\ leader[k] = k
  BY DEF Live, WaitInv
<1>5. k \notin X
  <2> SUFFICES ASSUME k \in X PROVE FALSE
    OBVIOUS
  <2>1. k \in Ended(X)
    BY <1>4 DEF Ended, IsLeader
  <2>2. Pid(i) # Pid(k)
    BY <1>1, <1>4, PidsDiffer
  <2>3. i \in Waiters(k)
    BY <1>1, <1>2, <1>3, <2>2 DEF Waiters
  <2>4. ASSUME NEW j \in Collectors(k) PROVE i <= j
    <3>1. j \in Slots /\ state[j] = "WaitChild" /\ Pid(leader[j]) = parent[k]
      BY DEF Collectors, Waiters
    <3>2. leader[j] = j
      BY <3>1 DEF Live, WaitInv
    <3>3. j = i
      BY <1>3, <3>1, <3>2, PidsDiffer
    <3> QED
      BY <3>3, SlotsOK
  <2>5. i \in ExitWoken(k)
    BY <2>3, <2>4 DEF ExitWoken
  <2> QED
    BY <1>1, <2>1, <2>5
<1>6. Reaped(X)[k] \notin Dead
  <2>1. state[k] \notin Dead
    BY DEF Live, Dead
  <2>2. k \notin Freed(X)
    BY <1>5, <2>1 DEF Freed, Dead
  <2>3. Reaped(X)[k] \in {state[k], "Ready"}
    BY <1>4, <1>5, <2>2 DEF Reaped
  <2> QED
    BY <2>1, <2>3 DEF Dead
<1> QED
  BY <1>2, <1>3, <1>6

\* Slots that live are reaped.
LEMMA ReapWait ==
    ASSUME Types, SpaceInv, WaitInv, NEW X \in SUBSET Live, Settled(Reaped(X), blocked_on),
           UNCHANGED family
    PROVE  WaitInv'
<1>1. Without(Reaped(X), X)
  BY ReapedWithout
<1>2. Live' \subseteq Live
  BY <1>1 DEF Without, Settled, Live, Dead
<1>3. KeepsFamily
  BY <1>2 DEF KeepsFamily, family
<1> QED
  BY <1>3, ReapedAwaits, WaitStep

\* Exits and kills.
LEMMA ExitWait ==
    ASSUME RunInv, SpaceInv, WaitInv, NEW c \in Cpus, Exits(c)
    PROVE  WaitInv'
<1>1. PICK X \in SUBSET Live : \E M : ExitWith(c, X, M)
  BY DEF Exits
<1>2. Types /\ UNCHANGED family
  BY <1>1 DEF RunInv, ExitWith, ReapEffects
<1>3. Settled(Reaped(X), blocked_on)
  BY <1>1, DispatchSettled DEF ExitWith
<1> QED
  BY <1>2, <1>3, ReapWait

LEMMA KillWait ==
    ASSUME RunInv, SpaceInv, WaitInv, NEW c \in Cpus, Kill(c)
    PROVE  WaitInv'
<1>1. Types /\ current[c] # IDLE
  BY CallerRuns, SlotsOK DEF RunInv, Kill, Calls
<1>2. PICK t \in Live :
          \/ exit_locked(c)
          \/ UNCHANGED <<space, family, vfork>> /\ Return(c, state, blocked_on)
          \/ ReapEffects(Doomed(t), Marked(t)) /\ Return(c, Reaped(Doomed(t)), blocked_on)
  BY DEF Kill, family
<1>3. CASE exit_locked(c)
  BY <1>1, <1>3, ExitLockedExits, ExitWait
<1>4. CASE UNCHANGED <<space, family, vfork>> /\ Return(c, state, blocked_on)
  BY <1>1, <1>4, ReturnSettled, SameQuiet, QuietWait DEF family
<1>5. CASE ReapEffects(Doomed(t), Marked(t)) /\ Return(c, Reaped(Doomed(t)), blocked_on)
  BY <1>1, <1>5, ReturnSettled, DoomedLive, ReapWait DEF ReapEffects
<1> QED
  BY <1>2, <1>3, <1>4, <1>5

\* A process is born; the caller goes on, or stops in vfork.
LEMMA BirthWait ==
    ASSUME RunInv, WaitInv, NEW c \in Cpus, Create(c) \/ Vfork(c)
    PROVE  WaitInv'
<1>1. PICK s : s = current[c]
  OBVIOUS
<1>2. s \in Slots /\ state[s] = "Running" /\ Types /\ state \in [Slots -> States]
  BY <1>1, CallerRuns DEF Create, Vfork, Calls, RunInv, Types, WaitTypes
<1>3. PICK i \in Slots :
          /\ FreeSlot(i)
          /\ \E par : NewSlot(i, i, par)
          /\ \/ Return(c, [state EXCEPT ![i] = "Ready"], blocked_on)
             \/ Block(c, [state EXCEPT ![i] = "Ready", ![s] = "VforkWait"], blocked_on, redo, timed)
  BY <1>1 DEF Create, Vfork
<1>4. /\ state[i] = "Unused" /\ i \notin Live /\ leader'[i] = i
      /\ \A j \in Slots \ {i} : /\ generation'[j] = generation[j]
                                /\ parent'[j] = parent[j] /\ leader'[j] = leader[j]
  BY <1>2, <1>3 DEF FreeSlot, NewSlot, Live, Types, FamilyTypes
<1>5. PICK st : /\ Settled(st, blocked_on)
                /\ \A j \in Slots \ {i, s} : st[j] = state[j]
                /\ st[s] \in {"Running", "VforkWait"} /\ st[i] = "Ready"
  <2>1. CASE Return(c, [state EXCEPT ![i] = "Ready"], blocked_on)
    <3>1. PICK st : st = [state EXCEPT ![i] = "Ready"]
      OBVIOUS
    <3>2. Settled(st, blocked_on)
      BY <2>1, <3>1, ReturnSettled
    <3>3. \A j \in Slots : st[j] = IF j = i THEN "Ready" ELSE state[j]
      BY <1>2, <3>1
    <3> QED
      BY <1>2, <1>4, <3>2, <3>3
  <2>2. CASE Block(c, [state EXCEPT ![i] = "Ready", ![s] = "VforkWait"], blocked_on, redo, timed)
    <3>1. PICK st : st = [state EXCEPT ![i] = "Ready", ![s] = "VforkWait"]
      OBVIOUS
    <3>2. Dispatch(c, st, blocked_on, redo, timed)
      BY <2>2, <3>1 DEF Block
    <3>3. Settled(st, blocked_on)
      BY <3>2, DispatchSettled
    <3>4. \A j \in Slots : st[j] = IF j = s THEN "VforkWait" ELSE IF j = i THEN "Ready" ELSE state[j]
      BY <1>2, <3>1
    <3> QED
      BY <1>2, <1>4, <3>3, <3>4
  <2> QED
    BY <1>3, <2>1, <2>2
<1>6. Live \subseteq Slots \ {i} /\ \A k \in Live : st[k] \notin Dead
  BY <1>2, <1>4, <1>5 DEF Live, Dead
<1>7. Live' \subseteq Live \cup {i}
  BY <1>2, <1>5 DEF Settled, Live, Dead
<1>8. KeepsFamily
  BY <1>4, <1>6, <1>7 DEF KeepsFamily
<1>9. ASSUME NEW j \in Slots, st[j] = "WaitChild"
      PROVE  /\ j \in Live
             /\ \E k \in Live : /\ st[k] \notin Dead
                                /\ parent[k] = Pid(j)
                                /\ blocked_on[j] \in {ANY, Pid(k)}
  <2>1. state[j] = "WaitChild" /\ j \in Live
    BY <1>5, <1>9 DEF Live
  <2>2. HasChild(Pid(j), blocked_on[j])
    BY <2>1 DEF WaitInv
  <2> QED
    BY <1>6, <2>1, <2>2 DEF HasChild
<1>10. Awaited(st, blocked_on)
  BY <1>9 DEF Awaited
<1> QED
  BY <1>2, <1>5, <1>8, <1>10, WaitStep

\* An execve: there are no threads to take down.
LEMMA ExecWait ==
    ASSUME RunInv, SpaceInv, WaitInv, NEW c \in Cpus, exec_replace(c)
    PROVE  WaitInv'
<1>1. PICK s, D : s = current[c] /\ D = Stopped(s)
  OBVIOUS
<1>2. s \in Live /\ Types /\ UNCHANGED family
  BY <1>1, CallerRuns DEF Live, exec_replace, Calls, RunInv
<1>3. D = {}
  BY <1>1, <1>2 DEF Stopped, OthersOf, WaitInv
<1>4. CASE Return(c, Reaped(D), blocked_on)
  BY <1>2, <1>3, <1>4, ReturnSettled, ReapWait
<1>5. CASE Return(c, ExecTable(s, D), blocked_on)
  <2>1. PICK st : st = ExecTable(s, D)
    OBVIOUS
  <2>2. Settled(st, blocked_on)
    BY <1>5, <2>1, ReturnSettled
  <2>3. \A i \in Slots : /\ st[i] = "WaitChild" => Reaped({})[i] = "WaitChild"
                         /\ st[i] \in {"Ready", "Unused", Reaped({})[i]}
                         /\ st[i] = "Ready" => i \in Live \/ Reaped({})[i] = "Ready"
                         /\ st[i] = "Unused" => i \notin Live \/ Reaped({})[i] = "Unused"
    <3>1. ASSUME NEW i \in Slots
          PROVE  st[i] = IF i \in VforkWoken({s}) THEN "Ready"
                         ELSE IF i \in Freed({s}) \ {s} THEN "Unused" ELSE Reaped({})[i]
      <4>1. D \cup {s} = {s}
        BY <1>3
      <4> QED
        BY <1>3, <2>1, <4>1 DEF ExecTable
    <3>2. \A i \in VforkWoken({s}) : i \in Live
      BY DEF VforkWoken, Live
    <3>3. \A i \in Freed({s}) \ {s} : i \notin Live
      BY DEF Freed, Live
    <3> QED
      BY <3>1, <3>2, <3>3
  <2>4. Awaited(Reaped({}), blocked_on) /\ Without(Reaped({}), {})
    BY <1>2, ReapedAwaits, ReapedWithout
  <2>5. Live' \subseteq Live
    BY <2>2, <2>3, <2>4 DEF Without, Settled, Live, Dead
  <2>6. KeepsFamily
    BY <1>2, <2>5 DEF KeepsFamily, family
  <2>7. Awaited(st, blocked_on)
    <3>1. \A k \in Live : Reaped({})[k] \notin Dead => st[k] \notin Dead
      BY <2>3 DEF Live, Dead
    <3> QED
      BY <2>3, <2>4, <3>1 DEF Awaited
  <2> QED
    BY <1>2, <2>2, <2>6, <2>7, WaitStep
<1> QED
  BY <1>1, <1>4, <1>5 DEF exec_replace, ExecTable

\* Every step.
LEMMA NextWait ==
    ASSUME "thread" \notin Syscalls, RunInv, SpaceInv, WaitInv, [Next]_vars
    PROVE  WaitInv'
<1>1. Types
  BY DEF RunInv
<1>2. CASE Quiet
  BY <1>1, <1>2, QuietWait
<1>3. ASSUME NEW c \in Cpus, \/ Exits(c) \/ Create(c) \/ thread_create(c) \/ Vfork(c)
                             \/ exec_replace(c) \/ Kill(c)
      PROVE  WaitInv'
  <2>1. ~thread_create(c)
    BY DEF thread_create, Calls
  <2> QED
    BY <1>3, <2>1, ExitWait, BirthWait, ExecWait, KillWait
<1> QED
  BY <1>2, <1>3, Kinds

\* Where processes have no threads, whoever waits for a child has a child
\* whose exit will wake it: no exit, kill, execve or reuse of a slot leaves a
\* process waiting for nobody (wait_child, waitid_child, record_exit).
THEOREM WaitersHaveChildren ==
    ASSUME "thread" \notin Syscalls
    PROVE  Spec => []WaiterHasChild
<1>1. Init => WaitInv
  BY DEF Init, WaitInv, Live
<1>2. RunInv /\ SpaceInv /\ WaitInv /\ [Next]_vars => WaitInv'
  BY NextWait
<1>3. WaitInv => WaiterHasChild
  BY DEF WaitInv, WaiterHasChild
<1> QED
  BY <1>1, <1>2, <1>3, RunInvAlways, SpaceAlways, PTL DEF Spec

=============================================================================
