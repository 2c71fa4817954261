------------------------------ MODULE Process ------------------------------
(***************************************************************************)
(* The process table, the SMP scheduler and the synchronous IPC of the     *)
(* Pulsar kernel (kernel/src/process.rs), with the trap entries that drive *)
(* them (kernel/src/trap.rs).                                              *)
(*                                                                         *)
(* Every function of process.rs runs with the lock SCHED held from its     *)
(* first to its last access to the table, so each is one atomic action.    *)
(* What is not atomic is a trap: exit_if_killed takes and releases SCHED   *)
(* on entry, and the system call (or the preemption) takes it again later. *)
(* mode[c] records in which of the two halves CPU c is.                    *)
(*                                                                         *)
(* A field that the code reads in one blocked state only (peer, send_to,   *)
(* wait_pid, wake_at) is kept while the slot is in that state and          *)
(* forgotten when it leaves it.                                            *)
(***************************************************************************)
EXTENDS Integers, FiniteSets, FiniteSetsExt

CONSTANTS
    MaxProcs,       \* MAX_PROCS: slots of the table (processes and threads)
    Cpus,           \* CPUs in the scheduler
    MaxCreations,   \* bound: processes and threads ever created
    ExitsMax,       \* EXITS_MAX: records of uncollected exits
    Syscalls        \* the system calls the programs of the instance make

ASSUME ConstantsOK ==
    /\ MaxProcs \in Nat \ {0}
    /\ ExitsMax \in Nat \ {0}
    /\ MaxCreations \in Nat
    /\ IsFiniteSet(Cpus)

Slots == 0 .. MaxProcs - 1
IDLE  == -1                         \* no slot: an idle CPU, no vfork parent
None  == -2                         \* not waiting for anybody
ANY   == -1                         \* wait_pid of wait(-1)
KERNEL == -1                        \* parent of a process the kernel created

\* Blocked in IPC: blocked_on is the slot of the partner (peer or send_to).
Ipc == {"SendBlocked", "ReplyBlocked"}

States == {"Unused", "Ready", "Running", "SendBlocked", "RecvBlocked",
           "ReplyBlocked", "Sleeping", "WaitChild", "VforkWait", "Zombie"}

VARIABLES
    state,        \* state of each slot
    generation,   \* GENERATION: incarnations of each slot so far
    leader,       \* slot of the process a thread belongs to
    mm,           \* slot that owns the address space the slot uses
    members,      \* in the owner: slots that use the space
    root,         \* page tables the slot runs on (0 = none)
    tables,       \* page tables now allocated
    killed,       \* SYS_KILL pending on a slot that was Running
    vfork_parent, \* slot of the parent a vfork child suspended, or IDLE
    parent,       \* pid of the creator
    blocked_on,   \* peer, send_to or wait_pid, by state
    redo,         \* in WaitChild: wait_ptr = WAIT_REDO (waitid)
    timed,        \* in RecvBlocked or Sleeping: wake_at # 0
    due,          \* the deadline wake_at has passed
    exits,        \* EXITS: ring of exits nobody collected
    exits_next,   \* EXITS_NEXT
    current,      \* CURRENT: slot each CPU runs, or IDLE
    rr_next,      \* RR_NEXT: where the round robin resumes
    mode,         \* "user", or the half of a trap after exit_if_killed
    partner_pid,  \* history: pid the slot blocked on in IPC
    vfork_pid     \* history: pid the vfork child suspended

space  == <<mm, members, root, tables>>
ring   == <<exits, exits_next>>
family == <<generation, leader, parent>>
cpu    == <<current, rr_next, mode>>
waits  == <<state, blocked_on, redo, timed, due, partner_pid>>
vfork  == <<vfork_parent, vfork_pid>>
vars   == <<space, ring, family, cpu, waits, vfork, killed>>

-----------------------------------------------------------------------------
(* Identity of processes and threads. *)

\* pid = slot + MAX_PROCS * generation
Pid(i) == i + MaxProcs * (generation[i] - 1)

Live == {i \in Slots : state[i] \notin {"Unused", "Zombie"}}

\* slot_of: the slot of a pid that exists
IsPid(i, pid) == i \in Live /\ Pid(i) = pid

AllPids == 0 .. MaxProcs * MaxCreations - 1

\* The other threads of the process led by l, by what reap does to them.
OthersOf(l)  == {i \in Live \ {l} : leader[i] = l}
Stopped(l)   == {i \in OthersOf(l) : state[i] # "Running"}
Elsewhere(l) == {i \in OthersOf(l) : state[i] = "Running"}

IsLeader(s) == leader[s] = s

\* First unused slot of the table.
FreeSlot(i) ==
    /\ state[i] = "Unused"
    /\ \A j \in 0 .. i - 1 : state[j] # "Unused"
    /\ MapThenSumSet(LAMBDA j : generation[j], Slots) < MaxCreations

\* The two names of the tables an owner builds (execve loads the new ones
\* while the old ones still exist).
RootsOf(i) == {2 * i + 1, 2 * i + 2}

NoExit == [pid |-> None, parent |-> None]

-----------------------------------------------------------------------------
(* Scheduling: every change of the table ends in Settle or in Dispatch. *)

\* The table after an action: st, on, rd and tm are the new states and what
\* the blocked slots wait for, kept only while the slot stays blocked.
Settle(st, on, rd, tm) ==
    /\ state' = st
    /\ blocked_on' = [i \in Slots |->
          IF st[i] \in Ipc \cup {"WaitChild"} THEN on[i] ELSE None]
    /\ redo'  = [i \in Slots |-> st[i] = "WaitChild" /\ rd[i]]
    /\ timed' = [i \in Slots |-> st[i] \in {"Sleeping", "RecvBlocked"} /\ tm[i]]
    /\ due'   = [i \in Slots |-> st[i] = state[i] /\ due[i]]
    /\ partner_pid' = [i \in Slots |->
          IF st[i] \notin Ipc THEN None
          ELSE IF state[i] \in Ipc THEN partner_pid[i] ELSE Pid(on[i])]

\* Mutant: sleepers are looked at only when nobody is ready.
wake_sleepers_WhenIdle(st) ==
    [i \in Slots |->
        IF st[i] = "Sleeping" /\ st[i] = state[i] /\ due[i] /\ \A j \in Slots : st[j] # "Ready"
        THEN "Ready" ELSE st[i]]

\* wake_sleepers: who sleeps past its deadline is ready.
wake_sleepers(st) ==
    [i \in Slots |->
        IF st[i] = state[i] /\ st[i] \in {"Sleeping", "RecvBlocked"} /\ timed[i] /\ due[i]
        THEN "Ready" ELSE st[i]]

\* Distance of slot i from rr_next in the order of the round robin.
Turn(i) == (i - rr_next + MaxProcs) % MaxProcs

\* Mutant: the first Ready slot of the table, whoever ran last.
Chosen_First(st) ==
    LET ready == {i \in Slots : st[i] = "Ready"} IN
    IF ready = {} THEN IDLE ELSE Min(ready)

\* The first Ready slot from rr_next on, or IDLE.
Chosen(st) ==
    LET ready == {i \in Slots : st[i] = "Ready"} IN
    IF ready = {} THEN IDLE
    ELSE CHOOSE i \in ready : \A j \in ready : Turn(i) <= Turn(j)

\* Mutant: the round robin does not wrap around.
Dispatch_NoWrap(c, st, on, rd, tm) ==
    LET awake == wake_sleepers(st)
        next  == Chosen(awake)
    IN /\ Settle([i \in Slots |-> IF i = next THEN "Running" ELSE awake[i]], on, rd, tm)
       /\ current' = [current EXCEPT ![c] = next]
       /\ rr_next' = IF next = IDLE THEN rr_next ELSE next + 1
       /\ mode' = [mode EXCEPT ![c] = "user"]

\* dispatch: wakes the sleepers and gives the CPU to the chosen slot.
Dispatch(c, st, on, rd, tm) ==
    LET awake == wake_sleepers(st)
        next  == Chosen(awake)
    IN /\ Settle([i \in Slots |-> IF i = next THEN "Running" ELSE awake[i]], on, rd, tm)
       /\ current' = [current EXCEPT ![c] = next]
       /\ rr_next' = IF next = IDLE THEN rr_next ELSE (next + 1) % MaxProcs
       /\ mode' = [mode EXCEPT ![c] = "user"]

\* block: the current slot stops in a state, waiting for `on`.
Block(c, st, on, rd, tm) == Dispatch(c, st, on, rd, tm)

\* A system call that returns to its caller, the table changed to st.
Return(c, st, on) ==
    /\ Settle(st, on, redo, timed)
    /\ mode' = [mode EXCEPT ![c] = "user"]
    /\ UNCHANGED <<current, rr_next>>

\* schedule_locked: the current slot goes back to Ready, the next one runs.
Reschedule(c) ==
    LET s == current[c] IN
    Dispatch(c, [i \in Slots |-> IF i = s /\ state[i] = "Running" THEN "Ready" ELSE state[i]],
             blocked_on, redo, timed)

-----------------------------------------------------------------------------
(* Termination. *)

\* What reap(s) takes down: s and, if s leads, its threads that are stopped;
\* the ones running on another CPU are marked.
Doomed(s) == {s} \cup (IF IsLeader(s) THEN Stopped(s) ELSE {})
Marked(s) == IF IsLeader(s) THEN Elsewhere(s) ELSE {}

\* drop_mm: users left to the space of owner m when the slots X let go.
Left(X, m) ==
    LET n == Cardinality({x \in X : mm[x] = m}) IN
    IF n >= members[m] THEN 0 ELSE members[m] - n

\* Mutant: the owner takes the space with it, whoever else uses it.
Freed_WithOwner(X) ==
    {m \in Slots : /\ mm[m] = m
                   /\ m \in X \/ (state[m] = "Zombie" /\ Left(X, m) = 0)
                   /\ \E x \in X : mm[x] = m}

\* Owners whose space the slots X release for good.
Freed(X) ==
    {m \in Slots : /\ mm[m] = m
                   /\ m \in X \/ state[m] = "Zombie"
                   /\ \E x \in X : mm[x] = m
                   /\ Left(X, m) = 0}

\* drop_mm and free_mm for the slots X.
DropSpaces(X) ==
    /\ members' = [m \in Slots |-> Left(X, m)]
    /\ mm' = [i \in Slots |-> IF i \in X THEN i ELSE mm[i]]
    /\ root' = [i \in Slots |->
          IF i \in Freed(X) \/ (i \in X /\ mm[i] # i) THEN 0 ELSE root[i]]
    /\ tables' = tables \ {root[m] : m \in Freed(X)}

\* Mutant: any exit wakes whoever is suspended in vfork.
VforkWoken_Any(X) == {p \in Slots : state[p] = "VforkWait"}

\* wake_vfork_parent: the parents that the slots X had suspended.
VforkWoken(X) ==
    {p \in Slots : state[p] = "VforkWait" /\ \E x \in X : vfork_parent[x] = p}

ForgetVfork(X) ==
    /\ vfork_parent' = [i \in Slots |-> IF i \in X THEN IDLE ELSE vfork_parent[i]]
    /\ vfork_pid' = [i \in Slots |-> IF i \in X THEN None ELSE vfork_pid[i]]

\* Mutant: wait(-1) is forgotten.
Waiters_ByPid(s) ==
    {i \in Slots : /\ state[i] = "WaitChild"
                   /\ Pid(i) # Pid(s)
                   /\ Pid(leader[i]) = parent[s]
                   /\ blocked_on[i] = Pid(s)}

\* record_exit: the slots waiting for the process that slot s leads.
Waiters(s) ==
    {i \in Slots : /\ state[i] = "WaitChild"
                   /\ Pid(i) # Pid(s)
                   /\ Pid(leader[i]) = parent[s]
                   /\ blocked_on[i] \in {ANY, Pid(s)}}

\* The waiter that collects the exit in place, if any: the first one that
\* is not in waitid.
Collectors(s) ==
    {i \in Waiters(s) : ~redo[i] /\ \A j \in Waiters(s) : j < i => redo[j]}

\* The waiters record_exit wakes: the collector and the waitid callers
\* before it, or every waitid caller.
ExitWoken(s) ==
    {i \in Waiters(s) : \A j \in Collectors(s) : i <= j}

\* Leaders among the dying slots D: the processes that end.
Ended(D) == {d \in D : IsLeader(d)}

\* record_exit: an exit that nobody collected goes to the ring.
RecordExit(D) ==
    IF \E l \in Ended(D) : Collectors(l) = {}
    THEN LET l == CHOOSE l \in Ended(D) : Collectors(l) = {}
         IN /\ exits' = [exits EXCEPT ![exits_next] = [pid |-> Pid(l), parent |-> parent[l]]]
            /\ exits_next' = (exits_next + 1) % ExitsMax
    ELSE UNCHANGED ring

\* Mutant: reap wakes the clients waiting for a reply, not the ones still
\* waiting to send.
Reaped_RepliesOnly(D) ==
    [i \in Slots |->
        IF i \in D
        THEN IF mm[i] = i /\ Left(D, i) > 0 THEN "Zombie" ELSE "Unused"
        ELSE IF i \in Freed(D) THEN "Unused"
        ELSE IF \/ state[i] = "ReplyBlocked" /\ blocked_on[i] \in D
                \/ i \in VforkWoken(D)
                \/ \E l \in Ended(D) : i \in ExitWoken(l)
             THEN "Ready"
        ELSE state[i]]

\* The states once the slots D were reaped (reap and release).
Reaped(D) ==
    [i \in Slots |->
        IF i \in D
        THEN IF mm[i] = i /\ Left(D, i) > 0 THEN "Zombie" ELSE "Unused"
        ELSE IF i \in Freed(D) THEN "Unused"
        ELSE IF \/ state[i] \in Ipc /\ blocked_on[i] \in D
                \/ i \in VforkWoken(D)
                \/ \E l \in Ended(D) : i \in ExitWoken(l)
             THEN "Ready"
        ELSE state[i]]

\* The rest of reap for the slots D, with the running threads M marked.
ReapEffects(D, M) ==
    /\ killed' = [i \in Slots |-> IF i \in D THEN FALSE ELSE killed[i] \/ i \in M]
    /\ RecordExit(D)
    /\ DropSpaces(D)
    /\ ForgetVfork(D)
    /\ UNCHANGED family

\* exit_locked: the current slot of c leaves the CPU and is reaped (with the
\* slots D), then the CPU takes the next slot.
ExitWith(c, D, M) ==
    /\ ReapEffects(D, M)
    /\ Dispatch(c, Reaped(D), blocked_on, redo, timed)

exit_locked(c) ==
    LET s == current[c] IN ExitWith(c, Doomed(s), Marked(s))

\* exit_group, also the end of a program fault and of a kernel oops: the
\* leader dies or is marked, then the current slot exits.
exit_group(c) ==
    LET s == current[c]
        l == leader[s]
    IN \/ /\ l = s
          /\ exit_locked(c)
       \/ /\ l # s /\ state[l] \in {"Unused", "Zombie"}
          /\ exit_locked(c)
       \/ /\ l # s /\ state[l] = "Running"
          /\ ExitWith(c, {s}, {l})
       \/ /\ l # s /\ state[l] \notin {"Unused", "Zombie", "Running"}
          /\ ExitWith(c, Doomed(l) \cup {s}, Marked(l))

-----------------------------------------------------------------------------
(* Traps. *)

\* Entry of a trap of a program: exit_if_killed, which takes and releases
\* SCHED, before the system call or the preemption. An IPI (kick_idle_cpus,
\* kill) that interrupts a program is this check alone.
Enter(c, half) ==
    /\ current[c] # IDLE
    /\ mode[c] = "user"
    /\ \/ /\ killed[current[c]]
          /\ exit_locked(c)
       \/ /\ ~killed[current[c]]
          /\ mode' = [mode EXCEPT ![c] = half]
          /\ UNCHANGED <<space, ring, family, waits, vfork, killed, current, rr_next>>

\* Timer or IPI on an idle CPU, and its first entry (enter_scheduler).
IdleTick(c) ==
    /\ current[c] = IDLE
    /\ Dispatch(c, state, blocked_on, redo, timed)
    /\ UNCHANGED <<space, ring, family, vfork, killed>>

\* on_timer after the check: preempt.
Preempt(c) ==
    /\ mode[c] = "timer"
    /\ Reschedule(c)
    /\ UNCHANGED <<space, ring, family, vfork, killed>>

\* A fault of the program with no handler: exit_group without the check.
UserFault(c) ==
    /\ current[c] # IDLE
    /\ mode[c] = "user"
    /\ "fault" \in Syscalls
    /\ exit_group(c)

\* The instant wake_at of a waiting slot passes.
Deadline(s) ==
    /\ timed[s] /\ ~due[s]
    /\ due' = [due EXCEPT ![s] = TRUE]
    /\ UNCHANGED <<space, ring, family, cpu, vfork, killed,
                   state, blocked_on, redo, timed, partner_pid>>

-----------------------------------------------------------------------------
(* System calls: the current slot of c, past the check, calls `name`. *)

Calls(c, name) == mode[c] = "syscall" /\ name \in Syscalls

\* A call that changes nothing here: a query, an error, an early return.
Null(c) ==
    /\ mode[c] = "syscall"
    /\ Return(c, state, blocked_on)
    /\ UNCHANGED <<space, ring, family, vfork, killed>>

\* sched_yield
Yield(c) ==
    /\ Calls(c, "yield")
    /\ Reschedule(c)
    /\ UNCHANGED <<space, ring, family, vfork, killed>>

\* What a new slot i starts with (Process::empty and the assignments after).
NewSlot(i, l, par) ==
    /\ generation' = [generation EXCEPT ![i] = @ + 1]
    /\ leader' = [leader EXCEPT ![i] = l]
    /\ parent' = [parent EXCEPT ![i] = par]
    /\ killed' = [killed EXCEPT ![i] = FALSE]

\* create_ex, and fork without CLONE_VM: a process i with tables of its own.
Create(c) ==
    /\ Calls(c, "create")
    /\ \E i \in Slots :
          /\ FreeSlot(i)
          /\ \E r \in RootsOf(i) \ tables :
                /\ root' = [root EXCEPT ![i] = r]
                /\ tables' = tables \cup {r}
          /\ NewSlot(i, i, Pid(leader[current[c]]))
          /\ mm' = [mm EXCEPT ![i] = i]
          /\ members' = [members EXCEPT ![i] = 1]
          /\ Return(c, [state EXCEPT ![i] = "Ready"], blocked_on)
          /\ vfork_parent' = [vfork_parent EXCEPT ![i] = IDLE]
          /\ vfork_pid' = [vfork_pid EXCEPT ![i] = None]
    /\ UNCHANGED ring

\* Mutant: the new user of the space is not counted.
JoinSpace_NotCounted(c, i) ==
    LET m == mm[current[c]] IN
    /\ mm' = [mm EXCEPT ![i] = m]
    /\ root' = [root EXCEPT ![i] = root[m]]
    /\ members' = [members EXCEPT ![i] = 0]
    /\ UNCHANGED tables

\* A slot i that joins the space the current slot uses.
JoinSpace(c, i) ==
    LET m == mm[current[c]] IN
    /\ mm' = [mm EXCEPT ![i] = m]
    /\ root' = [root EXCEPT ![i] = root[m]]
    /\ members' = [j \in Slots |->
          IF j = m THEN members[m] + 1 ELSE IF j = i THEN 0 ELSE members[j]]
    /\ UNCHANGED tables

\* thread_create and clone_thread.
thread_create(c) ==
    /\ Calls(c, "thread")
    /\ LET l == leader[current[c]] IN
       \E i \in Slots :
          /\ FreeSlot(i)
          /\ NewSlot(i, l, parent[l])
          /\ JoinSpace(c, i)
          /\ Return(c, [state EXCEPT ![i] = "Ready"], blocked_on)
          /\ vfork_parent' = [vfork_parent EXCEPT ![i] = IDLE]
          /\ vfork_pid' = [vfork_pid EXCEPT ![i] = None]
    /\ UNCHANGED ring

\* Two kinds of callers: the owner of a space, and a slot that runs in the
\* space of another (a thread, or a vfork child before its execve).
VforkOf(s) == IF mm[s] = s THEN "vfork" ELSE "vfork_borrowed"

\* fork with new_root = None: vfork. The caller stops until the child
\* execs or exits.
Vfork(c) ==
    /\ Calls(c, VforkOf(current[c]))
    /\ LET s == current[c] IN
       \E i \in Slots :
          /\ FreeSlot(i)
          /\ NewSlot(i, i, Pid(leader[s]))
          /\ JoinSpace(c, i)
          /\ vfork_parent' = [vfork_parent EXCEPT ![i] = s]
          /\ vfork_pid' = [vfork_pid EXCEPT ![i] = Pid(s)]
          /\ Block(c, [state EXCEPT ![i] = "Ready", ![s] = "VforkWait"], blocked_on, redo, timed)
    /\ UNCHANGED ring

\* exec_replace on the process the current slot leads: the other threads
\* die or are marked; the call fails if the space is still shared.
exec_replace(c) ==
    /\ Calls(c, "exec")
    /\ LET s == current[c]
           D == Stopped(s)
           fails == mm[s] = s /\ Left(D, s) > 1
           X == D \cup {s}
       IN /\ IsLeader(s)
          /\ \/ /\ fails
                /\ DropSpaces(D)
                /\ ForgetVfork(D)
                /\ Return(c, Reaped(D), blocked_on)
             \/ /\ ~fails
                /\ members' = [m \in Slots |-> IF m = s THEN 1 ELSE Left(X, m)]
                /\ mm' = [i \in Slots |-> IF i \in X THEN i ELSE mm[i]]
                /\ \E r \in RootsOf(s) \ tables :
                      /\ root' = [i \in Slots |->
                            IF i = s THEN r
                            ELSE IF i \in Freed(X) \/ (i \in X /\ mm[i] # i) THEN 0
                            ELSE root[i]]
                      /\ tables' = (tables \ {root[m] : m \in Freed(X)}) \cup {r}
                /\ ForgetVfork(X)
                /\ LET st == Reaped(D) IN
                   Return(c, [i \in Slots |->
                                IF i \in VforkWoken(X) \ D THEN "Ready"
                                ELSE IF i \in Freed(X) \ X THEN "Unused"
                                ELSE st[i]], blocked_on)
          /\ killed' = [i \in Slots |->
                IF i \in D THEN FALSE ELSE killed[i] \/ i \in Elsewhere(s)]
    /\ UNCHANGED <<ring, family>>

\* SYS_EXIT: the current slot alone, or its process if it leads.
Exit(c) ==
    /\ Calls(c, "exit")
    /\ exit_locked(c)

\* SYS_EXIT_GROUP, a fatal signal at the end of a trap, or a kernel oops
\* (oops_recover) while serving the call.
ExitGroup(c) ==
    /\ Calls(c, "exit_group")
    /\ exit_group(c)

\* Mutant: a target that runs on another CPU is reaped at once.
Kill_Running(c) ==
    /\ Calls(c, "kill")
    /\ \E t \in Live :
          \/ /\ t = current[c]
             /\ exit_locked(c)
          \/ /\ t # current[c]
             /\ ReapEffects(Doomed(t), Marked(t))
             /\ Return(c, Reaped(Doomed(t)), blocked_on)

\* kill_sig: the target dies now, or is marked if it runs on another CPU.
Kill(c) ==
    /\ Calls(c, "kill")
    /\ \E t \in Live :
          \/ /\ t = current[c]
             /\ exit_locked(c)
          \/ /\ t # current[c] /\ state[t] = "Running"
             /\ killed' = [killed EXCEPT ![t] = TRUE]
             /\ Return(c, state, blocked_on)
             /\ UNCHANGED <<space, ring, family, vfork>>
          \/ /\ state[t] # "Running"
             /\ ReapEffects(Doomed(t), Marked(t))
             /\ Return(c, Reaped(Doomed(t)), blocked_on)

\* sleep_ticks
Sleep(c) ==
    /\ Calls(c, "sleep")
    /\ LET s == current[c] IN
       Block(c, [state EXCEPT ![s] = "Sleeping"], blocked_on, redo, [timed EXCEPT ![s] = TRUE])
    /\ UNCHANGED <<space, ring, family, vfork, killed>>

-----------------------------------------------------------------------------
(* wait *)

\* A child that is alive and matches pid (ANY or a pid).
HasChild(me, pid) ==
    \E i \in Live : IsLeader(i) /\ parent[i] = me /\ pid \in {ANY, Pid(i)}

\* Records of the ring that wait(pid) of process `me` may take.
Records(me, pid) ==
    {k \in DOMAIN exits : exits[k].pid # None /\ exits[k].parent = me
                          /\ pid \in {ANY, exits[k].pid}}

\* wait_child and waitid_child (the latter blocks with WAIT_REDO). With
\* nohang, or with no child, the call is a Null step; so is WNOWAIT finding
\* a record.
Wait(c) ==
    /\ Calls(c, "wait")
    /\ LET s  == current[c]
           me == Pid(leader[s])
       IN \E pid \in AllPids \cup {ANY}, rd \in BOOLEAN :
          \/ /\ Records(me, pid) # {}
             /\ exits' = [exits EXCEPT ![Min(Records(me, pid))].pid = None]
             /\ Return(c, state, blocked_on)
             /\ UNCHANGED exits_next
          \/ /\ Records(me, pid) = {}
             /\ HasChild(me, pid)
             /\ Block(c, [state EXCEPT ![s] = "WaitChild"], [blocked_on EXCEPT ![s] = pid],
                      [redo EXCEPT ![s] = rd], timed)
             /\ UNCHANGED ring
    /\ UNCHANGED <<space, family, vfork, killed>>

-----------------------------------------------------------------------------
(* IPC *)

\* find_sender: slots waiting to send to me, and the first after me.
Senders(me) == {i \in Slots : state[i] = "SendBlocked" /\ blocked_on[i] = me}
FirstSender(me) ==
    CHOOSE i \in Senders(me) : \A j \in Senders(me) :
        (i - me - 1 + MaxProcs) % MaxProcs <= (j - me - 1 + MaxProcs) % MaxProcs

\* ipc_send: rendezvous with a receiver already waiting, or wait for it.
ipc_send(c) ==
    /\ Calls(c, "send")
    /\ LET me == current[c] IN
       \E dst \in Live \ {me} :
          \/ /\ state[dst] = "RecvBlocked"
             /\ Block(c, [state EXCEPT ![dst] = "Ready", ![me] = "ReplyBlocked"],
                      [blocked_on EXCEPT ![me] = dst], redo, timed)
          \/ /\ state[dst] # "RecvBlocked"
             /\ Block(c, [state EXCEPT ![me] = "SendBlocked"],
                      [blocked_on EXCEPT ![me] = dst], redo, timed)
    /\ UNCHANGED <<space, ring, family, vfork, killed>>

\* accept_from: the receiver goes on, the sender waits for the reply.
accept_from(c, s) ==
    Return(c, [state EXCEPT ![s] = "ReplyBlocked"], [blocked_on EXCEPT ![s] = current[c]])

\* Mutant: a receive with a timeout sleeps before it looks for a sender.
ipc_recv_SleepFirst(c) ==
    /\ Calls(c, "recv")
    /\ LET me == current[c] IN
       \/ /\ Senders(me) # {}
          /\ accept_from(c, FirstSender(me))
       \/ \E t \in BOOLEAN :
             /\ Senders(me) = {} \/ t
             /\ Block(c, [state EXCEPT ![me] = "RecvBlocked"], blocked_on, redo,
                      [timed EXCEPT ![me] = t])
    /\ UNCHANGED <<space, ring, family, vfork, killed>>

\* ipc_recv, with or without a timeout. ipc_try_recv is the first case (or
\* a Null step).
ipc_recv(c) ==
    /\ Calls(c, "recv")
    /\ LET me == current[c] IN
       \/ /\ Senders(me) # {}
          /\ accept_from(c, FirstSender(me))
       \/ /\ Senders(me) = {}
          /\ \E t \in BOOLEAN :
                Block(c, [state EXCEPT ![me] = "RecvBlocked"], blocked_on, redo,
                      [timed EXCEPT ![me] = t])
    /\ UNCHANGED <<space, ring, family, vfork, killed>>

\* ipc_reply to a client of the caller.
ipc_reply(c) ==
    /\ Calls(c, "reply")
    /\ \E to \in Live :
          /\ state[to] = "ReplyBlocked" /\ blocked_on[to] = current[c]
          /\ Return(c, [state EXCEPT ![to] = "Ready"], blocked_on)
    /\ UNCHANGED <<space, ring, family, vfork, killed>>

-----------------------------------------------------------------------------
\* The boot left one process ready (init) and no CPU in the scheduler yet.
Init ==
    /\ state = [i \in Slots |-> IF i = 0 THEN "Ready" ELSE "Unused"]
    /\ generation = [i \in Slots |-> IF i = 0 THEN 1 ELSE 0]
    /\ leader = [i \in Slots |-> 0]
    /\ mm = [i \in Slots |-> 0]
    /\ members = [i \in Slots |-> IF i = 0 THEN 1 ELSE 0]
    /\ root = [i \in Slots |-> IF i = 0 THEN 1 ELSE 0]
    /\ tables = {1}
    /\ killed = [i \in Slots |-> FALSE]
    /\ vfork_parent = [i \in Slots |-> IDLE]
    /\ vfork_pid = [i \in Slots |-> None]
    /\ parent = [i \in Slots |-> KERNEL]
    /\ blocked_on = [i \in Slots |-> None]
    /\ partner_pid = [i \in Slots |-> None]
    /\ redo = [i \in Slots |-> FALSE]
    /\ timed = [i \in Slots |-> FALSE]
    /\ due = [i \in Slots |-> FALSE]
    /\ exits = [k \in 0 .. ExitsMax - 1 |-> NoExit]
    /\ exits_next = 0
    /\ current = [c \in Cpus |-> IDLE]
    /\ rr_next = 0
    /\ mode = [c \in Cpus |-> "user"]

Syscall(c) ==
    \/ Null(c) \/ Yield(c) \/ Sleep(c)
    \/ Create(c) \/ thread_create(c) \/ Vfork(c) \/ exec_replace(c)
    \/ Exit(c) \/ ExitGroup(c) \/ Kill(c) \/ Wait(c)
    \/ ipc_send(c) \/ ipc_recv(c) \/ ipc_reply(c)

Next ==
    \/ \E c \in Cpus : \/ Enter(c, "syscall") \/ Enter(c, "timer")
                       \/ IdleTick(c) \/ Preempt(c) \/ UserFault(c) \/ Syscall(c)
    \/ \E s \in Slots : Deadline(s)

Spec == Init /\ [][Next]_vars

\* A timer interrupt stays pending until the CPU is back in user mode, where
\* it is taken; the kernel half of a trap ends; the clock goes on.
Fairness ==
    /\ \A c \in Cpus : /\ SF_vars(Enter(c, "timer"))
                       /\ WF_vars(Preempt(c))
                       /\ WF_vars(Syscall(c))
                       /\ WF_vars(IdleTick(c))
    /\ \A s \in Slots : WF_vars(Deadline(s))

FairSpec == Spec /\ Fairness

-----------------------------------------------------------------------------
(* Properties *)

TypeOK ==
    /\ state \in [Slots -> States]
    /\ generation \in [Slots -> Nat]
    /\ leader \in [Slots -> Slots]
    /\ mm \in [Slots -> Slots]
    /\ members \in [Slots -> Nat]
    /\ root \in [Slots -> Nat]
    /\ tables \subseteq Nat
    /\ killed \in [Slots -> BOOLEAN]
    /\ vfork_parent \in [Slots -> Slots \cup {IDLE}]
    /\ vfork_pid \in [Slots -> Int]
    /\ parent \in [Slots -> Int]
    /\ blocked_on \in [Slots -> Int]
    /\ partner_pid \in [Slots -> Int]
    /\ \A i \in Slots : state[i] \in Ipc => blocked_on[i] \in Slots
    /\ redo \in [Slots -> BOOLEAN]
    /\ timed \in [Slots -> BOOLEAN]
    /\ due \in [Slots -> BOOLEAN]
    /\ exits \in [0 .. ExitsMax - 1 -> [pid : Int, parent : Int]]
    /\ exits_next \in 0 .. ExitsMax - 1
    /\ current \in [Cpus -> Slots \cup {IDLE}]
    /\ rr_next \in Slots
    /\ mode \in [Cpus -> {"user", "syscall", "timer"}]

\* "Um processo Running esta em exatamente uma CPU": a slot is Running if
\* and only if it is the current one of exactly one CPU, whatever the other
\* CPUs create, wake, kill or reap meanwhile.
RunningOnOneCpu ==
    /\ \A c \in Cpus : current[c] # IDLE => state[current[c]] = "Running"
    /\ \A i \in Slots : state[i] = "Running" => \E c \in Cpus : current[c] = i
    /\ \A c, d \in Cpus : current[c] = current[d] /\ c # d => current[c] = IDLE

\* No thread and no vfork child runs on page tables that were returned to
\* the allocator, and no tables outlive their last user (drop_mm, free_mm):
\* the counter of a space is the number of its users, and a dead owner stays
\* a Zombie exactly while somebody else uses its space.
SpaceExact ==
    /\ \A i \in Live : /\ mm[mm[i]] = mm[i]
                       /\ root[i] = root[mm[i]]
                       /\ root[i] \in tables
    /\ \A r \in tables : \E i \in Live : root[i] = r
    /\ \A m \in Slots :
           state[m] # "Unused" /\ mm[m] = m =>
               /\ members[m] = Cardinality({i \in Live : mm[i] = m})
               /\ members[m] > 0

\* Whoever waits in IPC waits for a process that exists, and the same one it
\* addressed: death of the partner (reap) never leaves a client behind, and
\* the slot of a dead partner is never taken for it.
PartnerAlive ==
    \A i \in Slots : state[i] \in Ipc => IsPid(blocked_on[i], partner_pid[i])

\* A sender never waits for a receiver that is itself waiting for a message
\* (ipc_send and ipc_recv never miss each other).
RendezvousMet ==
    \A i \in Slots : state[i] = "SendBlocked" => state[blocked_on[i]] # "RecvBlocked"

\* Whoever waits for a child has a child whose exit will wake it.
WaiterHasChild ==
    \A i \in Live : state[i] = "WaitChild" => HasChild(Pid(leader[i]), blocked_on[i])

\* "o pai fica suspenso": the caller of a vfork sleeps as long as its child
\* runs in the space the two share, whatever is killed and whatever slot is
\* taken again. It holds for callers that own their space ("vfork"). A thread
\* or a vfork child ("vfork_borrowed") may die and its slot be taken by
\* another process that calls vfork: the child of the dead one then wakes it.
OwnerSuspended ==
    \A i \in Live : LET p == vfork_parent[i] IN
        p # IDLE /\ IsPid(p, vfork_pid[i]) => state[p] = "VforkWait"

\* "Se s e o lider, as threads dele morrem junto": a live thread of a dead
\* process is one that was marked to die.
ThreadsDieWithLeader ==
    \A i \in Live : leader[i] \in Live \/ killed[i]

\* "Zombie: lider que saiu, mas com threads ainda vivas": the slot of a
\* leader is not given back while it has threads, so that `leader` never
\* names another process.
LeaderSlotKept ==
    \A i \in Live : state[leader[i]] # "Unused"

\* "So retorna em caso de erro (com o processo intacto)": an execve that
\* fails leaves the other threads of the process as they were.
FailedExecIntact ==
    [][\A c \in Cpus : exec_replace(c) /\ root'[current[c]] = root[current[c]]
                          => UNCHANGED <<state, killed>>]_vars

\* "marca e interrompe aquela CPU (ela o termina ao entrar no kernel)": a
\* process marked by kill dies.
MarkedDies == \A s \in Slots : killed[s] ~> ~killed[s]

\* Round robin starves nobody: a ready slot runs (or dies).
ReadyRuns == \A s \in Slots : state[s] = "Ready" ~> state[s] # "Ready"

\* A timed wait (sleep, IPC_RECV_TIMEOUT) ends.
TimedWaitEnds == \A s \in Slots : timed[s] ~> ~timed[s]

=============================================================================
