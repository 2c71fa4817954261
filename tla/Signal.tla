------------------------------- MODULE Signal -------------------------------
(***************************************************************************)
(* Signals and futexes of the threads of one Linux process                 *)
(* (kernel/src/signal.rs and their part of process.rs and linux.rs): where *)
(* a signal goes, how it ends a wait, what a handler returns to.           *)
(*                                                                         *)
(* Every action but `look` is one critical section of SCHED. A call is     *)
(* made from the mode "user", in which signals may already be pending: the *)
(* interrupt that announces them can come later than the trap of the call. *)
(* Return values are left out; what matters is whether a call is made      *)
(* again. Which thread runs is the scheduler's business (Process).         *)
(***************************************************************************)
EXTENDS Integers, FiniteSets, FiniteSetsExt, Sequences

CONSTANTS
    Threads,
    Leader,        \* the first thread: its pid is the one of the process
    Sigs,          \* signal numbers
    Ignored,       \* the ones whose default is to be ignored (default_ignored)
    Actions,       \* what programs ask of rt_sigaction
    Masks,         \* masks of rt_sigprocmask
    SuspendMasks,  \* masks of rt_sigsuspend
    Programs       \* sets of calls: the process of a behaviour makes one of them

Lock   == "lock"            \* a word the threads share; the others are their ids
Words  == Threads \cup {Lock}
NoCall == "none"
NoSend == [to |-> Lock]
DFL    == [handler |-> "dfl", mask |-> {}, restart |-> FALSE, nodefer |-> FALSE, reset |-> FALSE]

ASSUME SignalAssumption ==
    /\ Leader \in Threads /\ Lock \notin Threads /\ IsFiniteSet(Threads)
    /\ Sigs \subseteq Nat \ {0} /\ IsFiniteSet(Sigs) /\ Ignored \subseteq Sigs
    /\ Actions \subseteq [handler : {"dfl", "ign", "fn"}, mask : SUBSET Sigs,
                          restart : BOOLEAN, nodefer : BOOLEAN, reset : BOOLEAN]
    /\ Masks \cup SuspendMasks \subseteq SUBSET Sigs

VARIABLES
    th,     \* the threads, see Fresh
    act,    \* ACTIONS of the process
    word,   \* words in the memory of the process
    owes,   \* threads that changed Lock and have yet to call FUTEX_WAKE
    ready,  \* the file that is read and polled has data
    snd,    \* a kill of another process, between its looks and its deed
    dead,   \* the process has ended
    calls   \* the calls the process makes

vars == <<th, act, word, owes, ready, snd, dead, calls>>

\* pc: "user", "wait" (before io_wait), "ret" (the end of a trap), a state the
\* thread sleeps in, "dead". again: the call the program counter was moved
\* back to, or is about to be. want is history: the mask the program asked for.
Fresh ==
    [pc |-> "user", again |-> NoCall, timed |-> FALSE, on |-> Lock, val |-> 0,
     in_poll |-> FALSE, io_deadline |-> "zero", moved |-> FALSE,
     pending |-> {}, mask |-> {}, saved |-> {}, suspended |-> FALSE,
     frames |-> <<>>, want |-> {}]

May(call) == ~dead /\ call \in calls

\* The signals that occur: the first, or all of them.
Occurring == IF "second" \in calls THEN Sigs ELSE {Min(Sigs)}

\* The thread is in its program and free to make the call.
Calls(t, call) == May(call) /\ th[t].pc = "user" /\ th[t].again \in {NoCall, call}

Goes(t, pc) == th' = [th EXCEPT ![t].pc = pc]
Other == <<act, word, owes, ready, snd, dead, calls>>

Deliverable(r) == r.pending \ r.mask

-----------------------------------------------------------------------------
(* Posting.                                                                *)

Fatal(s) == act[s].handler = "dfl" /\ s \notin Ignored
would_act(s) == act[s].handler = "fn" \/ Fatal(s)
restarts(s) == act[s].restart

Alive == {t \in Threads : th[t].pc # "dead"}

\* A signal for the process goes to its leader, or to a thread that lets it
\* through if the leader does not.
Dest(to, s, thread) ==
    LET open == {t \in Alive : s \notin th[t].mask}
    IN  IF thread \/ s \notin th[Leader].mask \/ open = {} THEN {to} ELSE open

\* A wait is over, and what it was for is forgotten.
Awake(r) == [r EXCEPT !.pc = "ret", !.on = Lock, !.val = 0, !.timed = FALSE, !.moved = FALSE]

\* Mutant: the deadline and the mark of a poll survive the signal that ends it.
Interrupted_Keeps(r) == [Awake(r) EXCEPT !.again = NoCall]
\* skip_syscall: the wait for a file ends with EINTR.
Interrupted(r) ==
    [Awake(r) EXCEPT !.again = NoCall, !.in_poll = FALSE, !.io_deadline = "zero"]

\* The state of the thread that gets s.
Posted(r, s) ==
    LET p == [r EXCEPT !.pending = @ \cup {s}]
        again == restarts(s)
    IN  IF s \in r.mask /\ r.pc # "SigWait" THEN p
        ELSE CASE r.pc = "WaitChild" /\ again -> [Awake(p) EXCEPT !.again = "wait4"]
               [] r.pc = "WaitChild" /\ ~again -> Awake(p)
               [] r.pc \in {"Sleeping", "FutexWait", "SigWait"} -> Awake(p)
               [] r.pc = "IoWait" /\ (r.again = "poll" \/ ~again) -> Interrupted(p)
               [] r.pc = "IoWait" /\ r.again # "poll" /\ again -> Awake(p)
               [] OTHER -> p

post_signal_locked(to, s, thread) ==
    IF to \in Alive /\ would_act(s)
    THEN \E d \in Dest(to, s, thread) : th' = [th EXCEPT ![d] = Posted(@, s)]
    ELSE UNCHANGED th

\* SIGALRM of wake_sleepers, SIGCHLD of a child that ended
post(s) ==
    /\ ~dead /\ s \in Occurring
    /\ post_signal_locked(Leader, s, FALSE)
    /\ UNCHANGED Other

\* kill, tkill, tgkill of another process: send looks at the action and the
\* mask first, each under a lock of its own,
look(to, s, thread) ==
    /\ May("send") /\ snd = NoSend /\ to \in Alive
    /\ ~thread => to = Leader
    /\ s \in Occurring /\ would_act(s)
    /\ snd' = [to |-> to, sig |-> s, thread |-> thread,
               kill |-> Fatal(s) /\ s \notin th[to].mask]
    /\ UNCHANGED <<th, act, word, owes, ready, dead, calls>>

\* and then kills or posts.
send ==
    /\ ~dead /\ snd # NoSend
    /\ snd' = NoSend
    /\ dead' = snd.kill
    /\ IF snd.kill THEN UNCHANGED th ELSE post_signal_locked(snd.to, snd.sig, snd.thread)
    /\ UNCHANGED <<act, word, owes, ready, calls>>

-----------------------------------------------------------------------------
(* Delivery, at the end of every trap.                                     *)

\* The timer, or the interrupt another CPU sends.
interrupt(t) == ~dead /\ th[t].pc = "user" /\ Goes(t, "ret") /\ UNCHANGED Other

\* Mutant: the frame keeps the mask of rt_sigsuspend.
old_mask_Current(r) == r.mask
old_mask(r) == IF r.suspended THEN r.saved ELSE r.mask

\* A handler starts. A poll that was to be made again returns EINTR.
Handled(r, s) ==
    LET a == act[s]
    IN  [r EXCEPT !.pc = "user", !.pending = @ \ {s}, !.suspended = FALSE,
                  !.mask = old_mask(r) \cup a.mask \cup (IF a.nodefer THEN {} ELSE {s}),
                  !.again = NoCall, !.in_poll = FALSE,
                  !.io_deadline = IF r.in_poll THEN "zero" ELSE @,
                  !.frames = Append(@, [mask |-> old_mask(r),
                                        again |-> IF r.in_poll THEN NoCall ELSE r.again])]

deliver(t) ==
    /\ ~dead /\ th[t].pc = "ret"
    /\ IF Deliverable(th[t]) = {} THEN Goes(t, "user") /\ UNCHANGED <<act, dead>>
       ELSE LET s == Min(Deliverable(th[t]))
            IN  CASE act[s].handler = "fn" ->
                       /\ th' = [th EXCEPT ![t] = Handled(@, s)]
                       /\ act' = IF act[s].reset THEN [act EXCEPT ![s] = DFL] ELSE act
                       /\ UNCHANGED dead
                  [] Fatal(s) -> dead' = TRUE /\ UNCHANGED <<th, act>>
                  [] OTHER -> /\ th' = [th EXCEPT ![t].pending = @ \ {s}]
                              /\ UNCHANGED <<act, dead>>
    /\ UNCHANGED <<word, owes, ready, snd, calls>>

\* What the last handler interrupted.
Restored(r) ==
    LET f == r.frames[Len(r.frames)]
    IN  [r EXCEPT !.pc = "ret", !.mask = f.mask, !.suspended = FALSE, !.again = f.again,
                  !.frames = SubSeq(@, 1, Len(@) - 1)]

sigreturn(t) ==
    /\ ~dead /\ th[t].pc = "user" /\ th[t].again = NoCall /\ th[t].frames # <<>>
    /\ th' = [th EXCEPT ![t] = Restored(@)]
    /\ UNCHANGED Other

-----------------------------------------------------------------------------
(* The calls about signals.                                                *)

\* Ignoring a signal discards it where it is pending for the caller.
sys_sigaction(t, s, a) ==
    /\ Calls(t, "sigaction") /\ s \in Occurring
    /\ act' = [act EXCEPT ![s] = a]
    /\ th' = [th EXCEPT ![t].pc = "ret",
                        ![t].pending = IF a.handler = "ign" THEN @ \ {s} ELSE @]
    /\ UNCHANGED <<word, owes, ready, snd, dead, calls>>

\* Handlers leave the mask alone.
sys_sigprocmask(t, m) ==
    /\ Calls(t, "sigprocmask") /\ th[t].frames = <<>>
    /\ th' = [th EXCEPT ![t].pc = "ret", ![t].mask = m, ![t].want = m]
    /\ UNCHANGED Other

sig_suspend(t, m) ==
    /\ Calls(t, "sigsuspend") /\ th[t].frames = <<>>
    /\ th' = [th EXCEPT ![t] = [@ EXCEPT !.saved = th[t].mask, !.suspended = TRUE, !.mask = m,
                                         !.pc = IF th[t].pending \subseteq m THEN "SigWait" ELSE "ret"]]
    /\ UNCHANGED Other

-----------------------------------------------------------------------------
(* Waits.                                                                  *)

sleep_ticks(t) == Calls(t, "sleep") /\ Goes(t, "Sleeping") /\ UNCHANGED Other

\* wait4; the end of the child is an event.
wait_child(t) ==
    /\ Calls(t, "wait4")
    /\ th' = [th EXCEPT ![t].pc = "WaitChild", ![t].again = NoCall]
    /\ UNCHANGED Other

child_exits(t) == ~dead /\ th[t].pc = "WaitChild" /\ Goes(t, "ret") /\ UNCHANGED Other

\* read, under FS: data, or the decision to wait
read(t) ==
    /\ Calls(t, "read")
    /\ th' = [th EXCEPT ![t] = [@ EXCEPT !.pc = IF ready THEN "ret" ELSE "wait",
                                         !.again = IF ready THEN NoCall ELSE "read"]]
    /\ ready' = FALSE
    /\ UNCHANGED <<act, word, owes, snd, dead, calls>>

\* wait_ready: poll, select, epoll_wait. The deadline of the first call stays
\* while it is made again, and may have passed.
wait_ready(t, timed) ==
    /\ Calls(t, "poll")
    /\ LET due == IF th[t].io_deadline # "zero" THEN th[t].io_deadline
                  ELSE IF timed THEN "timed" ELSE "never"
           over == [th[t] EXCEPT !.pc = "ret", !.again = NoCall, !.in_poll = FALSE,
                                 !.io_deadline = "zero"]
           wait == [th[t] EXCEPT !.pc = "wait", !.again = "poll", !.io_deadline = due]
       IN  \/ (ready \/ due = "timed") /\ th' = [th EXCEPT ![t] = over]
           \/ ~ready /\ th' = [th EXCEPT ![t] = wait]
    /\ UNCHANGED Other

\* The timeout is not readable; "fault": it no longer is when the call is made
\* again.
wait_ready_fault(t) ==
    /\ Calls(t, "poll") /\ (th[t].again = NoCall \/ May("fault"))
    /\ th' = [th EXCEPT ![t].pc = "ret", ![t].again = NoCall]
    /\ UNCHANGED Other

\* The call will be made again; the thread sleeps first, or not.
Rewound(r, sleeps) ==
    LET p == [r EXCEPT !.in_poll = @ \/ r.again = "poll"]
    IN  IF sleeps THEN [p EXCEPT !.pc = "IoWait"] ELSE Awake(p)

\* Mutant: a signal that came before does not keep the thread awake.
io_wait_Blind(t) ==
    /\ ~dead /\ th[t].pc = "wait"
    /\ th' = [th EXCEPT ![t] = Rewound(@, ~@.moved)]
    /\ UNCHANGED Other
\* io_wait_until and io_wait_mask
io_wait(t) ==
    /\ ~dead /\ th[t].pc = "wait"
    /\ th' = [th EXCEPT ![t] = Rewound(@, ~@.moved /\ Deliverable(@) = {})]
    /\ UNCHANGED Other

\* Data arrive: bump_io_seq and io_wake.
io_wake ==
    /\ ~dead /\ calls \cap {"read", "poll"} # {}
    /\ ready' = TRUE
    /\ th' = [t \in Threads |->
                CASE th[t].pc = "IoWait" -> Awake(th[t])
                  [] th[t].pc = "wait" -> [th[t] EXCEPT !.moved = TRUE]
                  [] OTHER -> th[t]]
    /\ UNCHANGED <<act, word, owes, snd, dead, calls>>

\* wake_sleepers: a deadline passes.
wake_sleepers(t) ==
    /\ ~dead
    /\ \/ th[t].pc = "Sleeping"
       \/ th[t].pc = "FutexWait" /\ th[t].timed
       \/ th[t].pc = "IoWait" /\ th[t].io_deadline = "timed"
    /\ th' = [th EXCEPT ![t] = Awake(@)]
    /\ UNCHANGED Other

-----------------------------------------------------------------------------
(* Futexes.                                                                *)

\* Mutant: the word is looked at before SCHED is taken, and not again.
futex_wait_ticks_Unlocked(t, w, v, timed) ==
    /\ Calls(t, "futex") /\ w # t
    /\ th' = [th EXCEPT ![t] = [@ EXCEPT !.pc = "FutexWait", !.on = w, !.val = v, !.timed = timed]]
    /\ UNCHANGED Other
\* v is what the program saw in the word some time before.
futex_wait_ticks(t, w, v, timed) ==
    /\ Calls(t, "futex") /\ w # t
    /\ th' = [th EXCEPT ![t] =
                IF word[w] = v THEN [@ EXCEPT !.pc = "FutexWait", !.on = w, !.val = v, !.timed = timed]
                ELSE [@ EXCEPT !.pc = "ret"]]
    /\ UNCHANGED Other

\* The threads R return from their waits.
Woken(R) == [t \in Threads |-> IF t \in R THEN Awake(th[t]) ELSE th[t]]
Waiters(w) == {t \in Threads : th[t].pc = "FutexWait" /\ th[t].on = w}

\* The program changes the word and then calls FUTEX_WAKE.
store(t) ==
    /\ Calls(t, "futex") /\ t \notin owes
    /\ word' = [word EXCEPT ![Lock] = 1 - @]
    /\ owes' = owes \cup {t}
    /\ UNCHANGED <<th, act, ready, snd, dead, calls>>

\* All of them; a requeue wakes whom it would move.
futex_wake(t) ==
    /\ Calls(t, "futex") /\ t \in owes
    /\ owes' = owes \ {t}
    /\ th' = [Woken(Waiters(Lock)) EXCEPT ![t].pc = "ret"]
    /\ UNCHANGED <<act, word, ready, snd, dead, calls>>

\* exit_locked of a thread: its id becomes 0 and one waiter is woken.
exit_locked(t) ==
    /\ Calls(t, "exit") /\ t # Leader /\ t \notin owes
    /\ word' = [word EXCEPT ![t] = 0]
    /\ \E R \in SUBSET Waiters(t) :
          /\ Cardinality(R) = (IF Waiters(t) = {} THEN 0 ELSE 1)
          /\ th' = [Woken(R) EXCEPT ![t].pc = "dead"]
    /\ UNCHANGED <<act, owes, ready, snd, dead, calls>>

-----------------------------------------------------------------------------
Init ==
    /\ th = [t \in Threads |-> Fresh]
    /\ calls \in Programs
    /\ act \in {f \in [Sigs -> Actions \cup {DFL}] :
                  \A s \in Sigs : IF s \in Occurring THEN f[s] \in Actions ELSE f[s] = DFL}
    /\ word = [w \in Words |-> IF w = Lock THEN 0 ELSE 1]
    /\ owes = {}
    /\ ready = FALSE
    /\ snd = NoSend
    /\ dead = FALSE

Next ==
    \/ \E s \in Sigs :
          \/ post(s)
          \/ \E to \in Threads, thread \in BOOLEAN : look(to, s, thread)
    \/ send
    \/ io_wake
    \/ \E t \in Threads :
          \/ interrupt(t) \/ deliver(t) \/ sigreturn(t)
          \/ \E s \in Sigs, a \in Actions : sys_sigaction(t, s, a)
          \/ \E m \in Masks : sys_sigprocmask(t, m)
          \/ \E m \in SuspendMasks : sig_suspend(t, m)
          \/ sleep_ticks(t) \/ wait_child(t) \/ child_exits(t)
          \/ read(t) \/ wait_ready_fault(t) \/ io_wait(t) \/ wake_sleepers(t)
          \/ \E timed \in BOOLEAN : wait_ready(t, timed)
          \/ \E w \in Words, v \in 0 .. 1, timed \in BOOLEAN : futex_wait_ticks(t, w, v, timed)
          \/ store(t) \/ futex_wake(t) \/ exit_locked(t)

\* The timer interrupts every program, every trap ends, and time passes.
Fairness ==
    \A t \in Threads :
        /\ WF_vars(interrupt(t)) /\ WF_vars(deliver(t)) /\ WF_vars(io_wait(t))
        /\ WF_vars(wake_sleepers(t))

Spec == Init /\ [][Next]_vars /\ Fairness

-----------------------------------------------------------------------------
(* Properties *)

\* Once its handlers have returned, a program has the mask it asked for,
\* whatever rt_sigsuspend put in its place meanwhile.
MaskRestored ==
    \A t \in Threads :
        IF th[t].frames = <<>> THEN th[t].pc = "user" => th[t].mask = th[t].want
        ELSE th[t].frames[1].mask = th[t].want

\* The mark and the deadline of a poll belong to the poll that is about to be
\* made again, and no handler returns into a poll.
PollWhole ==
    \A t \in Threads :
        /\ th[t].pc # "wait" /\ (th[t].in_poll \/ th[t].io_deadline # "zero") => th[t].again = "poll"
        /\ \A k \in 1 .. Len(th[t].frames) : th[t].frames[k].again # "poll"

\* Who sleeps on a word that has changed is about to be woken, as long as nobody
\* joins a thread that somebody else joins.
FutexWoken ==
    \A t \in Threads :
        th[t].pc = "FutexWait" /\ word[th[t].on] # th[t].val => th[t].on = Lock /\ owes # {}

Taken(t, s) == s \in Deliverable(th[t]) ~> (s \notin Deliverable(th[t]) \/ dead)

\* The first of the signals is taken by the thread it is pending for, or ends
\* the process, as long as the thread lets it through; sleeps that do not
\* look for signals left aside.
SignalTaken ==
    calls \cap {"futex", "wait4"} = {} => \A t \in Threads : Taken(t, Min(Sigs))

\* The same without that exception.
FirstTaken == \A t \in Threads : Taken(t, Min(Sigs))

\* The same for every signal.
AllTaken ==
    calls \cap {"futex", "wait4"} = {} => \A t \in Threads, s \in Sigs : Taken(t, s)

\* A process that has ended had no handler for what ended it.
KilledRight ==
    [][dead' /\ ~dead => \E s \in Sigs : Fatal(s)]_vars
=============================================================================
