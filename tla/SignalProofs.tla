---------------------------- MODULE SignalProofs ----------------------------
(***************************************************************************)
(* Proofs about Signal: what a poll that is made again carries with it,    *)
(* and that who sleeps on a futex is woken, for any number of threads and  *)
(* signals.                                                                *)
(***************************************************************************)
EXTENDS Signal, FiniteSetTheorems, SequenceTheorems, WellFoundedInduction, TLAPS

\* A set of numbers that is not empty has a least one, and it is Min.
LEMMA MinIsIn ==
  ASSUME NEW T, T \subseteq Nat, T # {}
  PROVE  Min(T) \in T
<1>1. IsWellFoundedOn(OpToRel(<, Nat), Nat)
  BY NatLessThanWellFounded
<1>2. PICK k \in T : \A j \in T : ~(<<j, k>> \in OpToRel(<, Nat))
  BY <1>1, WFMin
<1>3. \A j \in T : ~(j < k)
  BY <1>2 DEF OpToRel
<1>4. \E x \in T : \A y \in T : x =< y
  BY <1>3
<1> QED  BY <1>4 DEF Min

-----------------------------------------------------------------------------
(* Types.                                                                  *)

PCs == {"user", "wait", "ret", "Sleeping", "WaitChild", "IoWait", "FutexWait", "SigWait", "dead"}
Repeats == {NoCall, "wait4", "read", "poll"}
Frame == [mask : SUBSET Sigs, again : Repeats]
Rec ==
    [pc : PCs, again : Repeats, timed : BOOLEAN, on : Words, val : 0 .. 1,
     in_poll : BOOLEAN, io_deadline : {"zero", "timed", "never"}, moved : BOOLEAN,
     pending : SUBSET Sigs, mask : SUBSET Sigs, saved : SUBSET Sigs, suspended : BOOLEAN,
     frames : Seq(Frame), want : SUBSET Sigs]

Types ==
    /\ th \in [Threads -> Rec]
    /\ act \in [Sigs -> [handler : {"dfl", "ign", "fn"}, mask : SUBSET Sigs,
                         restart : BOOLEAN, nodefer : BOOLEAN, reset : BOOLEAN]]
    /\ word \in [Words -> 0 .. 1]
    /\ owes \subseteq Threads
    /\ snd = NoSend \/ snd.sig \in Sigs
    /\ calls \in Programs

\* A thread has a poll to make again, marked and with its deadline, or nothing of
\* one; handlers return into anything else.
PollOk(r) ==
    /\ r.in_poll \/ r.io_deadline # "zero" => r.again = "poll"
    /\ r.again = "poll" /\ r.pc # "wait" => r.in_poll
    /\ r.pc = "WaitChild" => r.again = NoCall
    /\ \A k \in 1 .. Len(r.frames) : r.frames[k].again # "poll"

\* Nobody dies, comes back, or begins to wait for a futex.
Quiet(r, n) ==
    /\ n.pc = "FutexWait" => r.pc = "FutexWait" /\ n.on = r.on /\ n.val = r.val
    /\ (n.pc = "dead") <=> (r.pc = "dead")

\* The timeout of a poll stays readable while it is made again and again.
NoFault == \A c \in Programs : "fault" \notin c

\* What almost every action does to a thread.
Step(r, n) == n \in Rec /\ (NoFault /\ PollOk(r) => PollOk(n)) /\ Quiet(r, n)
Moves == th' \in [Threads -> Rec] /\ \A u \in Threads : Step(th[u], th'[u])

\* A thread that nothing happens to.
LEMMA StepRefl == \A r \in Rec : Step(r, r)
BY DEF Step, Quiet

\* A wait that ends keeps what is to be made again.
LEMMA AwakeIs ==
  ASSUME NEW r \in Rec
  PROVE  /\ Awake(r) \in Rec /\ Awake(r).pc = "ret"
         /\ Awake(r).again = r.again /\ Awake(r).in_poll = r.in_poll
         /\ Awake(r).io_deadline = r.io_deadline /\ Awake(r).frames = r.frames
<1>1. Lock \in Words /\ "ret" \in PCs /\ 0 \in 0 .. 1
  BY DEF Words, PCs
<1>2. Awake(r) = [r EXCEPT !.pc = "ret", !.on = Lock, !.val = 0, !.timed = FALSE, !.moved = FALSE]
  BY DEF Awake
<1>3. Awake(r) \in Rec
  BY <1>1, <1>2 DEF Rec
<1> QED  BY <1>2, <1>3 DEF Rec

\* The same as a step of a thread that sleeps.
LEMMA AwakeStep ==
  ASSUME NEW r \in Rec, r.pc \notin {"dead", "wait"}
  PROVE  Step(r, Awake(r))
BY AwakeIs DEF Step, Quiet, PollOk

\* A thread that has something pending more, or less, or is somewhere else.
LEMMA SetPending ==
  ASSUME NEW r \in Rec, NEW P \in SUBSET Sigs
  PROVE  /\ Step(r, [r EXCEPT !.pending = P])
         /\ [r EXCEPT !.pending = P].pc = r.pc /\ [r EXCEPT !.pending = P].again = r.again
<1> DEFINE n == [r EXCEPT !.pending = P]
<1>1. n \in Rec
  BY DEF Rec
<1>2. /\ n.pc = r.pc /\ n.again = r.again /\ n.in_poll = r.in_poll /\ n.on = r.on /\ n.val = r.val
      /\ n.io_deadline = r.io_deadline /\ n.frames = r.frames
  BY DEF Rec
<1> HIDE DEF n
<1>3. Step(r, n)
  BY <1>1, <1>2 DEF Step, Quiet, PollOk
<1> QED  BY <1>2, <1>3 DEF n

\* A thread whose call is over, or begins, is somewhere else.
LEMMA SetPc ==
  ASSUME NEW r \in Rec, NEW pc \in {"user", "ret", "Sleeping"}, r.pc \in {"user", "ret", "WaitChild"}
  PROVE  Step(r, [r EXCEPT !.pc = pc])
<1> DEFINE n == [r EXCEPT !.pc = pc]
<1>1. pc \in PCs
  BY DEF PCs
<1>2. n \in Rec
  BY <1>1 DEF Rec
<1>3. /\ n.pc = pc /\ n.again = r.again /\ n.in_poll = r.in_poll
      /\ n.io_deadline = r.io_deadline /\ n.frames = r.frames
  BY DEF Rec
<1> HIDE DEF n
<1>4. Step(r, n)
  BY <1>2, <1>3 DEF Step, Quiet, PollOk
<1> QED  BY <1>4 DEF n

\* Two steps of a thread are one.
LEMMA StepTrans ==
  ASSUME NEW r, NEW m, NEW n, Step(r, m), Step(m, n)
  PROVE  Step(r, n)
BY DEF Step, Quiet

\* The wait for a file that ends with EINTR.
LEMMA InterruptedStep ==
  ASSUME NEW r \in Rec, r.pc = "IoWait"
  PROVE  Step(r, Interrupted(r))
<1> DEFINE a == Awake(r)
           n == [a EXCEPT !.again = NoCall, !.in_poll = FALSE, !.io_deadline = "zero"]
<1>1. /\ a \in Rec /\ a.pc = "ret" /\ a.frames = r.frames
  BY AwakeIs
<1>2. NoCall \in Repeats /\ FALSE \in BOOLEAN /\ "zero" \in {"zero", "timed", "never"}
  BY DEF Repeats
<1> HIDE DEF a
<1>3. n \in Rec
  BY <1>1, <1>2 DEF Rec
<1>4. n.pc = "ret" /\ n.again = NoCall /\ n.in_poll = FALSE /\ n.io_deadline = "zero" /\ n.frames = r.frames
  BY <1>1 DEF Rec
<1> HIDE DEF n
<1>5. Step(r, n)
  BY <1>3, <1>4 DEF Step, Quiet, PollOk, NoCall
<1> QED  BY <1>5 DEF n, a, Interrupted

\* A wait for a child that is made again.
LEMMA Wait4Step ==
  ASSUME NEW r \in Rec, r.pc = "WaitChild"
  PROVE  Step(r, [Awake(r) EXCEPT !.again = "wait4"])
<1> DEFINE a == Awake(r)
           n == [a EXCEPT !.again = "wait4"]
<1>1. /\ a \in Rec /\ a.pc = "ret" /\ a.frames = r.frames
      /\ a.in_poll = r.in_poll /\ a.io_deadline = r.io_deadline
  BY AwakeIs
<1>2. "wait4" \in Repeats
  BY DEF Repeats
<1> HIDE DEF a
<1>3. n \in Rec
  BY <1>1, <1>2 DEF Rec
<1>4. n.pc = "ret" /\ n.again = "wait4" /\ n.in_poll = r.in_poll /\ n.io_deadline = r.io_deadline /\ n.frames = r.frames
  BY <1>1 DEF Rec
<1> HIDE DEF n
<1>5. Step(r, n)
  BY <1>3, <1>4 DEF Step, Quiet, PollOk, NoCall
<1> QED  BY <1>5 DEF n, a

\* What a signal does to a thread that lives.
LEMMA PostedStep ==
  ASSUME NEW r \in Rec, NEW s \in Sigs, r.pc # "dead"
  PROVE  Step(r, Posted(r, s))
<1> DEFINE p == [r EXCEPT !.pending = @ \cup {s}]
<1>1. r.pending \in SUBSET Sigs /\ r.pending \cup {s} \in SUBSET Sigs
  BY DEF Rec
<1>2. Step(r, p) /\ p.pc = r.pc /\ p.again = r.again
  BY <1>1, SetPending
<1>3. p \in Rec
  BY <1>2 DEF Step
<1> HIDE DEF p
<1>4. p.pc \notin {"dead", "wait"} => Step(p, Awake(p))
  BY <1>3, AwakeStep
<1>5. p.pc = "IoWait" => Step(p, Interrupted(p))
  BY <1>3, InterruptedStep
<1>6. p.pc = "WaitChild" => Step(p, [Awake(p) EXCEPT !.again = "wait4"])
  BY <1>3, Wait4Step
<1>7. Step(p, p)
  BY <1>3, StepRefl
<1>8. \/ Posted(r, s) = p
      \/ Posted(r, s) = Awake(p) /\ p.pc \notin {"dead", "wait"}
      \/ Posted(r, s) = Interrupted(p) /\ p.pc = "IoWait"
      \/ Posted(r, s) = [Awake(p) EXCEPT !.again = "wait4"] /\ p.pc = "WaitChild"
  BY <1>2 DEF Posted, p
<1>9. Step(p, Posted(r, s))
  BY <1>4, <1>5, <1>6, <1>7, <1>8
<1> QED  BY <1>2, <1>9, StepTrans

\* A call that decided to wait goes to sleep, or returns to be made again.
LEMMA RewoundStep ==
  ASSUME NEW r \in Rec, NEW sleeps \in BOOLEAN, r.pc = "wait"
  PROVE  Step(r, Rewound(r, sleeps))
<1> DEFINE p == [r EXCEPT !.in_poll = @ \/ r.again = "poll"]
           n == [p EXCEPT !.pc = "IoWait"]
<1>1. PICK b \in BOOLEAN : b = (r.in_poll \/ r.again = "poll")
  OBVIOUS
<1>2. /\ p \in Rec /\ p.pc = "wait" /\ p.again = r.again /\ p.io_deadline = r.io_deadline /\ p.frames = r.frames
      /\ p.in_poll = b
  <2>1. p = [r EXCEPT !.in_poll = b]
    BY <1>1
  <2> HIDE DEF p
  <2> QED  BY <2>1 DEF Rec
<1>0. "IoWait" \in PCs
  BY DEF PCs
<1> HIDE DEF p
<1>3. /\ n \in Rec /\ n.pc = "IoWait" /\ n.again = p.again /\ n.io_deadline = p.io_deadline
      /\ n.in_poll = p.in_poll /\ n.frames = p.frames
  BY <1>0, <1>2 DEF Rec
<1> HIDE DEF n
<1>4. Step(r, n)
  BY <1>1, <1>2, <1>3 DEF Step, Quiet, PollOk
<1>5. Step(r, Awake(p))
  <2> DEFINE a == Awake(p)
  <2>1. /\ a \in Rec /\ a.pc = "ret" /\ a.again = r.again /\ a.in_poll = b
        /\ a.io_deadline = r.io_deadline /\ a.frames = r.frames
    BY <1>2, AwakeIs
  <2> HIDE DEF a
  <2>2. Step(r, a)
    BY <1>1, <2>1 DEF Step, Quiet, PollOk
  <2> QED  BY <2>2 DEF a
<1> QED  BY <1>4, <1>5 DEF Rewound, p, n

\* A handler starts.
LEMMA HandledStep ==
  ASSUME Types, NEW r \in Rec, NEW s \in Sigs, r.pc = "ret"
  PROVE  Step(r, Handled(r, s))
<1> DEFINE m == old_mask(r) \cup act[s].mask \cup (IF act[s].nodefer THEN {} ELSE {s})
           pend == r.pending \ {s}
           due == IF r.in_poll THEN "zero" ELSE r.io_deadline
           f == [mask |-> old_mask(r), again |-> IF r.in_poll THEN NoCall ELSE r.again]
           fs == Append(r.frames, f)
           n == [r EXCEPT !.pc = "user", !.pending = pend, !.suspended = FALSE, !.mask = m,
                          !.again = NoCall, !.in_poll = FALSE, !.io_deadline = due, !.frames = fs]
<1>1. old_mask(r) \in SUBSET Sigs
  BY DEF old_mask, Rec
<1>2. act[s].mask \in SUBSET Sigs
  BY DEF Types
<1>3. m \in SUBSET Sigs /\ pend \in SUBSET Sigs
  BY <1>1, <1>2 DEF Rec
<1>4. due \in {"zero", "timed", "never"} /\ NoCall \in Repeats /\ FALSE \in BOOLEAN /\ "user" \in PCs
  BY DEF Rec, Repeats, PCs
<1>5. f \in Frame
  BY <1>1, <1>4 DEF Frame, Rec
<1>6. fs \in Seq(Frame) /\ Len(fs) = Len(r.frames) + 1 /\ Len(r.frames) \in Nat
      /\ \A k \in 1 .. Len(fs) : fs[k] = IF k \in 1 .. Len(r.frames) THEN r.frames[k] ELSE f
  <2>1. r.frames \in Seq(Frame)
    BY DEF Rec
  <2> HIDE DEF f
  <2> QED  BY <1>5, <2>1
<1>7. n = Handled(r, s)
  BY DEF Handled
<1> HIDE DEF m, pend, fs
<1>8. n \in Rec
  BY <1>3, <1>4, <1>6 DEF Rec
<1>9. n.pc = "user" /\ n.again = NoCall /\ n.in_poll = FALSE /\ n.io_deadline = due /\ n.frames = fs
  BY DEF Rec
<1> HIDE DEF n
<1>10. PollOk(r) => PollOk(n)
  <2> SUFFICES ASSUME PollOk(r) PROVE PollOk(n)
    OBVIOUS
  <2>1. due = "zero" /\ f.again # "poll"
    BY DEF PollOk, NoCall
  <2>2. \A k \in 1 .. Len(n.frames) : n.frames[k].again # "poll"
    BY <1>6, <1>9, <2>1 DEF PollOk
  <2> QED  BY <1>9, <2>1, <2>2 DEF PollOk, NoCall
<1>11. Quiet(r, n)
  BY <1>9 DEF Quiet
<1> QED  BY <1>7, <1>8, <1>10, <1>11 DEF Step

-----------------------------------------------------------------------------
(* Actions.                                                                *)

\* One thread changes.
LEMMA OneMoves ==
  ASSUME Types, NEW t \in Threads, NEW n, Step(th[t], n), th' = [th EXCEPT ![t] = n]
  PROVE  Moves
<1>1. th \in [Threads -> Rec] /\ n \in Rec
  BY DEF Types, Step
<1>2. \A u \in Threads : Step(th[u], th[u])
  BY <1>1, StepRefl
<1> QED  BY <1>1, <1>2 DEF Moves

\* No thread changes.
LEMMA NoneMoves ==
  ASSUME Types, UNCHANGED th
  PROVE  Moves
BY StepRefl DEF Types, Moves

\* The threads R are woken.
LEMMA WokenMoves ==
  ASSUME Types, NEW R \in SUBSET Threads, \A u \in R : th[u].pc \notin {"dead", "wait"}
  PROVE  Woken(R) \in [Threads -> Rec] /\ \A u \in Threads : Step(th[u], Woken(R)[u])
<1>1. \A u \in Threads : th[u] \in Rec
  BY DEF Types
<1>2. \A u \in R : Step(th[u], Awake(th[u]))
  BY <1>1, AwakeStep
<1>3. \A u \in Threads : Step(th[u], th[u])
  BY <1>1, StepRefl
<1>4. \A u \in Threads : Step(th[u], IF u \in R THEN Awake(th[u]) ELSE th[u])
  BY <1>2, <1>3
<1> QED  BY <1>4 DEF Woken, Step

\* One thread is somewhere else, and its fields are the same.
LEMMA GoesMoves ==
  ASSUME Types, NEW t \in Threads, NEW pc \in {"user", "ret", "Sleeping"},
         th[t].pc \in {"user", "ret", "WaitChild"}, Goes(t, pc)
  PROVE  Moves
<1>1. th[t] \in Rec /\ th' = [th EXCEPT ![t] = [th[t] EXCEPT !.pc = pc]]
  BY DEF Types, Goes
<1>2. Step(th[t], [th[t] EXCEPT !.pc = pc])
  BY <1>1, SetPc
<1> QED  BY <1>1, <1>2, OneMoves

\* Variables that keep their values keep their types.
LEMMA OtherTypes ==
  ASSUME Types, Moves, Other' = Other
  PROVE  Types'
BY DEF Types, Moves, Other

\* post_signal_locked changes a thread that lives, or none.
LEMMA LockedMoves ==
  ASSUME Types, NEW to, NEW s \in Sigs, NEW thread, post_signal_locked(to, s, thread)
  PROVE  Moves
<1>1. CASE to \in Alive /\ would_act(s)
  <2>1. PICK d \in Dest(to, s, thread) : th' = [th EXCEPT ![d] = Posted(@, s)]
    BY <1>1 DEF post_signal_locked
  <2>2. d \in Alive
    BY <1>1 DEF Dest, Alive
  <2>3. d \in Threads /\ th[d].pc # "dead" /\ th[d] \in Rec
    BY <2>2 DEF Alive, Types
  <2>4. Step(th[d], Posted(th[d], s)) /\ th' = [th EXCEPT ![d] = Posted(th[d], s)]
    BY <2>1, <2>3, PostedStep
  <2> QED  BY <2>3, <2>4, OneMoves
<1>2. CASE ~(to \in Alive /\ would_act(s))
  BY <1>2, NoneMoves DEF post_signal_locked
<1> QED  BY <1>1, <1>2

\* The signal of look is a signal, whatever happens before send.
LEMMA PostMoves ==
  ASSUME Types, NEW s \in Sigs, post(s)
  PROVE  Moves /\ Types'
BY LockedMoves, OtherTypes DEF post

\* A kill of another process looks at its target and changes no thread.
LEMMA LookMoves ==
  ASSUME Types, NEW to, NEW s \in Sigs, NEW thread, look(to, s, thread)
  PROVE  Moves /\ Types'
<1>1. Moves
  BY NoneMoves DEF look
<1>2. snd'.sig = s
  BY DEF look
<1> QED  BY <1>1, <1>2 DEF look, Types, Moves

\* It kills the process, or posts.
LEMMA SendMoves ==
  ASSUME Types, send
  PROVE  Moves /\ Types'
<1>1. snd.sig \in Sigs
  BY DEF send, Types
<1>2. Moves
  BY <1>1, LockedMoves, NoneMoves DEF send
<1> QED  BY <1>2 DEF send, Types, Moves

\* The default is an action.
LEMMA DflIsAction == DFL \in [handler : {"dfl", "ign", "fn"}, mask : SUBSET Sigs,
                              restart : BOOLEAN, nodefer : BOOLEAN, reset : BOOLEAN]
BY DEF DFL

\* The end of a trap starts a handler, discards a signal, or ends the process.
LEMMA DeliverMoves ==
  ASSUME Types, NEW t \in Threads, deliver(t)
  PROVE  Moves /\ Types'
<1> DEFINE r == th[t]
           D == Deliverable(r)
<1>1. r \in Rec /\ r.pc = "ret" /\ r.pending \in SUBSET Sigs /\ UNCHANGED <<word, owes, snd, calls>>
  BY DEF deliver, Types, Rec
<1>2. CASE D = {}
  <2>1. Goes(t, "user") /\ UNCHANGED act
    BY <1>2 DEF deliver
  <2>2. Moves
    BY <1>1, <2>1, GoesMoves
  <2> QED  BY <1>1, <2>1, <2>2 DEF Types, Moves
<1>3. CASE D # {}
  <2> DEFINE s == Min(D)
  <2>1. s \in D /\ s \in Sigs
    <3>1. D \subseteq Nat /\ D \subseteq Sigs
      BY <1>1, SignalAssumption DEF Deliverable, SignalAssumption
    <3> QED  BY <1>3, <3>1, MinIsIn
  <2> HIDE DEF s
  <2>2. \/ th' = [th EXCEPT ![t] = Handled(th[t], s)]
        \/ UNCHANGED th
        \/ th' = [th EXCEPT ![t] = [th[t] EXCEPT !.pending = th[t].pending \ {s}]]
    BY <1>1, <1>3 DEF deliver, s
  <2>3. act' = act \/ act' = [act EXCEPT ![s] = DFL]
    BY <1>3 DEF deliver, s
  <2>4. Step(r, Handled(r, s))
    BY <1>1, <2>1, HandledStep
  <2>5. Step(r, [r EXCEPT !.pending = r.pending \ {s}])
    BY <1>1, SetPending
  <2>6. Moves
    BY <2>2, <2>4, <2>5, OneMoves, NoneMoves
  <2> QED  BY <1>1, <2>1, <2>3, <2>6, DflIsAction DEF Types, Moves
<1> QED  BY <1>2, <1>3

\* A handler returns to what it interrupted, which is no poll.
LEMMA SigreturnMoves ==
  ASSUME Types, NEW t \in Threads, sigreturn(t)
  PROVE  Moves /\ Types'
<1> DEFINE r == th[t]
           f == r.frames[Len(r.frames)]
           fs == SubSeq(r.frames, 1, Len(r.frames) - 1)
           n == [r EXCEPT !.pc = "ret", !.mask = f.mask, !.suspended = FALSE, !.again = f.again, !.frames = fs]
<1>0. th' = [th EXCEPT ![t] = n]
  BY DEF sigreturn, Restored
<1>1. r \in Rec /\ r.pc = "user" /\ r.again = NoCall /\ r.frames # <<>>
  BY DEF sigreturn, Types
<1>2. r.frames \in Seq(Frame) /\ Len(r.frames) \in Nat \ {0}
  BY <1>1 DEF Rec
<1>3. f \in Frame
  BY <1>2
<1>4. fs \in Seq(Frame) /\ Len(fs) = Len(r.frames) - 1 /\ \A k \in 1 .. Len(fs) : fs[k] = r.frames[k]
  BY <1>2, SubSeqProperties
<1>5. f.mask \in SUBSET Sigs /\ f.again \in Repeats /\ "ret" \in PCs /\ FALSE \in BOOLEAN
  BY <1>3 DEF Frame, PCs
<1>6. PollOk(r) => f.again # "poll"
  BY <1>2 DEF PollOk
<1> HIDE DEF f, fs
<1>7. n \in Rec
  BY <1>1, <1>4, <1>5 DEF Rec
<1>8. n.pc = "ret" /\ n.again = f.again /\ n.in_poll = r.in_poll /\ n.io_deadline = r.io_deadline /\ n.frames = fs
  BY <1>1 DEF Rec
<1> HIDE DEF n
<1>9. PollOk(r) => PollOk(n)
  <2> SUFFICES ASSUME PollOk(r) PROVE PollOk(n)
    OBVIOUS
  <2>1. \A k \in 1 .. Len(n.frames) : n.frames[k].again # "poll"
    BY <1>2, <1>4, <1>8 DEF PollOk
  <2> QED  BY <1>1, <1>6, <1>8, <2>1 DEF PollOk, NoCall
<1>10. Step(r, n)
  BY <1>1, <1>7, <1>8, <1>9 DEF Step, Quiet
<1>11. Moves
  BY <1>0, <1>10, OneMoves DEF n
<1> QED  BY <1>11, OtherTypes DEF sigreturn

\* rt_sigaction discards a pending signal that is ignored now.
LEMMA SigactionMoves ==
  ASSUME Types, NEW t \in Threads, NEW s \in Sigs, NEW a \in Actions, sys_sigaction(t, s, a)
  PROVE  Moves /\ Types'
<1> DEFINE r == th[t]
           P == IF a.handler = "ign" THEN r.pending \ {s} ELSE r.pending
           p == [r EXCEPT !.pending = P]
           n == [p EXCEPT !.pc = "ret"]
<1>1. r \in Rec /\ r.pc = "user"
  BY DEF sys_sigaction, Calls, Types
<1>2. P \in SUBSET Sigs
  BY <1>1 DEF Rec
<1>3. Step(r, p) /\ p.pc = "user" /\ p \in Rec
  BY <1>1, <1>2, SetPending DEF Step
<1>4. th' = [th EXCEPT ![t] = n]
  <2>1. th' = [th EXCEPT ![t] = [r EXCEPT !.pc = "ret", !.pending = P]]
    BY DEF sys_sigaction, Types
  <2>2. [r EXCEPT !.pc = "ret", !.pending = P] = n
    BY <1>1 DEF Rec
  <2> QED  BY <2>1, <2>2
<1> HIDE DEF p
<1>5. Step(p, n)
  BY <1>3, SetPc
<1>6. Moves
  BY <1>3, <1>4, <1>5, StepTrans, OneMoves
<1>7. a \in [handler : {"dfl", "ign", "fn"}, mask : SUBSET Sigs,
             restart : BOOLEAN, nodefer : BOOLEAN, reset : BOOLEAN]
  BY SignalAssumption DEF SignalAssumption
<1>8. act' = [act EXCEPT ![s] = a] /\ UNCHANGED <<word, owes, snd, calls>>
  BY DEF sys_sigaction
<1> QED  BY <1>6, <1>7, <1>8 DEF Types, Moves

\* rt_sigprocmask changes the mask of its caller.
LEMMA SigprocmaskMoves ==
  ASSUME Types, NEW t \in Threads, NEW m \in Masks, sys_sigprocmask(t, m)
  PROVE  Moves /\ Types'
<1> DEFINE r == th[t]
           n == [r EXCEPT !.pc = "ret", !.mask = m, !.want = m]
<1>1. r \in Rec /\ r.pc = "user"
  BY DEF sys_sigprocmask, Calls, Types
<1>2. m \in SUBSET Sigs /\ "ret" \in PCs
  BY SignalAssumption DEF SignalAssumption, PCs
<1>3. th' = [th EXCEPT ![t] = n]
  BY DEF sys_sigprocmask, Types
<1>4. n \in Rec /\ n.pc = "ret" /\ n.again = r.again /\ n.in_poll = r.in_poll
      /\ n.io_deadline = r.io_deadline /\ n.frames = r.frames
  BY <1>1, <1>2 DEF Rec
<1> HIDE DEF n
<1>5. Step(r, n)
  BY <1>1, <1>4 DEF Step, Quiet, PollOk
<1>6. Moves
  BY <1>3, <1>5, OneMoves
<1> QED  BY <1>6, OtherTypes DEF sys_sigprocmask

\* rt_sigsuspend sleeps, or returns for a signal that is pending.
LEMMA SuspendMoves ==
  ASSUME Types, NEW t \in Threads, NEW m \in SuspendMasks, sig_suspend(t, m)
  PROVE  Moves /\ Types'
<1> DEFINE r == th[t]
           pc == IF r.pending \subseteq m THEN "SigWait" ELSE "ret"
           n == [r EXCEPT !.saved = r.mask, !.suspended = TRUE, !.mask = m, !.pc = pc]
<1>1. r \in Rec /\ r.pc = "user"
  BY DEF sig_suspend, Calls, Types
<1>2. m \in SUBSET Sigs /\ r.mask \in SUBSET Sigs /\ pc \in PCs /\ pc \in {"SigWait", "ret"}
  BY <1>1, SignalAssumption DEF SignalAssumption, PCs, Rec
<1>3. th' = [th EXCEPT ![t] = n]
  BY DEF sig_suspend
<1> HIDE DEF pc
<1>4. n \in Rec /\ n.pc = pc /\ n.again = r.again /\ n.in_poll = r.in_poll
      /\ n.io_deadline = r.io_deadline /\ n.frames = r.frames
  BY <1>1, <1>2 DEF Rec
<1> HIDE DEF n
<1>5. Step(r, n)
  BY <1>1, <1>2, <1>4 DEF Step, Quiet, PollOk
<1>6. Moves
  BY <1>3, <1>5, OneMoves
<1> QED  BY <1>6, OtherTypes DEF sig_suspend

\* Interrupts, sleeps and the end of a child are changes of pc.
LEMMA InterruptMoves ==
  ASSUME Types, NEW t \in Threads, interrupt(t) \/ sleep_ticks(t) \/ child_exits(t)
  PROVE  Moves /\ Types'
<1>1. \/ th[t].pc = "user" /\ Goes(t, "ret")
      \/ th[t].pc = "user" /\ Goes(t, "Sleeping")
      \/ th[t].pc = "WaitChild" /\ Goes(t, "ret")
  BY DEF interrupt, sleep_ticks, child_exits, Calls
<1>2. Moves
  BY <1>1, GoesMoves
<1> QED  BY <1>2, OtherTypes DEF interrupt, sleep_ticks, child_exits

\* wait4 has nothing to make again while it sleeps.
LEMMA WaitChildMoves ==
  ASSUME Types, NEW t \in Threads, wait_child(t)
  PROVE  Moves /\ Types'
<1> DEFINE r == th[t]
           n == [r EXCEPT !.pc = "WaitChild", !.again = NoCall]
<1>1. r \in Rec /\ r.pc = "user" /\ r.again \in {NoCall, "wait4"} /\ th' = [th EXCEPT ![t] = n]
  BY DEF wait_child, Calls, Types
<1>2. NoCall \in Repeats /\ "WaitChild" \in PCs
  BY DEF Repeats, PCs
<1>3. n \in Rec /\ n.pc = "WaitChild" /\ n.again = NoCall /\ n.in_poll = r.in_poll
      /\ n.io_deadline = r.io_deadline /\ n.frames = r.frames
  BY <1>1, <1>2 DEF Rec
<1> HIDE DEF n
<1>4. Step(r, n)
  BY <1>1, <1>3 DEF Step, Quiet, PollOk, NoCall
<1>5. Moves
  BY <1>1, <1>4, OneMoves DEF n
<1> QED  BY <1>5, OtherTypes DEF wait_child

\* read returns, or is to be made again once it has slept.
LEMMA ReadMoves ==
  ASSUME Types, NEW t \in Threads, read(t)
  PROVE  Moves /\ Types'
<1> DEFINE r == th[t]
           pc == IF ready THEN "ret" ELSE "wait"
           ag == IF ready THEN NoCall ELSE "read"
           n == [r EXCEPT !.pc = pc, !.again = ag]
<1>1. r \in Rec /\ r.pc = "user" /\ r.again \in {NoCall, "read"}
  BY DEF read, Calls, Types
<1>2. th' = [th EXCEPT ![t] = n] /\ UNCHANGED <<act, word, owes, snd, calls>>
  BY DEF read
<1>3. ag \in Repeats /\ pc \in PCs /\ pc \in {"ret", "wait"} /\ ag # "poll"
  BY DEF Repeats, PCs, NoCall
<1> HIDE DEF ag, pc
<1>4. n \in Rec /\ n.pc = pc /\ n.again = ag /\ n.in_poll = r.in_poll
      /\ n.io_deadline = r.io_deadline /\ n.frames = r.frames
  BY <1>1, <1>3 DEF Rec
<1> HIDE DEF n
<1>5. Step(r, n)
  BY <1>1, <1>3, <1>4 DEF Step, Quiet, PollOk, NoCall
<1>6. Moves
  BY <1>2, <1>5, OneMoves
<1> QED  BY <1>2, <1>6 DEF Types, Moves

\* poll returns and forgets its deadline, or keeps it.
LEMMA PollMoves ==
  ASSUME Types, NEW t \in Threads, NEW timed \in BOOLEAN, wait_ready(t, timed)
  PROVE  Moves /\ Types'
<1> DEFINE r == th[t]
           due == IF r.io_deadline # "zero" THEN r.io_deadline ELSE IF timed THEN "timed" ELSE "never"
           over == [r EXCEPT !.pc = "ret", !.again = NoCall, !.in_poll = FALSE, !.io_deadline = "zero"]
           wait == [r EXCEPT !.pc = "wait", !.again = "poll", !.io_deadline = due]
<1>1. r \in Rec /\ r.pc = "user" /\ r.again \in {NoCall, "poll"}
  BY DEF wait_ready, Calls, Types
<1>2. th' = [th EXCEPT ![t] = over] \/ th' = [th EXCEPT ![t] = wait]
  BY DEF wait_ready
<1>3. due \in {"zero", "timed", "never"} /\ "zero" \in {"zero", "timed", "never"}
  BY <1>1 DEF Rec
<1>4. {NoCall, "poll"} \subseteq Repeats /\ {"ret", "wait"} \subseteq PCs /\ FALSE \in BOOLEAN
  BY DEF Repeats, PCs
<1> HIDE DEF due
<1>5. over \in Rec /\ over.pc = "ret" /\ over.again = NoCall /\ over.in_poll = FALSE
      /\ over.io_deadline = "zero" /\ over.frames = r.frames
  BY <1>1, <1>3, <1>4 DEF Rec
<1>6. wait \in Rec /\ wait.pc = "wait" /\ wait.again = "poll" /\ wait.frames = r.frames
  BY <1>1, <1>3, <1>4 DEF Rec
<1> HIDE DEF over, wait
<1>7. Step(r, over) /\ Step(r, wait)
  BY <1>1, <1>5, <1>6 DEF Step, Quiet, PollOk, NoCall
<1>8. Moves
  BY <1>2, <1>7, OneMoves
<1> QED  BY <1>8, OtherTypes DEF wait_ready

\* A poll that fails at once had nothing to make again.
LEMMA PollFaultMoves ==
  ASSUME Types, NEW t \in Threads, wait_ready_fault(t)
  PROVE  Moves /\ Types'
<1> DEFINE r == th[t]
           n == [r EXCEPT !.pc = "ret", !.again = NoCall]
<1>1. r \in Rec /\ r.pc = "user" /\ th' = [th EXCEPT ![t] = n]
  BY DEF wait_ready_fault, Calls, Types
<1>2. NoFault => r.again = NoCall
  BY DEF wait_ready_fault, Types, NoFault, May
<1>3. NoCall \in Repeats /\ "ret" \in PCs
  BY DEF Repeats, PCs
<1>4. n \in Rec /\ n.pc = "ret" /\ n.again = NoCall /\ n.in_poll = r.in_poll
      /\ n.io_deadline = r.io_deadline /\ n.frames = r.frames
  BY <1>1, <1>3 DEF Rec
<1> HIDE DEF n
<1>5. Step(r, n)
  BY <1>1, <1>2, <1>4 DEF Step, Quiet, PollOk, NoCall
<1>6. Moves
  BY <1>1, <1>5, OneMoves DEF n
<1> QED  BY <1>6, OtherTypes DEF wait_ready_fault

\* A call that decided to wait marks its thread if it is a poll.
LEMMA IoWaitMoves ==
  ASSUME Types, NEW t \in Threads, io_wait(t)
  PROVE  Moves /\ Types'
<1> DEFINE sleeps == ~th[t].moved /\ Deliverable(th[t]) = {}
<1>1. th[t] \in Rec /\ th[t].pc = "wait" /\ th' = [th EXCEPT ![t] = Rewound(th[t], sleeps)]
  BY DEF io_wait, Types
<1>2. sleeps \in BOOLEAN
  OBVIOUS
<1> HIDE DEF sleeps
<1>3. Step(th[t], Rewound(th[t], sleeps))
  BY <1>1, <1>2, RewoundStep
<1>4. Moves
  BY <1>1, <1>3, OneMoves
<1> QED  BY <1>4, OtherTypes DEF io_wait

\* Data wake who sleeps and stop who is about to.
LEMMA IoWakeMoves ==
  ASSUME Types, io_wake
  PROVE  Moves /\ Types'
<1>1. ASSUME NEW u \in Threads
      PROVE  Step(th[u], th'[u])
  <2> DEFINE r == th[u]
             n == [r EXCEPT !.moved = TRUE]
  <2>1. r \in Rec
    BY DEF Types
  <2>2. \/ th'[u] = Awake(r) /\ r.pc = "IoWait"
        \/ th'[u] = n
        \/ th'[u] = r
    BY DEF io_wake
  <2>3. n \in Rec /\ n.pc = r.pc /\ n.again = r.again /\ n.in_poll = r.in_poll
        /\ n.on = r.on /\ n.val = r.val /\ n.io_deadline = r.io_deadline /\ n.frames = r.frames
    BY <2>1 DEF Rec
  <2> HIDE DEF n
  <2>4. Step(r, n)
    BY <2>3 DEF Step, Quiet, PollOk
  <2> QED  BY <2>1, <2>2, <2>4, AwakeStep, StepRefl
<1>2. \A u \in Threads : th'[u] \in Rec
  BY <1>1 DEF Step
<1>3. th' = [u \in Threads |-> th'[u]]
  BY DEF io_wake
<1>4. th' \in [Threads -> Rec]
  BY <1>2, <1>3
<1>5. Moves
  BY <1>1, <1>4 DEF Moves
<1> QED  BY <1>5 DEF io_wake, Types, Moves

\* A deadline passes.
LEMMA SleeperMoves ==
  ASSUME Types, NEW t \in Threads, wake_sleepers(t)
  PROVE  Moves /\ Types'
<1>1. th[t] \in Rec /\ th[t].pc \notin {"dead", "wait"} /\ th' = [th EXCEPT ![t] = Awake(th[t])]
  BY DEF wake_sleepers, Types
<1>2. Moves
  BY <1>1, AwakeStep, OneMoves
<1> QED  BY <1>2, OtherTypes DEF wake_sleepers

\* A program writes to a futex word.
LEMMA StoreMoves ==
  ASSUME Types, NEW t \in Threads, store(t)
  PROVE  Moves /\ Types'
<1>1. Moves
  BY NoneMoves DEF store
<1>2. word' = [word EXCEPT ![Lock] = 1 - word[Lock]] /\ owes' = owes \cup {t} /\ UNCHANGED <<act, snd, calls>>
  BY DEF store
<1>3. word' \in [Words -> 0 .. 1]
  <2>1. Lock \in Words
    BY DEF Words
  <2>2. 1 - word[Lock] \in 0 .. 1
    BY <2>1 DEF Types
  <2> QED  BY <1>2, <2>1, <2>2 DEF Types
<1> QED  BY <1>1, <1>2, <1>3 DEF Types, Moves

\* Waiters can be woken.
LEMMA WaitersAre ==
  ASSUME NEW w
  PROVE  Waiters(w) \in SUBSET Threads /\ \A u \in Waiters(w) : th[u].pc = "FutexWait" /\ th[u].on = w
BY DEF Waiters

\* FUTEX_WAKE leaves nobody asleep on the word.
LEMMA WakeMoves ==
  ASSUME Types, NEW t \in Threads, futex_wake(t)
  PROVE  /\ Moves /\ Types'
         /\ \A u \in Threads : th'[u].pc = "FutexWait" => th'[u].on # Lock
<1> DEFINE R == Waiters(Lock)
           W == Woken(R)
           r == W[t]
           n == [r EXCEPT !.pc = "ret"]
<1>1. /\ W \in [Threads -> Rec] /\ \A u \in Threads : Step(th[u], W[u])
  BY WaitersAre, WokenMoves
<1>2. th' = [W EXCEPT ![t] = n] /\ UNCHANGED <<act, word, snd, calls>> /\ owes' \subseteq owes
  BY DEF futex_wake
<1>3. t \notin R /\ r = th[t] /\ r.pc = "user"
  BY DEF futex_wake, Calls, Waiters, Woken
<1>4. Step(r, n)
  BY <1>1, <1>3, SetPc
<1>5. \A u \in Threads : th'[u] = IF u = t THEN n ELSE W[u]
  BY <1>1, <1>2
<1>6. n \in Rec /\ n.pc # "FutexWait"
  BY <1>1, <1>4 DEF Step, Rec
<1>7. \A u \in Threads : th'[u].pc = "FutexWait" => th'[u].on # Lock
  <2> SUFFICES ASSUME NEW u \in Threads, th'[u].pc = "FutexWait" PROVE th'[u].on # Lock
    OBVIOUS
  <2>1. u # t /\ th'[u] = W[u]
    BY <1>5, <1>6
  <2>2. th[u].pc = "FutexWait" /\ W[u].on = th[u].on
    BY <1>1, <2>1 DEF Step, Quiet
  <2>3. u \notin R
    <3>1. u \in R => W[u] = Awake(th[u])
      BY DEF Woken
    <3>2. Awake(th[u]).pc = "ret"
      BY AwakeIs DEF Types
    <3> QED  BY <2>1, <3>1, <3>2
  <2> QED  BY <2>1, <2>2, <2>3 DEF Waiters
<1> HIDE DEF W, n, R
<1>8. Moves
  BY <1>1, <1>2, <1>3, <1>4, <1>5, <1>6 DEF Moves
<1>9. owes' \subseteq Threads
  BY <1>2 DEF Types
<1> QED  BY <1>2, <1>7, <1>8, <1>9 DEF Types, Moves

\* Who begins to wait saw the word as it is; a call that fails changes nothing.
LEMMA FutexWaitMoves ==
  ASSUME Types, NEW t \in Threads, NEW w \in Words, NEW v \in 0 .. 1, NEW timed \in BOOLEAN,
         futex_wait_ticks(t, w, v, timed)
  PROVE  /\ Types' /\ UNCHANGED <<word, owes>>
         /\ \A u \in Threads \ {t} : th'[u] = th[u]
         /\ th[t].pc = "user" /\ PollOk(th[t]) => PollOk(th'[t])
         /\ th'[t].pc # "dead" /\ (th'[t].pc = "FutexWait" => word[th'[t].on] = th'[t].val)
         /\ th[t].pc = "user"
<1> DEFINE r == th[t]
           s == [r EXCEPT !.pc = "FutexWait", !.on = w, !.val = v, !.timed = timed]
           n == [r EXCEPT !.pc = "ret"]
<1>1. r \in Rec /\ r.pc = "user" /\ th \in [Threads -> Rec]
  BY DEF futex_wait_ticks, Calls, Types
<1>2. \/ word[w] = v /\ th' = [th EXCEPT ![t] = s]
      \/ th' = [th EXCEPT ![t] = n]
  BY DEF futex_wait_ticks
<1>3. "FutexWait" \in PCs
  BY DEF PCs
<1>4. s \in Rec /\ s.pc = "FutexWait" /\ s.on = w /\ s.val = v /\ s.again = r.again /\ s.in_poll = r.in_poll
      /\ s.io_deadline = r.io_deadline /\ s.frames = r.frames
  BY <1>1, <1>3 DEF Rec
<1>5. Step(r, n) /\ n.pc = "ret"
  <2>1. Step(r, n)
    BY <1>1, SetPc
  <2> QED  BY <1>1, <2>1 DEF Rec
<1> HIDE DEF s, n
<1>6. PollOk(r) => PollOk(s)
  BY <1>1, <1>4 DEF PollOk
<1>7. PollOk(r) => PollOk(n)
  <2>1. /\ n.pc = "ret" /\ n.again = r.again /\ n.in_poll = r.in_poll
        /\ n.io_deadline = r.io_deadline /\ n.frames = r.frames
    BY <1>1, <1>5 DEF n, Rec
  <2> QED  BY <1>1, <2>1 DEF PollOk
<1>8. n \in Rec
  BY <1>5 DEF Step
<1>9. UNCHANGED Other
  BY DEF futex_wait_ticks
<1>10. th' \in [Threads -> Rec] /\ \A u \in Threads \ {t} : th'[u] = th[u]
  BY <1>1, <1>2, <1>4, <1>8
<1>11. th'[t] = n \/ (th'[t] = s /\ word[w] = v)
  BY <1>1, <1>2
<1> QED  BY <1>1, <1>4, <1>5, <1>6, <1>7, <1>9, <1>10, <1>11 DEF Types, Other

\* The end of a thread wakes one of those that wait for it, and nobody else.
LEMMA ExitMoves ==
  ASSUME Types, NEW t \in Threads, exit_locked(t)
  PROVE  /\ Types' /\ UNCHANGED owes /\ word' = [word EXCEPT ![t] = 0]
         /\ th[t].pc = "user" /\ th'[t].pc = "dead"
         /\ PollOk(th[t]) => PollOk(th'[t])
         /\ \A u \in Threads \ {t} : Step(th[u], th'[u])
         /\ Waiters(t) # {} => \E u \in Waiters(t) : th'[u].pc # "FutexWait"
<1> PICK R \in SUBSET Waiters(t) :
          /\ Cardinality(R) = (IF Waiters(t) = {} THEN 0 ELSE 1)
          /\ th' = [Woken(R) EXCEPT ![t].pc = "dead"]
  BY DEF exit_locked
<1> DEFINE W == Woken(R)
           r == th[t]
           n == [r EXCEPT !.pc = "dead"]
<1>1. th[t].pc = "user" /\ r \in Rec
  BY DEF exit_locked, Calls, Types
<1>2. R \in SUBSET Threads /\ \A u \in R : th[u].pc = "FutexWait"
  BY WaitersAre
<1>3. W \in [Threads -> Rec] /\ \A u \in Threads : Step(th[u], W[u])
  BY <1>2, WokenMoves
<1>4. t \notin R /\ W[t] = r
  BY <1>1, <1>2 DEF Woken
<1>5. th' = [W EXCEPT ![t] = n]
  BY <1>4
<1>6. "dead" \in PCs
  BY DEF PCs
<1>7. /\ n \in Rec /\ n.pc = "dead" /\ n.again = r.again /\ n.in_poll = r.in_poll
      /\ n.io_deadline = r.io_deadline /\ n.frames = r.frames
  BY <1>1, <1>6 DEF Rec
<1>8. Waiters(t) # {} => \E u \in Waiters(t) : th'[u].pc # "FutexWait"
  <2> SUFFICES ASSUME Waiters(t) # {} PROVE \E u \in Waiters(t) : th'[u].pc # "FutexWait"
    OBVIOUS
  <2>1. R # {}
    BY FS_EmptySet
  <2>2. PICK u \in R : TRUE
    BY <2>1
  <2>3. u \in Threads /\ u # t /\ W[u] = Awake(th[u]) /\ th[u] \in Rec
    BY <1>2, <1>4 DEF Woken, Types
  <2>4. th'[u] = Awake(th[u])
    BY <1>3, <1>5, <2>3
  <2>5. th'[u].pc = "ret"
    BY <2>3, <2>4, AwakeIs
  <2> QED  BY <2>2, <2>5
<1> HIDE DEF W, n
<1>9. th' \in [Threads -> Rec] /\ th'[t] = n /\ \A u \in Threads \ {t} : th'[u] = W[u]
  BY <1>3, <1>5, <1>7
<1>10. PollOk(r) => PollOk(n)
  BY <1>1, <1>7 DEF PollOk
<1>11. word' = [word EXCEPT ![t] = 0] /\ UNCHANGED <<act, owes, snd, calls>>
  BY DEF exit_locked
<1>12. Types'
  <2>1. word' \in [Words -> 0 .. 1]
    BY <1>11 DEF Types, Words
  <2> QED  BY <1>9, <1>11, <2>1 DEF Types
<1> QED  BY <1>1, <1>3, <1>7, <1>8, <1>9, <1>10, <1>11, <1>12

\* Every step of a process moves its threads the way Moves says, or is one of
\* the three that are about futexes.
LEMMA NextMoves ==
  ASSUME Types, [Next]_vars
  PROVE  \/ Moves /\ Types' /\ UNCHANGED <<word, owes>>
         \/ \E t \in Threads : store(t)
         \/ \E t \in Threads : futex_wake(t)
         \/ \E t \in Threads : exit_locked(t)
         \/ \E t \in Threads, w \in Words, v \in 0 .. 1, timed \in BOOLEAN : futex_wait_ticks(t, w, v, timed)
<1>1. CASE UNCHANGED vars
  BY <1>1, NoneMoves DEF vars, Types
<1>2. ASSUME NEW s \in Sigs, post(s) \/ (\E to \in Threads, thread \in BOOLEAN : look(to, s, thread))
      PROVE  Moves /\ Types' /\ UNCHANGED <<word, owes>>
  BY <1>2, PostMoves, LookMoves DEF post, look, Other
<1>3. CASE send
  BY <1>3, SendMoves DEF send
<1>4. CASE io_wake
  BY <1>4, IoWakeMoves DEF io_wake
<1>5. ASSUME NEW t \in Threads,
             \/ interrupt(t) \/ deliver(t) \/ sigreturn(t)
             \/ \E s \in Sigs, a \in Actions : sys_sigaction(t, s, a)
             \/ \E m \in Masks : sys_sigprocmask(t, m)
             \/ \E m \in SuspendMasks : sig_suspend(t, m)
      PROVE  Moves /\ Types' /\ UNCHANGED <<word, owes>>
  BY <1>5, InterruptMoves, DeliverMoves, SigreturnMoves, SigactionMoves, SigprocmaskMoves, SuspendMoves
  DEF interrupt, deliver, sigreturn, sys_sigaction, sys_sigprocmask, sig_suspend, Other
<1>6. ASSUME NEW t \in Threads,
             \/ sleep_ticks(t) \/ wait_child(t) \/ child_exits(t)
             \/ read(t) \/ wait_ready_fault(t) \/ io_wait(t) \/ wake_sleepers(t)
             \/ \E timed \in BOOLEAN : wait_ready(t, timed)
      PROVE  Moves /\ Types' /\ UNCHANGED <<word, owes>>
  BY <1>6, InterruptMoves, WaitChildMoves, ReadMoves, PollFaultMoves, IoWaitMoves, SleeperMoves, PollMoves
  DEF sleep_ticks, wait_child, child_exits, read, wait_ready_fault, io_wait, wake_sleepers, wait_ready, Other
<1> QED  BY <1>1, <1>2, <1>3, <1>4, <1>5, <1>6 DEF Next

\* A thread begins in its program, with nothing to make again.
LEMMA FreshIs == Fresh \in Rec /\ Fresh.pc = "user" /\ PollOk(Fresh)
<1>1. <<>> \in Seq(Frame) /\ Len(<<>>) = 0
  OBVIOUS
<1>2. Lock \in Words /\ NoCall \in Repeats /\ "user" \in PCs
  BY DEF Words, Repeats, PCs
<1>3. Fresh \in Rec
  BY <1>1, <1>2 DEF Fresh, Rec
<1>4. /\ Fresh.pc = "user" /\ Fresh.again = "none" /\ Fresh.in_poll = FALSE
      /\ Fresh.io_deadline = "zero" /\ Fresh.frames = <<>>
  BY DEF Fresh, NoCall
<1> QED  BY <1>1, <1>3, <1>4 DEF PollOk

\* The first process has the types.
LEMMA InitTypes == Init => Types
<1> SUFFICES ASSUME Init PROVE Types
  OBVIOUS
<1>1. Actions \cup {DFL} \subseteq [handler : {"dfl", "ign", "fn"}, mask : SUBSET Sigs,
                                    restart : BOOLEAN, nodefer : BOOLEAN, reset : BOOLEAN]
  BY DflIsAction, SignalAssumption DEF SignalAssumption
<1>2. act \in [Sigs -> Actions \cup {DFL}]
  BY DEF Init
<1>3. word \in [Words -> 0 .. 1]
  BY DEF Init
<1> QED  BY <1>1, <1>2, <1>3, FreshIs DEF Init, Types

\* Every step keeps them.
LEMMA TypesAlways == Types /\ [Next]_vars => Types'
<1> SUFFICES ASSUME Types, [Next]_vars PROVE Types'
  OBVIOUS
<1> QED  BY NextMoves, StoreMoves, WakeMoves, ExitMoves, FutexWaitMoves

\* Fields of a thread have the values the code gives them, signals and masks are
\* of signals that exist.
THEOREM SignalTypes == Spec => []Types
<1>1. Init => Types
  BY InitTypes
<1>2. Types /\ [Next]_vars => Types'
  BY TypesAlways
<1> QED  BY <1>1, <1>2, PTL DEF Spec

-----------------------------------------------------------------------------
(* Polls.                                                                  *)

PollInv == \A t \in Threads : PollOk(th[t])

\* Every step keeps PollInv.
LEMMA PollInvAlways == NoFault /\ Types /\ PollInv /\ [Next]_vars => PollInv'
<1> SUFFICES ASSUME NoFault, Types, PollInv, [Next]_vars PROVE PollInv'
  OBVIOUS
<1>1. CASE Moves
  BY <1>1 DEF Moves, Step, PollInv
<1>2. ASSUME NEW t \in Threads, exit_locked(t)
      PROVE  PollInv'
  BY <1>2, ExitMoves DEF PollInv, Step
<1>3. ASSUME NEW t \in Threads, NEW w \in Words, NEW v \in 0 .. 1, NEW timed \in BOOLEAN,
             futex_wait_ticks(t, w, v, timed)
      PROVE  PollInv'
  <2>1. \A u \in Threads \ {t} : th'[u] = th[u]
    BY <1>3, FutexWaitMoves
  <2>2. PollOk(th[t]) => PollOk(th'[t])
    BY <1>3, FutexWaitMoves
  <2> QED  BY <2>1, <2>2 DEF PollInv
<1> QED  BY <1>1, <1>2, <1>3, NextMoves, StoreMoves, WakeMoves

\* A poll that was interrupted leaves nothing behind: its mark and its deadline
\* belong to the call that is about to be made again, and no handler returns into a
\* poll (wait_ready, io_wait_mask, skip_syscall, deliver). It holds of programs
\* whose timeouts stay readable.
THEOREM PollLeavesNothing ==
  ASSUME NoFault
  PROVE  Spec => []PollWhole
<1>1. Init => Types /\ PollInv
  BY InitTypes, FreshIs DEF Init, PollInv
<1>2. Types /\ PollInv /\ [Next]_vars => Types' /\ PollInv'
  BY TypesAlways, PollInvAlways
<1>3. Types /\ PollInv => PollWhole
  BY DEF PollInv, PollOk, PollWhole
<1> QED  BY <1>1, <1>2, <1>3, PTL DEF Spec

-----------------------------------------------------------------------------
(* Futexes.                                                                *)

\* The word of a thread is 1 as long as it lives (clear_child_tid).
WordsLive == \A t \in Threads : th[t].pc # "dead" => word[t] = 1
FutexInv == WordsLive /\ FutexWoken

\* Nobody joins a thread that is being joined, as POSIX asks of pthread_join: the
\* end of a thread wakes one waiter only.
OneJoiner == \A w \in Threads : \A t, u \in Waiters(w) : t = u

\* Every step keeps FutexInv as long as nobody joins twice.
LEMMA FutexInvAlways == Types /\ FutexInv /\ OneJoiner /\ [Next]_vars => FutexInv'
<1> SUFFICES ASSUME Types, FutexInv, OneJoiner, [Next]_vars PROVE FutexInv'
  OBVIOUS
<1>0. Lock \notin Threads
  BY SignalAssumption DEF SignalAssumption
<1>1. CASE Moves /\ UNCHANGED <<word, owes>>
  BY <1>1 DEF Moves, Step, Quiet, FutexInv, WordsLive, FutexWoken
<1>2. ASSUME NEW t \in Threads, store(t)
      PROVE  FutexInv'
  <2>1. /\ UNCHANGED th /\ word' = [word EXCEPT ![Lock] = 1 - word[Lock]] /\ owes' # {}
        /\ word \in [Words -> 0 .. 1]
    BY <1>2 DEF store, Types
  <2>2. \A w \in Threads : word'[w] = word[w]
    BY <1>0, <2>1 DEF Words
  <2>3. WordsLive'
    BY <2>1, <2>2 DEF FutexInv, WordsLive
  <2>4. \A u \in Threads : th[u].on \in Threads \cup {Lock}
    BY DEF Types, Rec, Words
  <2>5. FutexWoken'
    BY <2>1, <2>2, <2>4 DEF FutexInv, FutexWoken
  <2> QED  BY <2>3, <2>5 DEF FutexInv
<1>3. ASSUME NEW t \in Threads, futex_wake(t)
      PROVE  FutexInv'
  <2>1. Moves /\ (\A u \in Threads : th'[u].pc = "FutexWait" => th'[u].on # Lock) /\ UNCHANGED word
    BY <1>3, WakeMoves DEF futex_wake
  <2> QED  BY <2>1 DEF Moves, Step, Quiet, FutexInv, WordsLive, FutexWoken
<1>4. ASSUME NEW t \in Threads, NEW w \in Words, NEW v \in 0 .. 1, NEW timed \in BOOLEAN,
             futex_wait_ticks(t, w, v, timed)
      PROVE  FutexInv'
  <2>1. /\ UNCHANGED <<word, owes>>
        /\ \A u \in Threads \ {t} : th'[u] = th[u]
        /\ th'[t].pc # "dead" /\ (th'[t].pc = "FutexWait" => word[th'[t].on] = th'[t].val)
        /\ th[t].pc = "user"
    BY <1>4, FutexWaitMoves
  <2> QED  BY <2>1 DEF FutexInv, WordsLive, FutexWoken
<1>5. ASSUME NEW t \in Threads, exit_locked(t)
      PROVE  FutexInv'
  <2>1. /\ UNCHANGED owes /\ word' = [word EXCEPT ![t] = 0] /\ word \in [Words -> 0 .. 1]
        /\ th[t].pc = "user" /\ th'[t].pc = "dead"
        /\ \A u \in Threads \ {t} : Quiet(th[u], th'[u])
        /\ Waiters(t) # {} => \E u \in Waiters(t) : th'[u].pc # "FutexWait"
    BY <1>5, ExitMoves DEF Step, Types
  <2>2. \A w \in Words \ {t} : word'[w] = word[w]
    BY <2>1
  <2>3. WordsLive'
    BY <2>1, <2>2 DEF FutexInv, WordsLive, Quiet, Words
  <2>4. ASSUME NEW u \in Threads, th'[u].pc = "FutexWait", word'[th'[u].on] # th'[u].val
        PROVE  th'[u].on = Lock /\ owes' # {}
    <3>1. u # t /\ th[u].pc = "FutexWait" /\ th'[u].on = th[u].on /\ th'[u].val = th[u].val
      BY <2>1, <2>4 DEF Quiet
    <3>2. th[u].on # t
      BY <2>1, <3>1, <2>4 DEF OneJoiner, Waiters
    <3>3. th[u].on \in Words
      BY DEF Types, Rec
    <3> QED  BY <2>1, <2>2, <2>4, <3>1, <3>2, <3>3 DEF FutexInv, FutexWoken
  <2> QED  BY <2>3, <2>4 DEF FutexInv, FutexWoken
<1> QED  BY <1>1, <1>2, <1>3, <1>4, <1>5, NextMoves

\* Who sleeps on a futex although its word has changed is about to be woken: futex_wait_ticks looks at the word under SCHED, where FUTEX_WAKE
\* and the end of a thread look for sleepers. Programs join a thread once.
THEOREM FutexNotLost == Spec /\ []OneJoiner => []FutexWoken
<1>1. Init => Types /\ FutexInv
  BY InitTypes, FreshIs, SignalAssumption DEF Init, FutexInv, WordsLive, FutexWoken, Words, SignalAssumption
<1>2. Types /\ FutexInv /\ OneJoiner /\ [Next]_vars => Types' /\ FutexInv'
  BY TypesAlways, FutexInvAlways
<1>3. FutexInv => FutexWoken
  BY DEF FutexInv
<1> QED  BY <1>1, <1>2, <1>3, PTL DEF Spec

-----------------------------------------------------------------------------
(* Masks.                                                                  *)

\* What is proved of rt_sigsuspend is proved of a process that lets every signal
\* through while it waits, whose actions are set when it begins, and that does
\* not lose a handler to a default that ignores.
SuspendsOpen ==
    /\ SuspendMasks \subseteq {{}}
    /\ \A c \in Programs : "sigsuspend" \in c => "sigaction" \notin c
    /\ Ignored = {} \/ \A a \in Actions : ~a.reset

\* The mask that was asked for is the current one, or the saved one of a thread
\* that waits or is about to run a handler, or the one the first handler returns to.
MaskOk(r) ==
    IF r.frames # <<>> THEN r.frames[1].mask = r.want /\ ~r.suspended /\ r.pc # "SigWait"
    ELSE IF r.suspended
    THEN /\ "sigsuspend" \in calls /\ r.saved = r.want /\ r.mask = {}
         /\ r.pc = "SigWait" \/ (r.pc = "ret" /\ r.pending # {})
    ELSE r.mask = r.want /\ r.pc # "SigWait"

\* Signals that nothing would be done about are not pending.
Acting == "sigsuspend" \in calls => \A t \in Threads : \A s \in th[t].pending : would_act(s)

ActsAre == act \in [Sigs -> Actions \cup {DFL}]

MaskInv == Acting /\ ActsAre /\ \A t \in Threads : MaskOk(th[t])

\* What is about masks stays the same,
Same(r, n) ==
    /\ n.frames = r.frames /\ n.mask = r.mask /\ n.saved = r.saved
    /\ n.suspended = r.suspended /\ n.want = r.want

\* and so does what is pending.
Still(r, n) == Same(r, n) /\ n.pending = r.pending

\* Only a signal ends the wait of rt_sigsuspend, and only rt_sigsuspend begins one.
Moved(r, n) ==
    \/ n.pc = r.pc
    \/ r.pc \notin {"SigWait", "ret"} /\ n.pc # "SigWait"
    \/ r.pc = "SigWait" /\ n.pc = "ret" /\ n.pending # {}

\* A thread that none of the five actions about masks happens to.
Calm(r, n) ==
    /\ Same(r, n) /\ Moved(r, n)
    /\ r.pending \subseteq n.pending /\ \A s \in n.pending \ r.pending : would_act(s)

AllCalm == \A u \in Threads : Calm(th[u], th'[u])

\* It keeps what it has.
LEMMA CalmKeeps ==
  ASSUME NEW r, NEW n, Calm(r, n), MaskOk(r)
  PROVE  MaskOk(n)
<1>1. r.pending # {} => n.pending # {}
  BY DEF Calm
<1> QED  BY <1>1 DEF Calm, Same, Moved, MaskOk

\* A thread that nothing happens to.
LEMMA CalmRefl == \A r : Calm(r, r)
BY DEF Calm, Same, Moved

\* A thread that is somewhere else.
LEMMA StillIsCalm ==
  ASSUME NEW r, NEW n, Still(r, n), Moved(r, n)
  PROVE  Calm(r, n)
BY DEF Still, Calm

\* A wait that ends.
LEMMA AwakeStill ==
  ASSUME NEW r \in Rec
  PROVE  Still(r, Awake(r)) /\ Awake(r).pc = "ret"
<1>1. Awake(r) = [r EXCEPT !.pc = "ret", !.on = Lock, !.val = 0, !.timed = FALSE, !.moved = FALSE]
  BY DEF Awake
<1> QED  BY <1>1 DEF Rec, Still, Same

\* The same of one that a signal does not have to end.
LEMMA AwakeCalm ==
  ASSUME NEW r \in Rec, r.pc \notin {"SigWait", "ret"}
  PROVE  Calm(r, Awake(r))
BY AwakeStill, StillIsCalm DEF Moved

\* What a signal does.
LEMMA PostedCalm ==
  ASSUME NEW r \in Rec, NEW s \in Sigs, would_act(s)
  PROVE  Calm(r, Posted(r, s))
<1> DEFINE p == [r EXCEPT !.pending = @ \cup {s}]
           a == Awake(p)
           i == [a EXCEPT !.again = NoCall, !.in_poll = FALSE, !.io_deadline = "zero"]
           w == [a EXCEPT !.again = "wait4"]
           n == Posted(r, s)
<1>1. p \in Rec
  BY DEF Rec
<1>2. Same(r, p) /\ p.pc = r.pc /\ p.pending = r.pending \cup {s}
  BY DEF Rec, Same
<1> HIDE DEF p
<1>3. Still(p, a) /\ a.pc = "ret" /\ a \in Rec
  BY <1>1, AwakeStill, AwakeIs
<1> HIDE DEF a
<1>4. Still(a, i) /\ i.pc = "ret" /\ Still(a, w) /\ w.pc = "ret"
  BY <1>3 DEF Rec, Still, Same
<1> HIDE DEF i, w
<1>5. \/ n = p /\ r.pc # "SigWait"
      \/ n \in {a, i, w} /\ r.pc \in {"WaitChild", "Sleeping", "FutexWait", "SigWait", "IoWait"}
  BY <1>2 DEF Posted, Interrupted, p, a, i, w
<1> HIDE DEF n
<1>6. Same(r, n) /\ n.pending = r.pending \cup {s}
  BY <1>2, <1>3, <1>4, <1>5 DEF Still, Same
<1>7. Moved(r, n)
  BY <1>2, <1>3, <1>4, <1>5, <1>6 DEF Moved
<1>8. Calm(r, n)
  BY <1>6, <1>7 DEF Calm
<1> QED  BY <1>8 DEF n

\* One thread changes.
LEMMA OneCalm ==
  ASSUME Types, NEW t \in Threads, NEW n, Calm(th[t], n), th' = [th EXCEPT ![t] = n]
  PROVE  AllCalm
BY CalmRefl DEF Types, AllCalm

\* No thread changes.
LEMMA NoneCalm == UNCHANGED th => AllCalm
BY CalmRefl DEF AllCalm

\* post_signal_locked lets the thread know, if it would do something about it.
LEMMA LockedCalm ==
  ASSUME Types, NEW to, NEW s \in Sigs, NEW thread, post_signal_locked(to, s, thread)
  PROVE  AllCalm
<1>1. CASE to \in Alive /\ would_act(s)
  <2>1. PICK d \in Dest(to, s, thread) : th' = [th EXCEPT ![d] = Posted(@, s)]
    BY <1>1 DEF post_signal_locked
  <2>2. d \in Threads /\ th[d] \in Rec
    BY <1>1 DEF Dest, Alive, Types
  <2>3. Calm(th[d], Posted(th[d], s)) /\ th' = [th EXCEPT ![d] = Posted(th[d], s)]
    BY <1>1, <2>1, <2>2, PostedCalm
  <2> QED  BY <2>2, <2>3, OneCalm
<1>2. CASE ~(to \in Alive /\ would_act(s))
  BY <1>2, NoneCalm DEF post_signal_locked
<1> QED  BY <1>1, <1>2

\* Posts and kills leave the actions alone.
LEMMA PostsCalm ==
  ASSUME Types, NEW s \in Sigs,
         post(s) \/ send \/ \E to \in Threads, thread \in BOOLEAN : look(to, s, thread)
  PROVE  AllCalm /\ UNCHANGED act
<1>1. CASE post(s)
  BY <1>1, LockedCalm DEF post, Other
<1>2. CASE send
  <2>1. snd.sig \in Sigs
    BY <1>2 DEF send, Types
  <2> QED  BY <1>2, <2>1, LockedCalm, NoneCalm DEF send
<1>3. ASSUME NEW to \in Threads, NEW thread \in BOOLEAN, look(to, s, thread)
      PROVE  AllCalm /\ UNCHANGED act
  BY <1>3, NoneCalm DEF look
<1> QED  BY <1>1, <1>2, <1>3

\* A call about no mask changes other things of its caller.
LEMMA CallCalm ==
  ASSUME NEW r, NEW n, r.pc \in {"user", "WaitChild"}, Still(r, n), n.pc # "SigWait"
  PROVE  Calm(r, n)
BY StillIsCalm DEF Moved

\* Interrupts, sleeps and the end of a child.
LEMMA InterruptCalm ==
  ASSUME Types, NEW t \in Threads, interrupt(t) \/ sleep_ticks(t) \/ child_exits(t)
  PROVE  AllCalm /\ UNCHANGED act
<1>1. th[t] \in Rec /\ th[t].pc \in {"user", "WaitChild"} /\ UNCHANGED act
  BY DEF Types, interrupt, sleep_ticks, child_exits, Calls, Other
<1>2. PICK pc \in {"ret", "Sleeping"} : Goes(t, pc)
  BY DEF interrupt, sleep_ticks, child_exits
<1> DEFINE n == [th[t] EXCEPT !.pc = pc]
<1>3. th' = [th EXCEPT ![t] = n]
  BY <1>2 DEF Goes
<1>4. Still(th[t], n) /\ n.pc # "SigWait"
  BY <1>1 DEF Rec, Still, Same
<1> HIDE DEF n
<1>5. Calm(th[t], n)
  BY <1>1, <1>4, CallCalm
<1> QED  BY <1>1, <1>3, <1>5, OneCalm

\* wait4
LEMMA WaitChildCalm ==
  ASSUME Types, NEW t \in Threads, wait_child(t)
  PROVE  AllCalm /\ UNCHANGED act
<1> DEFINE r == th[t]
           n == [r EXCEPT !.pc = "WaitChild", !.again = NoCall]
<1>1. r \in Rec /\ r.pc = "user" /\ UNCHANGED act /\ th' = [th EXCEPT ![t] = n]
  BY DEF wait_child, Calls, Types, Other
<1>2. Still(r, n) /\ n.pc # "SigWait"
  BY <1>1 DEF Rec, Still, Same
<1> HIDE DEF n
<1>3. Calm(r, n)
  BY <1>1, <1>2, CallCalm
<1> QED  BY <1>1, <1>3, OneCalm

\* read
LEMMA ReadCalm ==
  ASSUME Types, NEW t \in Threads, read(t)
  PROVE  AllCalm /\ UNCHANGED act
<1> DEFINE r == th[t]
           pc == IF ready THEN "ret" ELSE "wait"
           ag == IF ready THEN NoCall ELSE "read"
           n == [r EXCEPT !.pc = pc, !.again = ag]
<1>1. r \in Rec /\ r.pc = "user"
  BY DEF read, Calls, Types
<1>2. th' = [th EXCEPT ![t] = n] /\ UNCHANGED act
  BY DEF read
<1>3. pc # "SigWait"
  OBVIOUS
<1> HIDE DEF pc, ag
<1>4. Still(r, n) /\ n.pc # "SigWait"
  BY <1>1, <1>3 DEF Rec, Still, Same
<1> HIDE DEF n
<1>5. Calm(r, n)
  BY <1>1, <1>4, CallCalm
<1> QED  BY <1>2, <1>5, OneCalm

\* poll
LEMMA PollCalm ==
  ASSUME Types, NEW t \in Threads, NEW timed \in BOOLEAN, wait_ready(t, timed)
  PROVE  AllCalm /\ UNCHANGED act
<1> DEFINE r == th[t]
           due == IF r.io_deadline # "zero" THEN r.io_deadline ELSE IF timed THEN "timed" ELSE "never"
           over == [r EXCEPT !.pc = "ret", !.again = NoCall, !.in_poll = FALSE, !.io_deadline = "zero"]
           wait == [r EXCEPT !.pc = "wait", !.again = "poll", !.io_deadline = due]
<1>1. r \in Rec /\ r.pc = "user" /\ UNCHANGED act
  BY DEF wait_ready, Calls, Types, Other
<1>2. th' = [th EXCEPT ![t] = over] \/ th' = [th EXCEPT ![t] = wait]
  BY DEF wait_ready
<1> HIDE DEF due
<1>3. Still(r, over) /\ over.pc # "SigWait" /\ Still(r, wait) /\ wait.pc # "SigWait"
  BY <1>1 DEF Rec, Still, Same
<1> HIDE DEF over, wait
<1>4. Calm(r, over) /\ Calm(r, wait)
  BY <1>1, <1>3, CallCalm
<1> QED  BY <1>1, <1>2, <1>4, OneCalm

\* A poll whose timeout is not readable.
LEMMA PollFaultCalm ==
  ASSUME Types, NEW t \in Threads, wait_ready_fault(t)
  PROVE  AllCalm /\ UNCHANGED act
<1> DEFINE r == th[t]
           n == [r EXCEPT !.pc = "ret", !.again = NoCall]
<1>1. r \in Rec /\ r.pc = "user" /\ UNCHANGED act /\ th' = [th EXCEPT ![t] = n]
  BY DEF wait_ready_fault, Calls, Types, Other
<1>2. Still(r, n) /\ n.pc # "SigWait"
  BY <1>1 DEF Rec, Still, Same
<1> HIDE DEF n
<1>3. Calm(r, n)
  BY <1>1, <1>2, CallCalm
<1> QED  BY <1>1, <1>3, OneCalm

\* FUTEX_WAIT sleeps or returns.
LEMMA FutexWaitCalm ==
  ASSUME Types, NEW t \in Threads, NEW w \in Words, NEW v \in 0 .. 1, NEW timed \in BOOLEAN,
         futex_wait_ticks(t, w, v, timed)
  PROVE  AllCalm /\ UNCHANGED act
<1> DEFINE s == [th[t] EXCEPT !.pc = "FutexWait", !.on = w, !.val = v, !.timed = timed]
           n == [th[t] EXCEPT !.pc = "ret"]
<1>1. th[t] \in Rec /\ th[t].pc \in {"user", "WaitChild"} /\ UNCHANGED act
  BY DEF Types, futex_wait_ticks, Calls, Other
<1>2. th' = [th EXCEPT ![t] = s] \/ th' = [th EXCEPT ![t] = n]
  BY DEF futex_wait_ticks
<1>3. Still(th[t], s) /\ s.pc # "SigWait" /\ Still(th[t], n) /\ n.pc # "SigWait"
  BY <1>1 DEF Rec, Still, Same
<1> HIDE DEF s, n
<1>4. Calm(th[t], s) /\ Calm(th[t], n)
  BY <1>1, <1>3, CallCalm
<1> QED  BY <1>1, <1>2, <1>4, OneCalm

\* The threads R are woken from waits that rt_sigsuspend did not begin.
LEMMA WokenCalm ==
  ASSUME Types, NEW R \in SUBSET Threads, \A u \in R : th[u].pc \notin {"SigWait", "ret"}
  PROVE  \A u \in Threads : Calm(th[u], Woken(R)[u])
<1>1. \A u \in R : th[u] \in Rec /\ Calm(th[u], Awake(th[u]))
  BY AwakeCalm DEF Types
<1> QED  BY <1>1, CalmRefl DEF Woken

\* Waits for files and deadlines that pass.
LEMMA WaitsCalm ==
  ASSUME Types, io_wake \/ \E t \in Threads : io_wait(t) \/ wake_sleepers(t)
  PROVE  AllCalm /\ UNCHANGED act
<1>1. CASE io_wake
  <2>1. ASSUME NEW u \in Threads
        PROVE  Calm(th[u], th'[u])
    <3> DEFINE r == th[u]
               n == [r EXCEPT !.moved = TRUE]
    <3>1. r \in Rec
      BY DEF Types
    <3>2. \/ th'[u] = Awake(r) /\ r.pc = "IoWait"
          \/ th'[u] = n
          \/ th'[u] = r
      BY <1>1 DEF io_wake
    <3>3. Still(r, n) /\ n.pc = r.pc
      BY <3>1 DEF Rec, Still, Same
    <3> HIDE DEF n
    <3>4. Calm(r, n)
      BY <3>3, StillIsCalm DEF Moved
    <3> QED  BY <3>1, <3>2, <3>4, AwakeCalm, CalmRefl
  <2> QED  BY <1>1, <2>1 DEF io_wake, AllCalm
<1>2. ASSUME NEW t \in Threads, io_wait(t)
      PROVE  AllCalm /\ UNCHANGED act
  <2> DEFINE r == th[t]
             p == [r EXCEPT !.in_poll = @ \/ r.again = "poll"]
             n == [p EXCEPT !.pc = "IoWait"]
  <2>1. r \in Rec /\ r.pc = "wait"
    BY <1>2 DEF io_wait, Types
  <2>2. p \in Rec
    <3>1. PICK b \in BOOLEAN : b = (r.in_poll \/ r.again = "poll")
      OBVIOUS
    <3>2. p = [r EXCEPT !.in_poll = b]
      BY <3>1
    <3> HIDE DEF p
    <3> QED  BY <2>1, <3>2 DEF Rec
  <2>3. Still(r, p)
    BY <2>1 DEF Rec, Still, Same
  <2> HIDE DEF p
  <2>4. Still(p, n) /\ n.pc = "IoWait" /\ Still(p, Awake(p)) /\ Awake(p).pc = "ret"
    BY <2>2, AwakeStill DEF Rec, Still, Same
  <2> HIDE DEF n
  <2> DEFINE a == Awake(p)
  <2>5. /\ Still(r, n) /\ n.pc = "IoWait"
        /\ Still(r, a) /\ a.pc = "ret"
    BY <2>3, <2>4 DEF Still, Same
  <2>6. th' = [th EXCEPT ![t] = n] \/ th' = [th EXCEPT ![t] = a]
    <3>1. Rewound(r, ~r.moved /\ Deliverable(r) = {}) \in {n, a}
      BY DEF Rewound, n, p
    <3> QED  BY <1>2, <3>1 DEF io_wait
  <2> HIDE DEF a
  <2>7. Calm(r, n) /\ Calm(r, a)
    BY <2>1, <2>5, StillIsCalm DEF Moved
  <2> QED  BY <1>2, <2>6, <2>7, OneCalm DEF io_wait, Other
<1>3. ASSUME NEW t \in Threads, wake_sleepers(t)
      PROVE  AllCalm /\ UNCHANGED act
  <2>1. /\ th[t] \in Rec /\ th[t].pc \notin {"SigWait", "ret"} /\ UNCHANGED act
        /\ th' = [th EXCEPT ![t] = Awake(th[t])]
    BY <1>3 DEF wake_sleepers, Types, Other
  <2> QED  BY <2>1, AwakeCalm, OneCalm
<1> QED  BY <1>1, <1>2, <1>3

\* Futexes and the end of a thread.
LEMMA FutexesCalm ==
  ASSUME Types, NEW t \in Threads, store(t) \/ futex_wake(t) \/ exit_locked(t)
  PROVE  AllCalm /\ UNCHANGED act
<1>1. CASE store(t)
  BY <1>1, NoneCalm DEF store
<1>2. CASE futex_wake(t) \/ exit_locked(t)
  <2>1. PICK R \in SUBSET Threads, pc \in {"ret", "dead"} :
             /\ th' = [Woken(R) EXCEPT ![t].pc = pc]
             /\ \A u \in R : th[u].pc = "FutexWait"
    BY <1>2, WaitersAre DEF futex_wake, exit_locked
  <2>2. th[t].pc = "user" /\ th[t] \in Rec /\ UNCHANGED act
    BY <1>2 DEF futex_wake, exit_locked, Calls, Types
  <2> DEFINE W == Woken(R)
             r == th[t]
             n == [r EXCEPT !.pc = pc]
  <2>3. /\ W \in [Threads -> Rec] /\ \A u \in Threads : Calm(th[u], W[u])
    BY <2>1, WokenMoves, WokenCalm
  <2>4. W[t] = r
    BY <2>1, <2>2 DEF Woken
  <2>5. th' = [W EXCEPT ![t] = n]
    BY <2>1, <2>4
  <2>6. Still(r, n) /\ n.pc = pc
    BY <2>2 DEF Rec, Still, Same
  <2> HIDE DEF n, W
  <2>7. Calm(r, n)
    BY <2>2, <2>6, StillIsCalm DEF Moved
  <2>8. \A u \in Threads : th'[u] = IF u = t THEN n ELSE W[u]
    BY <2>3, <2>5
  <2> QED  BY <2>2, <2>3, <2>7, <2>8 DEF AllCalm
<1> QED  BY <1>1, <1>2

\* Every step is calm, or is one of the five that are about masks.
LEMMA CalmNext ==
  ASSUME Types, [Next]_vars
  PROVE  \/ AllCalm /\ UNCHANGED act
         \/ \E t \in Threads :
               \/ deliver(t) \/ sigreturn(t)
               \/ \E s \in Sigs, a \in Actions : sys_sigaction(t, s, a)
               \/ \E m \in Masks : sys_sigprocmask(t, m)
               \/ \E m \in SuspendMasks : sig_suspend(t, m)
<1>1. CASE UNCHANGED vars
  BY <1>1, NoneCalm DEF vars
<1>2. ASSUME NEW s \in Sigs, post(s) \/ (\E to \in Threads, thread \in BOOLEAN : look(to, s, thread))
      PROVE  AllCalm /\ UNCHANGED act
  BY <1>2, PostsCalm
<1>3. CASE send
  <2>1. snd.sig \in Sigs
    BY <1>3 DEF send, Types
  <2> QED  BY <1>3, <2>1, PostsCalm
<1>4. CASE io_wake
  BY <1>4, WaitsCalm
<1>5. ASSUME NEW t \in Threads,
             \/ interrupt(t) \/ sleep_ticks(t) \/ wait_child(t) \/ child_exits(t)
             \/ read(t) \/ wait_ready_fault(t) \/ io_wait(t) \/ wake_sleepers(t)
             \/ \E timed \in BOOLEAN : wait_ready(t, timed)
             \/ \E w \in Words, v \in 0 .. 1, timed \in BOOLEAN : futex_wait_ticks(t, w, v, timed)
             \/ store(t) \/ futex_wake(t) \/ exit_locked(t)
      PROVE  AllCalm /\ UNCHANGED act
  BY <1>5, InterruptCalm, WaitChildCalm, ReadCalm, PollCalm, PollFaultCalm, WaitsCalm, FutexWaitCalm,
     FutexesCalm
<1> QED  BY <1>1, <1>2, <1>3, <1>4, <1>5 DEF Next

\* Calm steps keep MaskInv.
LEMMA CalmKeepsInv ==
  ASSUME Types, MaskInv, AllCalm, UNCHANGED <<act, calls>>
  PROVE  MaskInv'
<1>1. ASSUME NEW u \in Threads
      PROVE  MaskOk(th'[u])
  BY CalmKeeps DEF MaskInv, AllCalm
<1>2. \A u \in Threads : MaskOk(th[u])'
  BY <1>1 DEF MaskOk
<1>3. \A s : would_act(s)' = would_act(s)
  BY DEF would_act, Fatal
<1>4. ASSUME "sigsuspend" \in calls, NEW t \in Threads, NEW s \in th'[t].pending
      PROVE  would_act(s)
  <2>1. s \in th[t].pending \/ would_act(s)
    BY <1>4 DEF AllCalm, Calm
  <2> QED  BY <1>4, <2>1 DEF MaskInv, Acting
<1>5. Acting'
  BY <1>3, <1>4 DEF Acting
<1> QED  BY <1>2, <1>5 DEF MaskInv, ActsAre

\* One thread changes, and is as it should be.
LEMMA OneMaskOk ==
  ASSUME Types, MaskInv, NEW t \in Threads, NEW n, MaskOk(n), th' = [th EXCEPT ![t] = n], UNCHANGED calls
  PROVE  \A u \in Threads : MaskOk(th[u])'
<1>1. \A u \in Threads : th'[u] = IF u = t THEN n ELSE th[u]
  BY DEF Types
<1>2. \A u \in Threads : MaskOk(th'[u])
  BY <1>1 DEF MaskInv
<1> QED  BY <1>2 DEF MaskOk

\* The end of a trap gives the frame of a handler the mask that was asked for.
LEMMA HandledMask ==
  ASSUME Types, NEW r \in Rec, NEW s \in Sigs, MaskOk(r), r.pc = "ret"
  PROVE  MaskOk(Handled(r, s)) /\ Handled(r, s).pending = r.pending \ {s}
<1> DEFINE m == old_mask(r) \cup act[s].mask \cup (IF act[s].nodefer THEN {} ELSE {s})
           pend == r.pending \ {s}
           due == IF r.in_poll THEN "zero" ELSE r.io_deadline
           f == [mask |-> old_mask(r), again |-> IF r.in_poll THEN NoCall ELSE r.again]
           fs == Append(r.frames, f)
           n == [r EXCEPT !.pc = "user", !.pending = pend, !.suspended = FALSE, !.mask = m,
                          !.again = NoCall, !.in_poll = FALSE, !.io_deadline = due, !.frames = fs]
<1>1. r.frames \in Seq(Frame)
  BY DEF Rec
<1>2. fs # <<>> /\ fs[1] = IF r.frames = <<>> THEN f ELSE r.frames[1]
  <2> HIDE DEF f
  <2>1. CASE r.frames = <<>>
    BY <2>1
  <2>2. CASE r.frames # <<>>
    <3>1. Len(r.frames) >= 1 /\ Len(fs) = Len(r.frames) + 1
      BY <1>1, <2>2
    <3>2. fs[1] = r.frames[1]
      BY <1>1, <3>1
    <3> QED  BY <2>2, <3>1, <3>2
  <2> QED  BY <2>1, <2>2
<1>3. f.mask = old_mask(r)
  OBVIOUS
<1>4. n = Handled(r, s)
  BY DEF Handled
<1> HIDE DEF m, pend, fs, f
<1>5. n.pc = "user" /\ n.frames = fs /\ n.suspended = FALSE /\ n.want = r.want /\ n.pending = pend
  BY DEF Rec
<1> HIDE DEF n
<1>6. r.frames = <<>> => old_mask(r) = r.want
  BY DEF MaskOk, old_mask
<1>7. MaskOk(n)
  BY <1>2, <1>3, <1>5, <1>6 DEF MaskOk
<1> QED  BY <1>4, <1>5, <1>7 DEF pend

\* A handler that starts, a signal that is discarded, the end of the process.
LEMMA DeliverMask ==
  ASSUME SuspendsOpen, Types, MaskInv, NEW t \in Threads, deliver(t)
  PROVE  MaskInv'
<1> DEFINE r == th[t]
           D == Deliverable(r)
<1>1. r \in Rec /\ r.pc = "ret" /\ r.pending \in SUBSET Sigs /\ UNCHANGED calls /\ MaskOk(r)
  BY DEF deliver, Types, Rec, MaskInv
<1>2. CASE D = {}
  <2> DEFINE n == [r EXCEPT !.pc = "user"]
  <2>1. th' = [th EXCEPT ![t] = n] /\ UNCHANGED act
    BY <1>2 DEF deliver, Goes
  <2>2. r.mask = {} => r.pending = {}
    BY <1>2 DEF Deliverable
  <2>3. Still(r, n) /\ n.pc = "user"
    BY <1>1 DEF Rec, Still, Same
  <2> HIDE DEF n
  <2>4. MaskOk(n)
    BY <1>1, <2>2, <2>3 DEF MaskOk, Still, Same
  <2>5. \A u \in Threads : MaskOk(th[u])'
    BY <1>1, <2>1, <2>4, OneMaskOk
  <2>6. \A u \in Threads : th'[u].pending = th[u].pending
    BY <2>1, <2>3 DEF Types, Still
  <2>7. Acting'
    BY <1>1, <2>1, <2>6 DEF MaskInv, Acting, would_act, Fatal
  <2> QED  BY <2>1, <2>5, <2>7 DEF MaskInv, ActsAre
<1>3. CASE D # {}
  <2> DEFINE s == Min(D)
  <2>1. s \in D /\ s \in Sigs
    <3>1. D \subseteq Nat /\ D \subseteq Sigs
      BY <1>1, SignalAssumption DEF Deliverable, SignalAssumption
    <3> QED  BY <1>3, <3>1, MinIsIn
  <2> HIDE DEF s
  <2>2. s \in r.pending
    BY <2>1 DEF Deliverable
  <2>3. \/ /\ th' = [th EXCEPT ![t] = Handled(th[t], s)]
           /\ act[s].handler = "fn"
           /\ act' = IF act[s].reset THEN [act EXCEPT ![s] = DFL] ELSE act
        \/ UNCHANGED <<th, act>>
        \/ /\ th' = [th EXCEPT ![t] = [th[t] EXCEPT !.pending = th[t].pending \ {s}]]
           /\ ~would_act(s) /\ UNCHANGED act
    BY <1>1, <1>3 DEF deliver, would_act, s
  <2>4. CASE UNCHANGED <<th, act>>
    BY <1>1, <2>4, NoneCalm, CalmKeepsInv
  <2>5. CASE /\ th' = [th EXCEPT ![t] = [r EXCEPT !.pending = r.pending \ {s}]]
             /\ ~would_act(s) /\ UNCHANGED act
    <3> DEFINE n == [r EXCEPT !.pending = r.pending \ {s}]
    <3>1. Same(r, n) /\ n.pc = r.pc /\ n.pending = r.pending \ {s}
      BY <1>1 DEF Rec, Same
    <3>2. th' = [th EXCEPT ![t] = n]
      BY <2>5
    <3> HIDE DEF n
    <3>3. "sigsuspend" \notin calls
      BY <2>2, <2>5 DEF MaskInv, Acting
    <3>4. MaskOk(n)
      BY <1>1, <3>1, <3>3 DEF MaskOk, Same
    <3>5. \A u \in Threads : MaskOk(th[u])'
      BY <1>1, <3>2, <3>4, OneMaskOk
    <3> QED  BY <1>1, <2>5, <3>3, <3>5 DEF MaskInv, ActsAre, Acting
  <2>6. CASE /\ th' = [th EXCEPT ![t] = Handled(r, s)]
             /\ act[s].handler = "fn"
             /\ act' = IF act[s].reset THEN [act EXCEPT ![s] = DFL] ELSE act
    <3> DEFINE n == Handled(r, s)
    <3>1. MaskOk(n) /\ n.pending = r.pending \ {s}
      BY <1>1, <2>1, HandledMask
    <3>2. th' = [th EXCEPT ![t] = n]
      BY <2>6
    <3> HIDE DEF n
    <3>3. \A u \in Threads : MaskOk(th[u])'
      BY <1>1, <3>1, <3>2, OneMaskOk
    <3>4. \A u \in Threads : th'[u].pending \subseteq th[u].pending
      BY <3>1, <3>2 DEF Types
    <3>5. act \in [Sigs -> Actions \cup {DFL}]
      BY DEF MaskInv, ActsAre
    <3>6. act[s].reset => Ignored = {}
      <4>1. DFL.reset = FALSE
        BY DEF DFL
      <4> QED  BY <2>1, <3>5, <4>1 DEF SuspendsOpen
    <3>7. ActsAre'
      BY <2>6, <3>5 DEF ActsAre
    <3>8. ASSUME NEW x \in Sigs, would_act(x)
          PROVE  would_act(x)'
      <4>1. DFL.handler = "dfl"
        BY DEF DFL
      <4>2. act'[x] = act[x] \/ (act'[x] = DFL /\ Ignored = {})
        BY <2>6, <3>5, <3>6
      <4> QED  BY <3>8, <4>1, <4>2 DEF would_act, Fatal
    <3>9. Acting'
      <4> SUFFICES ASSUME "sigsuspend" \in calls, NEW u \in Threads, NEW x \in th'[u].pending
                   PROVE  would_act(x)'
        BY <1>1 DEF Acting
      <4>1. x \in th[u].pending /\ x \in Sigs
        BY <3>4 DEF Types, Rec
      <4> QED  BY <3>8, <4>1 DEF MaskInv, Acting
    <3> QED  BY <3>3, <3>7, <3>9 DEF MaskInv
  <2> QED  BY <2>3, <2>4, <2>5, <2>6
<1> QED  BY <1>2, <1>3

\* The mask that the last handler interrupted comes back.
LEMMA SigreturnMask ==
  ASSUME Types, MaskInv, NEW t \in Threads, sigreturn(t)
  PROVE  MaskInv'
<1> DEFINE r == th[t]
           f == r.frames[Len(r.frames)]
           fs == SubSeq(r.frames, 1, Len(r.frames) - 1)
           n == [r EXCEPT !.pc = "ret", !.mask = f.mask, !.suspended = FALSE, !.again = f.again, !.frames = fs]
<1>1. r \in Rec /\ r.frames # <<>> /\ MaskOk(r) /\ UNCHANGED <<act, calls>> /\ th' = [th EXCEPT ![t] = n]
  BY DEF sigreturn, Restored, Types, MaskInv, Other
<1>2. r.frames \in Seq(Frame) /\ Len(r.frames) \in Nat \ {0}
  BY <1>1 DEF Rec
<1>3. fs \in Seq(Frame) /\ Len(fs) = Len(r.frames) - 1 /\ \A k \in 1 .. Len(fs) : fs[k] = r.frames[k]
  BY <1>2, SubSeqProperties
<1>4. fs = <<>> => f = r.frames[1]
  <2> HIDE DEF fs
  <2>1. fs = <<>> => Len(fs) = 0
    OBVIOUS
  <2>2. Len(fs) = 0 => Len(r.frames) = 1
    BY <1>2, <1>3
  <2> QED  BY <2>1, <2>2 DEF fs
<1>5. fs # <<>> => fs[1] = r.frames[1]
  BY <1>2, <1>3
<1> HIDE DEF f, fs
<1>6. /\ n.pc = "ret" /\ n.mask = f.mask /\ n.suspended = FALSE /\ n.frames = fs
      /\ n.want = r.want /\ n.pending = r.pending
  BY <1>1 DEF Rec
<1> HIDE DEF n
<1>7. MaskOk(n)
  BY <1>1, <1>4, <1>5, <1>6 DEF MaskOk
<1>8. \A u \in Threads : MaskOk(th[u])'
  BY <1>1, <1>7, OneMaskOk
<1>9. \A u \in Threads : th'[u].pending = th[u].pending
  BY <1>1, <1>6 DEF Types
<1>10. Acting'
  BY <1>1, <1>9 DEF MaskInv, Acting, would_act, Fatal
<1> QED  BY <1>1, <1>8, <1>10 DEF MaskInv, ActsAre

\* rt_sigaction is not called by programs that call rt_sigsuspend.
LEMMA SigactionMask ==
  ASSUME SuspendsOpen, Types, MaskInv, NEW t \in Threads, NEW s \in Sigs, NEW a \in Actions,
         sys_sigaction(t, s, a)
  PROVE  MaskInv'
<1> DEFINE r == th[t]
           P == IF a.handler = "ign" THEN r.pending \ {s} ELSE r.pending
           n == [r EXCEPT !.pc = "ret", !.pending = P]
<1>1. r \in Rec /\ r.pc = "user" /\ UNCHANGED calls /\ MaskOk(r) /\ th' = [th EXCEPT ![t] = n]
  BY DEF sys_sigaction, Calls, Types, MaskInv
<1>2. "sigsuspend" \notin calls
  BY DEF sys_sigaction, Calls, May, SuspendsOpen, Types
<1> HIDE DEF P
<1>3. Same(r, n) /\ n.pc = "ret"
  BY <1>1 DEF Rec, Same
<1> HIDE DEF n
<1>4. MaskOk(n)
  BY <1>1, <1>3 DEF MaskOk, Same
<1>5. \A u \in Threads : MaskOk(th[u])'
  BY <1>1, <1>4, OneMaskOk
<1>6. ActsAre'
  BY DEF MaskInv, ActsAre, sys_sigaction
<1> QED  BY <1>1, <1>2, <1>5, <1>6 DEF MaskInv, Acting

\* One thread of a program gets another mask, and nothing else happens.
LEMMA OneMaskInv ==
  ASSUME Types, MaskInv, NEW t \in Threads, NEW n, th' = [th EXCEPT ![t] = n], MaskOk(n),
         n.pending = th[t].pending, UNCHANGED <<act, calls>>
  PROVE  MaskInv'
<1>1. \A u \in Threads : MaskOk(th[u])'
  BY OneMaskOk
<1>2. \A u \in Threads : th'[u].pending = th[u].pending
  BY DEF Types
<1>3. Acting'
  BY <1>2 DEF MaskInv, Acting, would_act, Fatal
<1> QED  BY <1>1, <1>3 DEF MaskInv, ActsAre

\* rt_sigprocmask: the new mask is what is asked for.
LEMMA SigprocmaskMask ==
  ASSUME Types, MaskInv, NEW t \in Threads, NEW m \in Masks, sys_sigprocmask(t, m)
  PROVE  MaskInv'
<1> DEFINE r == th[t]
           n == [r EXCEPT !.pc = "ret", !.mask = m, !.want = m]
<1>1. r \in Rec /\ r.pc = "user" /\ r.frames = <<>> /\ MaskOk(r)
  BY DEF sys_sigprocmask, Calls, Types, MaskInv
<1>2. th' = [th EXCEPT ![t] = n] /\ UNCHANGED <<act, calls>>
  BY DEF sys_sigprocmask, Types, Other
<1>3. /\ n.pc = "ret" /\ n.mask = m /\ n.want = m /\ n.frames = r.frames
      /\ n.suspended = r.suspended /\ n.pending = r.pending
  BY <1>1 DEF Rec
<1> HIDE DEF n
<1>4. MaskOk(n)
  BY <1>1, <1>3 DEF MaskOk
<1> QED  BY <1>2, <1>3, <1>4, OneMaskInv

\* rt_sigsuspend: the old mask is saved.
LEMMA SuspendMask ==
  ASSUME SuspendsOpen, Types, MaskInv, NEW t \in Threads, NEW m \in SuspendMasks, sig_suspend(t, m)
  PROVE  MaskInv'
<1> DEFINE r == th[t]
           pc == IF r.pending \subseteq m THEN "SigWait" ELSE "ret"
           n == [r EXCEPT !.saved = r.mask, !.suspended = TRUE, !.mask = m, !.pc = pc]
<1>1. r \in Rec /\ r.pc = "user" /\ r.frames = <<>> /\ MaskOk(r)
  BY DEF sig_suspend, Calls, Types, MaskInv
<1>2. th' = [th EXCEPT ![t] = n] /\ UNCHANGED <<act, calls>>
  BY DEF sig_suspend, Other
<1>3. m = {}
  BY DEF SuspendsOpen
<1>4. "sigsuspend" \in calls
  BY DEF sig_suspend, Calls, May
<1>5. pc = "SigWait" \/ (pc = "ret" /\ r.pending # {})
  BY <1>3
<1>6. r.mask = r.want
  BY <1>1 DEF MaskOk
<1> HIDE DEF pc
<1>7. /\ n.pc = pc /\ n.mask = m /\ n.want = r.want /\ n.frames = r.frames
      /\ n.suspended = TRUE /\ n.saved = r.mask /\ n.pending = r.pending
  BY <1>1 DEF Rec
<1> HIDE DEF n
<1>8. MaskOk(n)
  BY <1>1, <1>3, <1>4, <1>5, <1>6, <1>7 DEF MaskOk
<1> QED  BY <1>2, <1>7, <1>8, OneMaskInv

\* A process makes the same calls as long as it lives.
LEMMA CallsStay == [Next]_vars => UNCHANGED calls
<1>1. ASSUME NEW s \in Sigs, post(s) \/ (\E to \in Threads, thread \in BOOLEAN : look(to, s, thread))
      PROVE  UNCHANGED calls
  BY <1>1 DEF post, look, Other
<1>2. CASE send \/ io_wake
  BY <1>2 DEF send, io_wake
<1>3. ASSUME NEW t \in Threads,
             interrupt(t) \/ sigreturn(t) \/ sleep_ticks(t) \/ wait_child(t) \/ child_exits(t)
      PROVE  UNCHANGED calls
  BY <1>3 DEF interrupt, sigreturn, sleep_ticks, wait_child, child_exits, Other
<1>4. ASSUME NEW t \in Threads,
             deliver(t) \/ read(t) \/ wait_ready_fault(t)
      PROVE  UNCHANGED calls
  BY <1>4 DEF deliver, read, wait_ready_fault, Other
<1>5. ASSUME NEW t \in Threads,
             \E s \in Sigs, a \in Actions : sys_sigaction(t, s, a)
      PROVE  UNCHANGED calls
  BY <1>5 DEF sys_sigaction, Other
<1>6. ASSUME NEW t \in Threads,
             (\E m \in Masks : sys_sigprocmask(t, m)) \/ (\E m \in SuspendMasks : sig_suspend(t, m))
      PROVE  UNCHANGED calls
  <2>1. ASSUME NEW m \in Masks, sys_sigprocmask(t, m) PROVE UNCHANGED calls
    BY <2>1 DEF sys_sigprocmask, Other
  <2>2. ASSUME NEW m \in SuspendMasks, sig_suspend(t, m) PROVE UNCHANGED calls
    BY <2>2 DEF sig_suspend, Other
  <2> QED  BY <1>6, <2>1, <2>2
<1>7. ASSUME NEW t \in Threads,
             io_wait(t) \/ wake_sleepers(t) \/ \E timed \in BOOLEAN : wait_ready(t, timed)
      PROVE  UNCHANGED calls
  <2>1. CASE io_wait(t) \/ wake_sleepers(t)
    BY <2>1 DEF io_wait, wake_sleepers, Other
  <2>2. ASSUME NEW timed \in BOOLEAN, wait_ready(t, timed) PROVE UNCHANGED calls
    BY <2>2 DEF wait_ready, Other
  <2> QED  BY <1>7, <2>1, <2>2
<1>8. ASSUME NEW t \in Threads,
             \E w \in Words, v \in 0 .. 1, timed \in BOOLEAN : futex_wait_ticks(t, w, v, timed)
      PROVE  UNCHANGED calls
  BY <1>8 DEF futex_wait_ticks, Other
<1>9. ASSUME NEW t \in Threads,
             store(t) \/ futex_wake(t) \/ exit_locked(t)
      PROVE  UNCHANGED calls
  BY <1>9 DEF store, futex_wake, exit_locked, Other
<1> QED  BY <1>1, <1>2, <1>3, <1>4, <1>5, <1>6, <1>7, <1>8, <1>9 DEF Next, vars

\* Every step keeps MaskInv.
LEMMA MaskInvAlways == SuspendsOpen /\ Types /\ MaskInv /\ [Next]_vars => MaskInv'
<1> SUFFICES ASSUME SuspendsOpen, Types, MaskInv, [Next]_vars PROVE MaskInv'
  OBVIOUS
<1>1. CASE AllCalm /\ UNCHANGED act
  BY <1>1, CallsStay, CalmKeepsInv
<1> QED  BY <1>1, CalmNext, DeliverMask, SigreturnMask, SigactionMask, SigprocmaskMask,
         SuspendMask

\* Once its handlers have returned a program has the mask it asked for, whatever
\* rt_sigsuspend put in its place (sig_suspend, deliver, sigreturn): of programs that let every signal
\* through while they wait. A signal that the mask of rt_sigsuspend blocks ends the
\* wait as well (process.rs:1486) and no handler brings the old mask back.
THEOREM MasksRestored ==
  ASSUME SuspendsOpen
  PROVE  Spec => []MaskRestored
<1>1. Init => Types /\ MaskInv
  <2> SUFFICES ASSUME Init PROVE MaskInv
    BY InitTypes
  <2>1. /\ Fresh.frames = <<>> /\ Fresh.suspended = FALSE /\ Fresh.mask = {} /\ Fresh.want = {}
        /\ Fresh.pc = "user" /\ Fresh.pending = {}
    BY DEF Fresh
  <2>2. MaskOk(Fresh)
    BY <2>1 DEF MaskOk
  <2> QED  BY <2>1, <2>2 DEF Init, MaskInv, Acting, ActsAre
<1>2. Types /\ MaskInv /\ [Next]_vars => Types' /\ MaskInv'
  BY TypesAlways, MaskInvAlways
<1>3. Types /\ MaskInv => MaskRestored
  BY DEF MaskInv, MaskOk, MaskRestored
<1> QED  BY <1>1, <1>2, <1>3, PTL DEF Spec
=============================================================================
