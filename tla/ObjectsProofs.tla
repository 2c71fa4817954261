--------------------------- MODULE ObjectsProofs ----------------------------
(***************************************************************************)
(* Proofs about the composition MCObjects, for every value of its          *)
(* constants. Local sockets: the counters of ends and listeners are exact, *)
(* and no wake-up of a reader or of an accept is lost as long as PENDING   *)
(* has room for every key.                                                 *)
(***************************************************************************)
EXTENDS MCObjects, FiniteSetTheorems, SequenceTheorems, TLAPS

mcVars == <<part, vars, sockets, areas, tables, devices, display>>

\* A step of the composition is a step of the sockets or leaves them alone.
LEMMA StepOfSockets == [MCNext]_mcVars => part' = part /\ [Unix!Next]_sockets
  BY DEF MCNext, mcVars, sockets

-----------------------------------------------------------------------------
(* Sequences and finite sets. *)

\* No connection twice in a backlog.
Distinct(s) == \A m, n \in DOMAIN s : s[m] = s[n] => m = n

\* A connection more at the end of a backlog, one less at its head.
LEMMA AppendSet ==
    ASSUME NEW S, NEW s \in Seq(S), NEW c \in S
    PROVE  /\ Append(s, c) \in Seq(S)
           /\ Append(s, c) # <<>>
           /\ Unix!ToSet(Append(s, c)) = Unix!ToSet(s) \cup {c}
           /\ Distinct(s) /\ c \notin Unix!ToSet(s) => Distinct(Append(s, c))
<1> DEFINE t == Append(s, c)
<1>1. /\ t \in Seq(S) /\ Len(s) \in Nat /\ Len(t) = Len(s) + 1
      /\ \A n \in 1 .. Len(s) : t[n] = s[n]
      /\ t[Len(s) + 1] = c
  BY AppendProperties, LenProperties
<1>2. DOMAIN s = 1 .. Len(s) /\ DOMAIN t = 1 .. Len(t)
  BY <1>1, LenProperties
<1>3. t # <<>>
  BY <1>1, EmptySeq
<1> HIDE DEF t
<1>4. Unix!ToSet(t) = Unix!ToSet(s) \cup {c}
  BY <1>1, <1>2 DEF Unix!ToSet
<1>5. ASSUME Distinct(s), c \notin Unix!ToSet(s) PROVE Distinct(t)
  <2> SUFFICES ASSUME NEW m \in DOMAIN t, NEW n \in DOMAIN t, t[m] = t[n] PROVE m = n
    BY DEF Distinct
  <2>1. \A k \in DOMAIN s : t[k] = s[k] /\ t[k] # c
    BY <1>1, <1>2, <1>5 DEF Unix!ToSet
  <2>2. CASE m \in DOMAIN s /\ n \in DOMAIN s
    BY <2>1, <2>2, <1>5 DEF Distinct
  <2>3. CASE m \notin DOMAIN s \/ n \notin DOMAIN s
    <3>1. \A k \in DOMAIN t : k \notin DOMAIN s => k = Len(s) + 1
      BY <1>1, <1>2
    <3> QED
      BY <1>1, <2>1, <2>3, <3>1
  <2> QED
    BY <2>2, <2>3
<1> QED
  BY <1>1, <1>3, <1>4, <1>5 DEF t

LEMMA TailSet ==
    ASSUME NEW S, NEW s \in Seq(S), s # <<>>
    PROVE  /\ Tail(s) \in Seq(S)
           /\ Head(s) \in Unix!ToSet(s)
           /\ Distinct(s) => /\ Distinct(Tail(s))
                                /\ Unix!ToSet(Tail(s)) = Unix!ToSet(s) \ {Head(s)}
<1> DEFINE t == Tail(s)
<1>1. /\ t \in Seq(S) /\ Len(s) \in Nat \ {0} /\ Len(t) = Len(s) - 1
      /\ \A n \in 1 .. Len(t) : t[n] = s[n + 1]
      /\ Head(s) = s[1]
  BY HeadTailProperties, LenProperties, EmptySeq
<1>2. DOMAIN s = 1 .. Len(s) /\ DOMAIN t = 1 .. Len(t)
  BY <1>1, LenProperties
<1>3. Head(s) \in Unix!ToSet(s)
  BY <1>1, <1>2 DEF Unix!ToSet
<1> HIDE DEF t
<1>4. ASSUME Distinct(s) PROVE Distinct(t) /\ Unix!ToSet(t) = Unix!ToSet(s) \ {Head(s)}
  <2>1. \A n \in DOMAIN t : n + 1 \in DOMAIN s /\ t[n] = s[n + 1] /\ t[n] # s[1]
    <3> SUFFICES ASSUME NEW n \in DOMAIN t
                 PROVE  n + 1 \in DOMAIN s /\ t[n] = s[n + 1] /\ t[n] # s[1]
      OBVIOUS
    <3>1. n \in Nat /\ n >= 1 /\ n + 1 \in DOMAIN s /\ 1 \in DOMAIN s /\ t[n] = s[n + 1]
      BY <1>1, <1>2
    <3>2. n + 1 # 1
      BY <3>1
    <3> QED
      BY <3>1, <3>2, <1>4 DEF Distinct
  <2>2. Distinct(t)
    <3> SUFFICES ASSUME NEW m \in DOMAIN t, NEW n \in DOMAIN t, t[m] = t[n] PROVE m = n
      BY DEF Distinct
    <3>1. m + 1 = n + 1
      BY <2>1, <1>4 DEF Distinct
    <3>2. m \in Nat /\ n \in Nat
      BY <1>1, <1>2
    <3> QED
      BY <3>1, <3>2
  <2>3. Unix!ToSet(t) \subseteq Unix!ToSet(s) \ {Head(s)}
    BY <2>1, <1>1 DEF Unix!ToSet
  <2>4. ASSUME NEW c \in Unix!ToSet(s), c # Head(s) PROVE c \in Unix!ToSet(t)
    <3>1. PICK m \in DOMAIN s : c = s[m]
      BY DEF Unix!ToSet
    <3>2. m \in Nat /\ m # 1 /\ m - 1 \in DOMAIN t /\ (m - 1) + 1 = m
      BY <1>1, <1>2, <2>4, <3>1
    <3>3. t[m - 1] = s[m]
      BY <2>1, <3>2
    <3> QED
      BY <3>1, <3>2, <3>3 DEF Unix!ToSet
  <2> QED
    BY <2>2, <2>3, <2>4
<1> QED
  BY <1>1, <1>3, <1>4 DEF t

\* An element more, an element less.
LEMMA SetPlus ==
    ASSUME NEW S, IsFiniteSet(S), NEW e
    PROVE  /\ Cardinality(S) \in Nat
           /\ e \notin S => Cardinality(S \cup {e}) = Cardinality(S) + 1
           /\ e \in S => Cardinality(S \ {e}) = Cardinality(S) - 1
           /\ Cardinality(S) = 0 <=> S = {}
  BY FS_CardinalityType, FS_AddElement, FS_RemoveElement, FS_EmptySet

-----------------------------------------------------------------------------
(* Keys and types of the sockets. *)

\* The ends are finitely many, and so are the listeners.
LEMMA FiniteKeys == IsFiniteSet(Keys)
<1> DEFINE E(e) == {<<"u", c, e>> : c \in Conns}
           L    == {<<"l", i>> : i \in Listeners}
           f(e) == [c \in Conns |-> <<"u", c, e>>]
           g    == [i \in Listeners |-> <<"l", i>>]
<1>1. \A e : f(e) \in Surjection(Conns, E(e))
  BY DEF Surjection
<1>2. g \in Surjection(Listeners, L)
  BY DEF Surjection
<1>3. Keys = E(0) \cup E(1) \cup L
  BY DEF Keys
<1> HIDE DEF E, L, f, g
<1>4. IsFiniteSet(E(0)) /\ IsFiniteSet(E(1)) /\ IsFiniteSet(L)
  BY <1>1, <1>2, TalkersAssumption, FS_Surjection
<1> QED
  BY <1>3, <1>4, FS_Union

\* Every key is an end of a connection or a listener, never both.
LEMMA SocketKeys ==
    /\ IsFiniteSet(Keys)
    /\ Unix!NoKey \notin Keys
    /\ \A x \in Unix!Ends : /\ x \in Keys /\ Unix!Peer(x) \in Unix!Ends
                            /\ Unix!Peer(x) # x /\ Unix!Peer(Unix!Peer(x)) = x
                            /\ x[2] \in Conns /\ x[3] \in 0 .. 1
                            /\ x = Unix!key_r(x[2], x[3])
                            /\ Unix!Peer(x)[2] = x[2]
    /\ \A c \in Conns, e \in 0 .. 1 : /\ Unix!key_r(c, e) \in Unix!Ends
                                      /\ Unix!key_r(c, e)[2] = c
                                      /\ Unix!key_r(c, e)[3] = e
    /\ \A i \in Listeners : Unix!key_l(i) \in Keys /\ Unix!key_l(i) \notin Unix!Ends
    /\ \A i, j \in Listeners : Unix!key_l(i) = Unix!key_l(j) => i = j
    /\ \A k \in Keys : k \in Unix!Ends \/ \E i \in Listeners : k = Unix!key_l(i)
<1>1. IsFiniteSet(Keys)
  BY FiniteKeys
<1>2. \A x \in Unix!Ends : /\ x \in Keys /\ Unix!Peer(x) \in Unix!Ends
                            /\ Unix!Peer(x) # x /\ Unix!Peer(Unix!Peer(x)) = x
                            /\ x[2] \in Conns /\ x[3] \in 0 .. 1
                            /\ x = Unix!key_r(x[2], x[3])
                            /\ Unix!Peer(x)[2] = x[2]
  BY DEF Unix!Ends, Unix!Peer, Unix!key_r, Keys
<1>3. \A c \in Conns, e \in 0 .. 1 : /\ Unix!key_r(c, e) \in Unix!Ends
                                      /\ Unix!key_r(c, e)[2] = c
                                      /\ Unix!key_r(c, e)[3] = e
  BY DEF Unix!Ends, Unix!key_r
<1>4. \A i \in Listeners : Unix!key_l(i) \in Keys /\ Unix!key_l(i) \notin Unix!Ends
  BY DEF Unix!Ends, Unix!key_r, Unix!key_l, Keys
<1>5. \A i, j \in Listeners : Unix!key_l(i) = Unix!key_l(j) => i = j
  BY DEF Unix!key_l
<1>6. \A k \in Keys : k \in Unix!Ends \/ \E i \in Listeners : k = Unix!key_l(i)
  BY DEF Keys, Unix!Ends, Unix!key_r, Unix!key_l
<1>7. Unix!NoKey \notin Keys
  BY DEF Keys, Unix!NoKey
<1> QED
  BY <1>1, <1>2, <1>3, <1>4, <1>5, <1>6, <1>7

\* The calls that can block.
SocketCalls == ({"read", "write"} \X Unix!Ends) \cup
               {<<"accept", Unix!key_l(i)>> : i \in Listeners}

SocketIoTypes ==
    /\ upc \in [Talkers -> Unix!PCs]
    /\ call \in [Talkers -> SocketCalls \cup {Unix!NoCall}]
    /\ key \in [Talkers -> Keys \cup {Unix!NoKey}]
    /\ moved \in [Talkers -> BOOLEAN]
    /\ pending \in SUBSET Keys
    /\ taken \in [Talkers -> SUBSET Keys]

SocketTypes ==
    /\ SocketIoTypes
    /\ len \in [Unix!Ends -> Nat]
    /\ eof \in [Unix!Ends -> BOOLEAN]
    /\ refs \in [Unix!Ends -> Nat]
    /\ lrefs \in [Listeners -> Nat]
    /\ backlog \in [Listeners -> Seq(Conns)]
    /\ ufds \in [Talkers -> SUBSET Keys]

-----------------------------------------------------------------------------
(* The counters of ends and listeners. *)

\* Who holds an end or a listener open, and the backlogs an end waits in.
OpenIn(x)    == {r \in Talkers : x \in ufds[r]}
WaitingIn(x) == {i \in Listeners : x \in Unix!Waiting(i)}

\* A connection of a backlog is there once, in no other backlog, and nobody
\* has its end yet; a listener nobody has open keeps no backlog.
Unaccepted ==
    \A i \in Listeners :
        /\ Distinct(backlog[i])
        /\ lrefs[i] = 0 => backlog[i] = <<>>
        /\ \A c \in Unix!ToSet(backlog[i]) :
              /\ \A r \in Talkers : Unix!key_r(c, 1) \notin ufds[r]
              /\ \A j \in Listeners \ {i} : c \notin Unix!ToSet(backlog[j])

\* A dying or dead process has no descriptors.
DeadTalkers == \A r \in Talkers : upc[r] \in {"exit", "dead"} => ufds[r] = {}

\* What the counters rest on.
SocketCounts == SocketTypes /\ Unix!RefsExact /\ Unaccepted /\ DeadTalkers

\* The counters in terms of those sets, and their sizes.
LEMMA HoldersFinite ==
    ASSUME NEW x
    PROVE  IsFiniteSet(OpenIn(x)) /\ IsFiniteSet(WaitingIn(x))
<1>1. OpenIn(x) \subseteq Talkers /\ WaitingIn(x) \subseteq Listeners
  BY DEF OpenIn, WaitingIn
<1> QED
  BY <1>1, TalkersAssumption, FS_Subset

LEMMA HoldersFiniteNext ==
    ASSUME NEW x
    PROVE  IsFiniteSet(OpenIn(x)') /\ IsFiniteSet(WaitingIn(x)')
<1>1. OpenIn(x)' \subseteq Talkers /\ WaitingIn(x)' \subseteq Listeners
  BY DEF OpenIn, WaitingIn
<1> QED
  BY <1>1, TalkersAssumption, FS_Subset

LEMMA SameSize == \A S : Unix!Cardinality(S) = Cardinality(S)
  BY DEF Cardinality, Unix!Cardinality

LEMMA ExactIs ==
    Unix!RefsExact <=>
      /\ \A x \in Unix!Ends :
            refs[x] = Cardinality(OpenIn(x)) + Cardinality(WaitingIn(x))
      /\ \A i \in Listeners : lrefs[i] = Cardinality(OpenIn(Unix!key_l(i)))
  BY SameSize DEF Unix!RefsExact, OpenIn, WaitingIn

LEMMA ExactIsNext ==
    Unix!RefsExact' <=>
      /\ \A x \in Unix!Ends :
            refs'[x] = Cardinality(OpenIn(x)') + Cardinality(WaitingIn(x)')
      /\ \A i \in Listeners : lrefs'[i] = Cardinality(OpenIn(Unix!key_l(i))')
<1>1. \A x \in Unix!Ends : /\ OpenIn(x)' = {r \in Talkers : x \in ufds'[r]}
                           /\ WaitingIn(x)' = {i \in Listeners : x \in Unix!Waiting(i)'}
  BY DEF OpenIn, WaitingIn
<1>2. \A i \in Listeners :
         OpenIn(Unix!key_l(i))' = {r \in Talkers : Unix!key_l(i) \in ufds'[r]}
  BY DEF OpenIn, Unix!key_l
<1> QED
  BY <1>1, <1>2, SameSize DEF Unix!RefsExact

\* How the number of holders follows the sets.
LEMMA OpenChange ==
    ASSUME NEW x, NEW r \in Talkers
    PROVE  /\ OpenIn(x)' = OpenIn(x) \cup {r} /\ r \notin OpenIn(x)
                => Cardinality(OpenIn(x)') = Cardinality(OpenIn(x)) + 1
           /\ OpenIn(x)' = OpenIn(x) \ {r} /\ r \in OpenIn(x)
                => Cardinality(OpenIn(x)') = Cardinality(OpenIn(x)) - 1
           /\ OpenIn(x)' = OpenIn(x)
                => Cardinality(OpenIn(x)') = Cardinality(OpenIn(x))
  BY HoldersFinite, SetPlus

LEMMA WaitingChange ==
    ASSUME NEW x, NEW i \in Listeners
    PROVE  /\ WaitingIn(x)' = WaitingIn(x) \cup {i} /\ i \notin WaitingIn(x)
                => Cardinality(WaitingIn(x)') = Cardinality(WaitingIn(x)) + 1
           /\ WaitingIn(x)' = WaitingIn(x) \ {i} /\ i \in WaitingIn(x)
                => Cardinality(WaitingIn(x)') = Cardinality(WaitingIn(x)) - 1
           /\ WaitingIn(x)' = WaitingIn(x)
                => Cardinality(WaitingIn(x)') = Cardinality(WaitingIn(x))
  BY HoldersFinite, SetPlus

\* An end waits in the backlogs its connection is in, and only end 1 does.
LEMMA WaitingIs ==
    ASSUME SocketTypes, NEW x \in Unix!Ends
    PROVE  WaitingIn(x) = IF x[3] = 1 THEN {i \in Listeners : x[2] \in Unix!ToSet(backlog[i])}
                                      ELSE {}
<1>1. \A i \in Listeners : Unix!ToSet(backlog[i]) \subseteq Conns
  BY ElementOfSeq, LenProperties DEF SocketTypes, Unix!ToSet
<1>2. \A c \in Conns : x = Unix!key_r(c, 1) <=> x[2] = c /\ x[3] = 1
  BY SocketKeys
<1> QED
  BY <1>1, <1>2 DEF WaitingIn, Unix!Waiting

LEMMA WaitingWillBe ==
    ASSUME backlog' \in [Listeners -> Seq(Conns)], NEW x \in Unix!Ends
    PROVE  WaitingIn(x)' = IF x[3] = 1 THEN {i \in Listeners : x[2] \in Unix!ToSet(backlog'[i])}
                                       ELSE {}
<1>1. \A i \in Listeners : Unix!ToSet(backlog'[i]) \subseteq Conns
  BY ElementOfSeq, LenProperties DEF Unix!ToSet
<1>2. \A c \in Conns : x = Unix!key_r(c, 1) <=> x[2] = c /\ x[3] = 1
  BY SocketKeys
<1> QED
  BY <1>1, <1>2 DEF WaitingIn, Unix!Waiting

LEMMA WaitingIsNext ==
    ASSUME SocketTypes', NEW x \in Unix!Ends
    PROVE  WaitingIn(x)' = IF x[3] = 1 THEN {i \in Listeners : x[2] \in Unix!ToSet(backlog'[i])}
                                       ELSE {}
  BY WaitingWillBe DEF SocketTypes

-----------------------------------------------------------------------------
(* Types of the wait protocol. *)

\* PENDING keeps to the keys, whether or not it overflows.
LEMMA SocketEnqueue ==
    ASSUME pending \in SUBSET Keys, NEW K \in SUBSET Keys, Unix!Enqueue(K)
    PROVE  pending' \in SUBSET Keys
  BY DEF Unix!Enqueue

\* The end of a call in "flush", with or without a key.
LEMMA SocketDoneTypes ==
    ASSUME SocketIoTypes, NEW r \in Talkers, Unix!Done(r),
           NEW K \in SUBSET Keys, Unix!push_wake(K) \/ Unix!NoWake
    PROVE  /\ SocketIoTypes'
           /\ \A s \in Talkers : upc'[s] \in {"exit", "dead"} => upc[s] \in {"exit", "dead"}
<1>1. pending' \in SUBSET Keys
  BY SocketEnqueue DEF Unix!push_wake, Unix!NoWake, SocketIoTypes
<1>2. moved' \in [Talkers -> BOOLEAN]
  BY DEF Unix!push_wake, Unix!NoWake, Unix!Bump, SocketIoTypes
<1> QED
  BY <1>1, <1>2 DEF SocketIoTypes, Unix!Done, Unix!PCs

\* The same for a call that must wait.
LEMMA SocketBlockTypes ==
    ASSUME SocketIoTypes, NEW r \in Talkers, NEW c \in SocketCalls, NEW k \in Keys,
           Unix!would_block(r, c, k)
    PROVE  /\ SocketIoTypes'
           /\ \A s \in Talkers : upc'[s] \in {"exit", "dead"} => upc[s] \in {"exit", "dead"}
  BY DEF Unix!would_block, SocketIoTypes, Unix!PCs

\* The steps of the protocol keep the types.
LEMMA SocketProtocolTypes ==
    ASSUME SocketIoTypes, NEW r \in Talkers, Unix!IoNext(r)
    PROVE  /\ SocketIoTypes'
           /\ \A s \in Talkers : upc'[s] \in {"exit", "dead"} => upc[s] \in {"exit", "dead"}
<1> USE DEF SocketIoTypes, Unix!PCs
<1>1. CASE Unix!take_wakes(r)
  BY <1>1 DEF Unix!take_wakes, Unix!AfterFlush
<1>2. CASE Unix!io_wake(r)
  <2>1. PICK k \in taken[r] :
           /\ taken' = [taken EXCEPT ![r] = @ \ {k}]
           /\ upc' = Unix!Awaken({k}, IF taken[r] = {k}
                                     THEN [upc EXCEPT ![r] = Unix!AfterFlush(r)] ELSE upc)
           /\ key' = Unix!ForgetKey({k})
    BY <1>2 DEF Unix!io_wake
  <2>2. upc' \in [Talkers -> Unix!PCs]
    BY <2>1 DEF Unix!Awaken, Unix!AfterFlush
  <2>3. key' \in [Talkers -> Keys \cup {Unix!NoKey}]
    BY <2>1 DEF Unix!ForgetKey
  <2>4. taken' \in [Talkers -> SUBSET Keys]
    BY <2>1
  <2>5. \A s \in Talkers : upc'[s] \in {"exit", "dead"} => upc[s] \in {"exit", "dead"}
    BY <2>1 DEF Unix!Awaken, Unix!AfterFlush
  <2> QED
    BY <1>2, <2>2, <2>3, <2>4, <2>5 DEF Unix!io_wake
<1>3. CASE Unix!io_wait_until(r)
  BY <1>3 DEF Unix!io_wait_until
<1>4. CASE Unix!exit_flush(r)
  <2>1. upc' = [Unix!Awaken(pending, upc) EXCEPT ![r] = "dead"] /\ key' = Unix!ForgetKey(pending)
    BY <1>4 DEF Unix!exit_flush
  <2>2. upc' \in [Talkers -> Unix!PCs]
    BY <2>1 DEF Unix!Awaken
  <2>3. key' \in [Talkers -> Keys \cup {Unix!NoKey}]
    BY <2>1 DEF Unix!ForgetKey
  <2>4. \A s \in Talkers : upc'[s] \in {"exit", "dead"} => upc[s] \in {"exit", "dead"}
    BY <2>1, <1>4 DEF Unix!Awaken, Unix!exit_flush
  <2> QED
    BY <1>4, <2>2, <2>3, <2>4 DEF Unix!exit_flush
<1> QED
  BY <1>1, <1>2, <1>3, <1>4 DEF Unix!IoNext

-----------------------------------------------------------------------------
(* The counters are exact: steps that leave descriptors and backlogs alone. *)

LEMMA SameCounts ==
    ASSUME SocketCounts, SocketIoTypes', len' \in [Unix!Ends -> Nat],
           eof' \in [Unix!Ends -> BOOLEAN], UNCHANGED <<refs, lrefs, backlog, ufds>>,
           \A s \in Talkers : upc'[s] \in {"exit", "dead"} => upc[s] \in {"exit", "dead"}
    PROVE  SocketCounts'
<1> USE DEF SocketCounts
<1>1. SocketTypes'
  BY DEF SocketTypes
<1>2. Unix!RefsExact'
  BY DEF Unix!RefsExact, Unix!Waiting
<1>3. Unaccepted'
  BY DEF Unaccepted
<1>4. DeadTalkers'
  BY DEF DeadTalkers
<1> QED
  BY <1>1, <1>2, <1>3, <1>4

LEMMA ProtocolCounts ==
    ASSUME SocketCounts, NEW r \in Talkers, Unix!Protocol(r)
    PROVE  SocketCounts'
<1>1. Unix!IoNext(r) /\ UNCHANGED <<len, eof, refs, lrefs, backlog, ufds>>
  BY DEF Unix!Protocol, Unix!unixVars
<1>2. SocketIoTypes /\ len \in [Unix!Ends -> Nat] /\ eof \in [Unix!Ends -> BOOLEAN]
  BY DEF SocketCounts, SocketTypes
<1> QED
  BY <1>1, <1>2, SocketProtocolTypes, SameCounts

LEMMA ReadCounts ==
    ASSUME SocketCounts, NEW r \in Talkers, NEW x \in Unix!Ends, Unix!read(r, x)
    PROVE  SocketCounts'
<1>1. SocketIoTypes /\ len \in [Unix!Ends -> Nat] /\ eof \in [Unix!Ends -> BOOLEAN]
  BY DEF SocketCounts, SocketTypes
<1>2. x \in Keys /\ {Unix!Peer(x)} \in SUBSET Keys /\ {} \in SUBSET Keys
      /\ <<"read", x>> \in SocketCalls
  BY SocketKeys DEF SocketCalls
<1>3. UNCHANGED <<eof, refs, lrefs, backlog, ufds>>
  BY DEF Unix!read
<1>4. \/ Unix!Done(r) /\ Unix!NoWake /\ len' = len
      \/ Unix!would_block(r, <<"read", x>>, x) /\ len' = len
      \/ /\ \E n \in 1 .. len[x] : len' = [len EXCEPT ![x] = @ - n]
         /\ Unix!Done(r) /\ Unix!push_wake({Unix!Peer(x)})
  BY DEF Unix!read
<1>5. len' \in [Unix!Ends -> Nat]
  BY <1>1, <1>4
<1>6. /\ SocketIoTypes'
      /\ \A s \in Talkers : upc'[s] \in {"exit", "dead"} => upc[s] \in {"exit", "dead"}
  <2>1. CASE Unix!Done(r) /\ Unix!NoWake
    BY <1>1, <1>2, <2>1, SocketDoneTypes
  <2>2. CASE Unix!would_block(r, <<"read", x>>, x)
    BY <1>1, <1>2, <2>2, SocketBlockTypes
  <2>3. CASE Unix!Done(r) /\ Unix!push_wake({Unix!Peer(x)})
    BY <1>1, <1>2, <2>3, SocketDoneTypes
  <2> QED
    BY <1>4, <2>1, <2>2, <2>3
<1> QED
  BY <1>1, <1>3, <1>5, <1>6, SameCounts

LEMMA WriteCounts ==
    ASSUME SocketCounts, NEW r \in Talkers, NEW x \in Unix!Ends, Unix!write(r, x)
    PROVE  SocketCounts'
<1>1. SocketIoTypes /\ len \in [Unix!Ends -> Nat] /\ eof \in [Unix!Ends -> BOOLEAN]
  BY DEF SocketCounts, SocketTypes
<1>2. Unix!Peer(x) \in Unix!Ends /\ Unix!Peer(x) \in Keys
      /\ {Unix!Peer(x)} \in SUBSET Keys /\ {} \in SUBSET Keys
      /\ <<"write", x>> \in SocketCalls
  BY SocketKeys DEF SocketCalls
<1>3. UNCHANGED <<eof, refs, lrefs, backlog, ufds>>
  BY DEF Unix!write
<1>4. \/ Unix!Done(r) /\ Unix!NoWake /\ len' = len
      \/ Unix!would_block(r, <<"write", x>>, Unix!Peer(x)) /\ len' = len
      \/ /\ \E n \in 1 .. Cap - len[Unix!Peer(x)] : len' = [len EXCEPT ![Unix!Peer(x)] = @ + n]
         /\ Unix!Done(r) /\ Unix!push_wake({Unix!Peer(x)})
  BY DEF Unix!write
<1>5. len' \in [Unix!Ends -> Nat]
  BY <1>1, <1>2, <1>4, TalkersAssumption
<1>6. /\ SocketIoTypes'
      /\ \A s \in Talkers : upc'[s] \in {"exit", "dead"} => upc[s] \in {"exit", "dead"}
  <2>1. CASE Unix!Done(r) /\ Unix!NoWake
    BY <1>1, <1>2, <2>1, SocketDoneTypes
  <2>2. CASE Unix!would_block(r, <<"write", x>>, Unix!Peer(x))
    BY <1>1, <1>2, <2>2, SocketBlockTypes
  <2>3. CASE Unix!Done(r) /\ Unix!push_wake({Unix!Peer(x)})
    BY <1>1, <1>2, <2>3, SocketDoneTypes
  <2> QED
    BY <1>4, <2>1, <2>2, <2>3
<1> QED
  BY <1>1, <1>3, <1>5, <1>6, SameCounts

LEMMA ShutdownCounts ==
    ASSUME SocketCounts, NEW r \in Talkers, NEW x \in Unix!Ends,
           NEW shut \in SUBSET Unix!Ends, Unix!shutdown(r, x, shut)
    PROVE  SocketCounts'
<1>1. SocketIoTypes /\ len \in [Unix!Ends -> Nat] /\ eof \in [Unix!Ends -> BOOLEAN]
  BY DEF SocketCounts, SocketTypes
<1>2. shut \in SUBSET Keys
  BY SocketKeys
<1>3. /\ UNCHANGED <<len, refs, lrefs, backlog, ufds>>
      /\ eof' = [y \in Unix!Ends |-> eof[y] \/ y \in shut]
      /\ Unix!Done(r) /\ Unix!push_wake(shut)
  BY DEF Unix!shutdown
<1>4. eof' \in [Unix!Ends -> BOOLEAN]
  BY <1>1, <1>3
<1>5. /\ SocketIoTypes'
      /\ \A s \in Talkers : upc'[s] \in {"exit", "dead"} => upc[s] \in {"exit", "dead"}
  BY <1>1, <1>2, <1>3, SocketDoneTypes
<1> QED
  BY <1>1, <1>3, <1>4, <1>5, SameCounts

-----------------------------------------------------------------------------
(* The counters are exact: connections that begin. *)

\* A connection of the table that is not in use: nobody has an end of it, no
\* backlog has it.
LEMMA UnusedConn ==
    ASSUME SocketCounts, NEW c \in Conns, ~Unix!Used(c)
    PROVE  /\ \A x \in Unix!Ends : x[2] = c =>
                 /\ refs[x] = 0 /\ OpenIn(x) = {} /\ WaitingIn(x) = {}
                 /\ \A r \in Talkers : x \notin ufds[r]
           /\ \A i \in Listeners : c \notin Unix!ToSet(backlog[i])
<1> USE DEF SocketCounts
<1>1. ASSUME NEW x \in Unix!Ends, x[2] = c
      PROVE  /\ refs[x] = 0 /\ OpenIn(x) = {} /\ WaitingIn(x) = {}
             /\ \A r \in Talkers : x \notin ufds[r]
  <2>1. refs[x] = 0
    <3>1. x = Unix!key_r(c, 0) \/ x = Unix!key_r(c, 1)
      BY <1>1, SocketKeys
    <3>2. refs[Unix!key_r(c, 0)] \in Nat /\ refs[Unix!key_r(c, 1)] \in Nat
      BY SocketKeys DEF SocketTypes
    <3> QED
      BY <3>1, <3>2 DEF Unix!Used
  <2>2. refs[x] = Cardinality(OpenIn(x)) + Cardinality(WaitingIn(x))
    BY ExactIs
  <2>3. PICK S, T : S = OpenIn(x) /\ T = WaitingIn(x)
    OBVIOUS
  <2>4. IsFiniteSet(S) /\ IsFiniteSet(T)
    BY <2>3, HoldersFinite
  <2>5. Cardinality(S) \in Nat /\ Cardinality(T) \in Nat
    BY <2>4, SetPlus
  <2>6. Cardinality(S) = 0 /\ Cardinality(T) = 0
    BY <2>1, <2>2, <2>3, <2>5
  <2>7. S = {} /\ T = {}
    BY <2>4, <2>6, SetPlus
  <2> QED
    BY <2>1, <2>3, <2>7 DEF OpenIn
<1>2. ASSUME NEW i \in Listeners PROVE c \notin Unix!ToSet(backlog[i])
  <2>1. PICK x : x = Unix!key_r(c, 1) /\ x \in Unix!Ends /\ x[2] = c /\ x[3] = 1
    BY SocketKeys
  <2>2. WaitingIn(x) = {}
    BY <1>1, <2>1
  <2> QED
    BY <2>1, <2>2, WaitingIs
<1> QED
  BY <1>1, <1>2

\* socketpair: both ends to the caller.
LEMMA SocketpairCounts ==
    ASSUME SocketCounts, NEW r \in Talkers, NEW c \in Conns, Unix!socketpair(r, c)
    PROVE  SocketCounts'
<1> USE DEF SocketCounts
<1>1. /\ ~Unix!Used(c)
      /\ refs' = [x \in Unix!Ends |-> IF x[2] = c THEN 1 ELSE refs[x]]
      /\ len'  = [x \in Unix!Ends |-> IF x[2] = c THEN 0 ELSE len[x]]
      /\ eof'  = [x \in Unix!Ends |-> eof[x] /\ x[2] # c]
      /\ ufds' = [ufds EXCEPT ![r] = @ \cup {Unix!key_r(c, 0), Unix!key_r(c, 1)}]
      /\ Unix!Done(r) /\ Unix!NoWake
      /\ UNCHANGED <<lrefs, backlog>>
      /\ upc[r] = "run"
  BY DEF Unix!socketpair, Unix!conn_new, Unix!MayCall
<1>2. /\ SocketIoTypes'
      /\ \A s \in Talkers : upc'[s] \in {"exit", "dead"} => upc[s] \in {"exit", "dead"}
  <2>1. {} \in SUBSET Keys
    OBVIOUS
  <2> QED
    BY <1>1, <2>1, SocketDoneTypes DEF SocketTypes
<1>3. /\ \A x \in Unix!Ends : x[2] = c =>
            /\ refs[x] = 0 /\ OpenIn(x) = {} /\ WaitingIn(x) = {}
            /\ \A s \in Talkers : x \notin ufds[s]
      /\ \A i \in Listeners : c \notin Unix!ToSet(backlog[i])
  BY <1>1, UnusedConn
<1>4. SocketTypes'
  <2>1. Unix!key_r(c, 0) \in Keys /\ Unix!key_r(c, 1) \in Keys
    BY SocketKeys
  <2> QED
    BY <1>1, <1>2, <2>1 DEF SocketTypes
<1>5. \A x \in Unix!Ends : x \in {Unix!key_r(c, 0), Unix!key_r(c, 1)} <=> x[2] = c
  BY SocketKeys
<1>6. \A x \in Unix!Ends : WaitingIn(x)' = WaitingIn(x)
  BY <1>1, <1>4, WaitingIs, WaitingIsNext
<1>7. Unix!RefsExact'
  <2>1. ASSUME NEW x \in Unix!Ends
        PROVE  refs'[x] = Cardinality(OpenIn(x)') + Cardinality(WaitingIn(x)')
    <3>1. CASE x[2] = c
      <4>1. OpenIn(x)' = OpenIn(x) \cup {r} /\ r \notin OpenIn(x)
        BY <1>1, <1>3, <1>5, <3>1 DEF OpenIn, SocketTypes
      <4>2. Cardinality(OpenIn(x)') = Cardinality(OpenIn(x)) + 1
        BY <4>1, OpenChange
      <4>3. Cardinality(OpenIn(x)) = 0 /\ Cardinality(WaitingIn(x)) = 0
        BY <1>3, <3>1, FS_EmptySet
      <4> QED
        BY <1>1, <1>6, <3>1, <4>2, <4>3
    <3>2. CASE x[2] # c
      <4>1. OpenIn(x)' = OpenIn(x)
        BY <1>1, <1>5, <3>2 DEF OpenIn, SocketTypes
      <4> QED
        BY <1>1, <1>6, <3>2, <4>1, ExactIs
    <3> QED
      BY <3>1, <3>2
  <2>2. ASSUME NEW i \in Listeners
        PROVE  lrefs'[i] = Cardinality(OpenIn(Unix!key_l(i))')
    <3>1. Unix!key_l(i) \notin {Unix!key_r(c, 0), Unix!key_r(c, 1)}
      BY SocketKeys
    <3>2. OpenIn(Unix!key_l(i))' = OpenIn(Unix!key_l(i))
      BY <1>1, <3>1 DEF OpenIn, SocketTypes, Unix!key_l
    <3> QED
      BY <1>1, <3>2, ExactIs
  <2> QED
    BY <2>1, <2>2, ExactIsNext
<1>8. Unaccepted'
  <2> SUFFICES ASSUME NEW i \in Listeners
               PROVE  /\ Distinct(backlog[i])
                      /\ lrefs[i] = 0 => backlog[i] = <<>>
                      /\ \A d \in Unix!ToSet(backlog[i]) :
                            /\ \A s \in Talkers : Unix!key_r(d, 1) \notin ufds'[s]
                            /\ \A j \in Listeners \ {i} : d \notin Unix!ToSet(backlog[j])
    BY <1>1 DEF Unaccepted
  <2>1. ASSUME NEW d \in Unix!ToSet(backlog[i]), NEW s \in Talkers
        PROVE  Unix!key_r(d, 1) \notin ufds'[s]
    <3>1. d \in Conns /\ d # c
      BY <1>3, ElementOfSeq, LenProperties DEF SocketTypes, Unix!ToSet
    <3>2. Unix!key_r(d, 1) \notin {Unix!key_r(c, 0), Unix!key_r(c, 1)}
      BY <3>1, SocketKeys
    <3> QED
      BY <1>1, <3>2 DEF Unaccepted, SocketTypes
  <2> QED
    BY <2>1 DEF Unaccepted
<1>9. DeadTalkers'
  BY <1>1, <1>2 DEF DeadTalkers, SocketTypes, SocketIoTypes
<1> QED
  BY <1>4, <1>7, <1>8, <1>9

\* The connections of a backlog are connections of the table.
LEMMA BacklogConns ==
    ASSUME SocketTypes, NEW i \in Listeners
    PROVE  Unix!ToSet(backlog[i]) \subseteq Conns
  BY ElementOfSeq, LenProperties DEF SocketTypes, Unix!ToSet

LEMMA EmptyBacklog == Unix!ToSet(<<>>) = {} /\ Distinct(<<>>)
<1>1. DOMAIN <<>> = {}
  BY EmptySeq, LenProperties
<1> QED
  BY <1>1 DEF Unix!ToSet, Distinct

\* listen: a listener nobody had open, with an empty backlog.
LEMMA ListenCounts ==
    ASSUME SocketCounts, NEW r \in Talkers, NEW i \in Listeners, Unix!listen(r, i)
    PROVE  SocketCounts'
<1> USE DEF SocketCounts
<1>1. /\ lrefs[i] = 0
      /\ lrefs' = [lrefs EXCEPT ![i] = 1]
      /\ backlog' = [backlog EXCEPT ![i] = <<>>]
      /\ ufds' = [ufds EXCEPT ![r] = @ \cup {Unix!key_l(i)}]
      /\ Unix!Done(r) /\ Unix!NoWake
      /\ UNCHANGED <<len, eof, refs>>
      /\ upc[r] = "run"
  BY DEF Unix!listen, Unix!MayCall
<1>2. /\ SocketIoTypes'
      /\ \A s \in Talkers : upc'[s] \in {"exit", "dead"} => upc[s] \in {"exit", "dead"}
  <2>1. {} \in SUBSET Keys
    OBVIOUS
  <2> QED
    BY <1>1, <2>1, SocketDoneTypes DEF SocketTypes
<1>3. backlog[i] = <<>> /\ backlog' = backlog
  BY <1>1 DEF Unaccepted, SocketTypes
<1>4. SocketTypes'
  BY <1>1, <1>2, <1>3, SocketKeys DEF SocketTypes
<1>5. Unix!RefsExact'
  <2>1. ASSUME NEW x \in Unix!Ends
        PROVE  refs'[x] = Cardinality(OpenIn(x)') + Cardinality(WaitingIn(x)')
    <3>1. OpenIn(x)' = OpenIn(x)
      BY <1>1, SocketKeys DEF OpenIn, SocketTypes
    <3>2. WaitingIn(x)' = WaitingIn(x)
      BY <1>3, <1>4, WaitingIs, WaitingIsNext
    <3> QED
      BY <1>1, <3>1, <3>2, ExactIs
  <2>2. ASSUME NEW j \in Listeners
        PROVE  lrefs'[j] = Cardinality(OpenIn(Unix!key_l(j))')
    <3>1. PICK x : x = Unix!key_l(j) /\ (x = Unix!key_l(i) <=> j = i)
      BY SocketKeys
    <3>2. lrefs[j] = Cardinality(OpenIn(x))
      BY <3>1, ExactIs
    <3>3. CASE j = i
      <4>1. OpenIn(x) = {}
        BY <1>1, <3>2, <3>3, HoldersFinite, SetPlus
      <4>2. OpenIn(x)' = OpenIn(x) \cup {r} /\ r \notin OpenIn(x)
        BY <1>1, <3>1, <3>3, <4>1 DEF OpenIn, SocketTypes
      <4>3. Cardinality(OpenIn(x)') = Cardinality(OpenIn(x)) + 1
        BY <4>2, OpenChange
      <4>4. lrefs'[j] = Cardinality(OpenIn(x)')
        BY <1>1, <3>2, <3>3, <4>3 DEF SocketTypes
      <4> QED
        BY <3>1, <4>4 DEF OpenIn
    <3>4. CASE j # i
      <4>1. OpenIn(x)' = OpenIn(x)
        BY <1>1, <3>1, <3>4 DEF OpenIn, SocketTypes
      <4>2. lrefs'[j] = Cardinality(OpenIn(x)')
        BY <1>1, <3>2, <3>4, <4>1 DEF SocketTypes
      <4> QED
        BY <3>1, <4>2 DEF OpenIn
    <3> QED
      BY <3>3, <3>4
  <2> QED
    BY <2>1, <2>2, ExactIsNext
<1>6. Unaccepted'
  <2>1. \A d \in Conns : Unix!key_r(d, 1) # Unix!key_l(i)
    BY SocketKeys
  <2>2. \A j \in Listeners : Unix!ToSet(backlog[j]) \subseteq Conns
    BY BacklogConns
  <2>3. \A j \in Listeners : lrefs'[j] = 0 => lrefs[j] = 0
    BY <1>1 DEF SocketTypes
  <2>4. \A j \in Listeners, d \in Conns, s \in Talkers :
           Unix!key_r(d, 1) \notin ufds[s] => Unix!key_r(d, 1) \notin ufds'[s]
    BY <1>1, <2>1 DEF SocketTypes
  <2> QED
    BY <1>3, <2>2, <2>3, <2>4 DEF Unaccepted
<1>7. DeadTalkers'
  BY <1>1, <1>2 DEF DeadTalkers, SocketTypes, SocketIoTypes
<1> QED
  BY <1>4, <1>5, <1>6, <1>7

\* connect: end 0 to the caller, end 1 to the backlog of the listener.
LEMMA ConnectCounts ==
    ASSUME SocketCounts, NEW r \in Talkers, NEW i \in Listeners, NEW c \in Conns,
           Unix!connect(r, i, c)
    PROVE  SocketCounts'
<1> USE DEF SocketCounts
<1>1. /\ lrefs[i] > 0
      /\ ~Unix!Used(c)
      /\ refs' = [x \in Unix!Ends |-> IF x[2] = c THEN 1 ELSE refs[x]]
      /\ len'  = [x \in Unix!Ends |-> IF x[2] = c THEN 0 ELSE len[x]]
      /\ eof'  = [x \in Unix!Ends |-> eof[x] /\ x[2] # c]
      /\ backlog' = [backlog EXCEPT ![i] = Append(@, c)]
      /\ ufds' = [ufds EXCEPT ![r] = @ \cup {Unix!key_r(c, 0)}]
      /\ Unix!Done(r) /\ Unix!push_wake({Unix!key_l(i)})
      /\ UNCHANGED lrefs
      /\ upc[r] = "run"
  BY DEF Unix!connect, Unix!conn_new, Unix!MayCall
<1>2. /\ SocketIoTypes'
      /\ \A s \in Talkers : upc'[s] \in {"exit", "dead"} => upc[s] \in {"exit", "dead"}
  <2>1. {Unix!key_l(i)} \in SUBSET Keys
    BY SocketKeys
  <2> QED
    BY <1>1, <2>1, SocketDoneTypes DEF SocketTypes
<1>3. /\ \A x \in Unix!Ends : x[2] = c =>
            /\ refs[x] = 0 /\ OpenIn(x) = {} /\ WaitingIn(x) = {}
            /\ \A s \in Talkers : x \notin ufds[s]
      /\ \A j \in Listeners : c \notin Unix!ToSet(backlog[j])
  BY <1>1, UnusedConn
<1>4. /\ backlog[i] \in Seq(Conns) /\ backlog'[i] = Append(backlog[i], c)
      /\ \A j \in Listeners \ {i} : backlog'[j] = backlog[j]
  BY <1>1 DEF SocketTypes
<1>5. /\ backlog'[i] \in Seq(Conns)
      /\ Unix!ToSet(backlog'[i]) = Unix!ToSet(backlog[i]) \cup {c}
      /\ Distinct(backlog[i]) => Distinct(backlog'[i])
  BY <1>3, <1>4, AppendSet
<1>6. SocketTypes'
  <2>1. Unix!key_r(c, 0) \in Keys
    BY SocketKeys
  <2>2. backlog' \in [Listeners -> Seq(Conns)]
    BY <1>1, <1>4, <1>5 DEF SocketTypes
  <2> QED
    BY <1>1, <1>2, <2>1, <2>2 DEF SocketTypes
<1>7. Unix!RefsExact'
  <2>1. ASSUME NEW x \in Unix!Ends
        PROVE  refs'[x] = Cardinality(OpenIn(x)') + Cardinality(WaitingIn(x)')
    <3>1. x[3] \in {0, 1} /\ (x = Unix!key_r(c, 0) <=> x[2] = c /\ x[3] = 0)
      BY SocketKeys
    <3>2. CASE x[2] = c /\ x[3] = 0
      <4>1. OpenIn(x)' = OpenIn(x) \cup {r} /\ r \notin OpenIn(x)
        BY <1>1, <1>3, <3>1, <3>2 DEF OpenIn, SocketTypes
      <4>2. Cardinality(OpenIn(x)') = Cardinality(OpenIn(x)) + 1
        BY <4>1, OpenChange
      <4>3. WaitingIn(x)' = {}
        BY <1>6, <3>2, WaitingIsNext
      <4>4. Cardinality(OpenIn(x)) = 0 /\ Cardinality(WaitingIn(x)') = 0
        BY <1>3, <3>2, <4>3, FS_EmptySet
      <4> QED
        BY <1>1, <3>2, <4>2, <4>4
    <3>3. CASE x[2] = c /\ x[3] = 1
      <4>1. OpenIn(x)' = OpenIn(x)
        BY <1>1, <3>1, <3>3 DEF OpenIn, SocketTypes
      <4>2. WaitingIn(x)' = {j \in Listeners : c \in Unix!ToSet(backlog'[j])}
        BY <1>6, <3>3, WaitingIsNext
      <4>3. WaitingIn(x)' = WaitingIn(x) \cup {i} /\ i \notin WaitingIn(x)
        <5>1. \A j \in Listeners : c \in Unix!ToSet(backlog'[j]) <=> j = i
          BY <1>3, <1>4, <1>5
        <5>2. WaitingIn(x)' = {i}
          BY <4>2, <5>1
        <5>3. WaitingIn(x) = {}
          BY <1>3, <3>3
        <5> QED
          BY <5>2, <5>3
      <4>4. Cardinality(WaitingIn(x)') = Cardinality(WaitingIn(x)) + 1
        BY <4>3, WaitingChange
      <4>5. Cardinality(OpenIn(x)) = 0 /\ Cardinality(WaitingIn(x)) = 0
        BY <1>3, <3>3, FS_EmptySet
      <4> QED
        BY <1>1, <3>3, <4>1, <4>4, <4>5
    <3>4. CASE x[2] # c
      <4>1. OpenIn(x)' = OpenIn(x)
        BY <1>1, <3>1, <3>4 DEF OpenIn, SocketTypes
      <4>2. WaitingIn(x)' = WaitingIn(x)
        <5>1. \A j \in Listeners :
                 x[2] \in Unix!ToSet(backlog'[j]) <=> x[2] \in Unix!ToSet(backlog[j])
          BY <1>4, <1>5, <3>4
        <5> QED
          BY <1>6, <5>1, WaitingIs, WaitingIsNext
      <4> QED
        BY <1>1, <3>4, <4>1, <4>2, ExactIs
    <3> QED
      BY <3>1, <3>2, <3>3, <3>4
  <2>2. ASSUME NEW j \in Listeners
        PROVE  lrefs'[j] = Cardinality(OpenIn(Unix!key_l(j))')
    <3>1. Unix!key_l(j) # Unix!key_r(c, 0)
      BY SocketKeys
    <3>2. OpenIn(Unix!key_l(j))' = OpenIn(Unix!key_l(j))
      BY <1>1, <3>1 DEF OpenIn, SocketTypes, Unix!key_l
    <3> QED
      BY <1>1, <3>2, ExactIs
  <2> QED
    BY <2>1, <2>2, ExactIsNext
<1>8. Unaccepted'
  <2> SUFFICES ASSUME NEW j \in Listeners
               PROVE  /\ Distinct(backlog'[j])
                      /\ lrefs'[j] = 0 => backlog'[j] = <<>>
                      /\ \A d \in Unix!ToSet(backlog'[j]) :
                            /\ \A s \in Talkers : Unix!key_r(d, 1) \notin ufds'[s]
                            /\ \A k \in Listeners \ {j} : d \notin Unix!ToSet(backlog'[k])
    BY DEF Unaccepted
  <2>1. Distinct(backlog'[j])
    BY <1>4, <1>5 DEF Unaccepted
  <2>2. lrefs'[j] = 0 => backlog'[j] = <<>>
    BY <1>1, <1>4 DEF Unaccepted, SocketTypes
  <2>3. ASSUME NEW d \in Unix!ToSet(backlog'[j])
        PROVE  /\ d \in Conns
               /\ d = c => j = i
               /\ d # c => d \in Unix!ToSet(backlog[j])
    BY <1>3, <1>4, <1>5, BacklogConns
  <2>4. ASSUME NEW d \in Unix!ToSet(backlog'[j]), NEW s \in Talkers
        PROVE  Unix!key_r(d, 1) \notin ufds'[s]
    <3>1. Unix!key_r(d, 1) # Unix!key_r(c, 0)
      BY <2>3, SocketKeys
    <3>2. Unix!key_r(d, 1) \notin ufds[s]
      <4>1. CASE d = c
        BY <1>3, <4>1, SocketKeys
      <4>2. CASE d # c
        BY <2>3, <4>2 DEF Unaccepted
      <4> QED
        BY <4>1, <4>2
    <3> QED
      BY <1>1, <3>1, <3>2 DEF SocketTypes
  <2>5. ASSUME NEW d \in Unix!ToSet(backlog'[j]), NEW k \in Listeners \ {j}
        PROVE  d \notin Unix!ToSet(backlog'[k])
    <3>1. CASE d = c
      BY <1>3, <1>4, <2>3, <3>1
    <3>2. CASE d # c
      BY <1>4, <1>5, <2>3, <3>2 DEF Unaccepted
    <3> QED
      BY <3>1, <3>2
  <2> QED
    BY <2>1, <2>2, <2>4, <2>5
<1>9. DeadTalkers'
  BY <1>1, <1>2 DEF DeadTalkers, SocketTypes, SocketIoTypes
<1> QED
  BY <1>6, <1>7, <1>8, <1>9

\* accept: the caller takes the end 1 of the oldest connection.
LEMMA AcceptCounts ==
    ASSUME SocketCounts, NEW r \in Talkers, NEW i \in Listeners, Unix!accept(r, i)
    PROVE  SocketCounts'
<1> USE DEF SocketCounts
<1>1. SocketIoTypes /\ len \in [Unix!Ends -> Nat] /\ eof \in [Unix!Ends -> BOOLEAN]
  BY DEF SocketTypes
<1>2. UNCHANGED <<len, eof, refs, lrefs>> /\ upc[r] = "run"
  BY DEF Unix!accept, Unix!MayCall
<1>3. CASE /\ Unix!would_block(r, <<"accept", Unix!key_l(i)>>, Unix!key_l(i))
           /\ UNCHANGED <<backlog, ufds>>
  <2>1. Unix!key_l(i) \in Keys /\ <<"accept", Unix!key_l(i)>> \in SocketCalls
    BY SocketKeys DEF SocketCalls
  <2>2. /\ SocketIoTypes'
        /\ \A s \in Talkers : upc'[s] \in {"exit", "dead"} => upc[s] \in {"exit", "dead"}
    BY <1>1, <1>3, <2>1, SocketBlockTypes
  <2> QED
    BY <1>1, <1>2, <1>3, <2>2, SameCounts
<1>4. CASE /\ backlog[i] # <<>>
           /\ backlog' = [backlog EXCEPT ![i] = Tail(@)]
           /\ ufds' = [ufds EXCEPT ![r] = @ \cup {Unix!key_r(Head(backlog[i]), 1)}]
           /\ Unix!Done(r) /\ Unix!NoWake
  <2>1. /\ SocketIoTypes'
        /\ \A s \in Talkers : upc'[s] \in {"exit", "dead"} => upc[s] \in {"exit", "dead"}
    <3>1. {} \in SUBSET Keys
      OBVIOUS
    <3> QED
      BY <1>1, <1>4, <3>1, SocketDoneTypes
  <2>2. PICK c : c = Head(backlog[i])
    OBVIOUS
  <2>3. backlog[i] \in Seq(Conns) /\ Distinct(backlog[i])
    BY DEF SocketTypes, Unaccepted
  <2>4. /\ backlog'[i] = Tail(backlog[i])
        /\ \A j \in Listeners \ {i} : backlog'[j] = backlog[j]
    BY <1>4 DEF SocketTypes
  <2>5. /\ backlog'[i] \in Seq(Conns) /\ Distinct(backlog'[i])
        /\ Unix!ToSet(backlog'[i]) = Unix!ToSet(backlog[i]) \ {c}
        /\ c \in Unix!ToSet(backlog[i])
    BY <1>4, <2>2, <2>3, <2>4, TailSet
  <2>6. /\ c \in Conns
        /\ \A s \in Talkers : Unix!key_r(c, 1) \notin ufds[s]
        /\ \A j \in Listeners \ {i} : c \notin Unix!ToSet(backlog[j])
    BY <2>5, BacklogConns DEF Unaccepted
  <2>7. ufds' = [ufds EXCEPT ![r] = @ \cup {Unix!key_r(c, 1)}]
    BY <1>4, <2>2
  <2>8. SocketTypes'
    <3>1. Unix!key_r(c, 1) \in Keys
      BY <2>6, SocketKeys
    <3>2. backlog' \in [Listeners -> Seq(Conns)]
      BY <1>4, <2>4, <2>5 DEF SocketTypes
    <3> QED
      BY <1>2, <2>1, <2>7, <3>1, <3>2 DEF SocketTypes
  <2>9. Unix!RefsExact'
    <3>1. ASSUME NEW x \in Unix!Ends
          PROVE  refs'[x] = Cardinality(OpenIn(x)') + Cardinality(WaitingIn(x)')
      <4>1. x = Unix!key_r(c, 1) <=> x[2] = c /\ x[3] = 1
        BY <2>6, SocketKeys
      <4>2. CASE x[2] = c /\ x[3] = 1
        <5>1. OpenIn(x)' = OpenIn(x) \cup {r} /\ r \notin OpenIn(x)
          BY <2>6, <2>7, <4>1, <4>2 DEF OpenIn, SocketTypes
        <5>2. Cardinality(OpenIn(x)') = Cardinality(OpenIn(x)) + 1
          BY <5>1, OpenChange
        <5>3. \A j \in Listeners : c \in Unix!ToSet(backlog[j]) <=> j = i
          BY <2>5, <2>6
        <5>4. \A j \in Listeners : c \notin Unix!ToSet(backlog'[j])
          BY <2>4, <2>5, <5>3
        <5>5. WaitingIn(x)' = {}
          BY <2>8, <4>2, <5>4, WaitingIsNext
        <5>6. WaitingIn(x) = {i}
          BY <4>2, <5>3, WaitingIs
        <5>7. WaitingIn(x)' = WaitingIn(x) \ {i} /\ i \in WaitingIn(x)
          BY <5>5, <5>6
        <5>8. Cardinality(WaitingIn(x)') = Cardinality(WaitingIn(x)) - 1
          BY <5>7, WaitingChange
        <5>9. Cardinality(WaitingIn(x)) \in Nat /\ Cardinality(OpenIn(x)) \in Nat
          BY HoldersFinite, SetPlus
        <5>10. refs'[x] = Cardinality(OpenIn(x)) + Cardinality(WaitingIn(x))
          BY <1>2, ExactIs
        <5> QED
          BY <5>2, <5>8, <5>9, <5>10
      <4>3. CASE ~(x[2] = c /\ x[3] = 1)
        <5>1. OpenIn(x)' = OpenIn(x)
          BY <2>7, <4>1, <4>3 DEF OpenIn, SocketTypes
        <5>2. WaitingIn(x)' = WaitingIn(x)
          <6>1. \A j \in Listeners : x[2] # c =>
                   (x[2] \in Unix!ToSet(backlog'[j]) <=> x[2] \in Unix!ToSet(backlog[j]))
            BY <2>4, <2>5
          <6> QED
            BY <2>8, <4>3, <6>1, WaitingIs, WaitingIsNext
        <5> QED
          BY <1>2, <5>1, <5>2, ExactIs
      <4> QED
        BY <4>2, <4>3
    <3>2. ASSUME NEW j \in Listeners
          PROVE  lrefs'[j] = Cardinality(OpenIn(Unix!key_l(j))')
      <4>1. Unix!key_l(j) # Unix!key_r(c, 1)
        BY <2>6, SocketKeys
      <4>2. OpenIn(Unix!key_l(j))' = OpenIn(Unix!key_l(j))
        BY <2>7, <4>1 DEF OpenIn, SocketTypes, Unix!key_l
      <4> QED
        BY <1>2, <4>2, ExactIs
    <3> QED
      BY <3>1, <3>2, ExactIsNext
  <2>10. Unaccepted'
    <3> SUFFICES ASSUME NEW j \in Listeners
                 PROVE  /\ Distinct(backlog'[j])
                        /\ lrefs'[j] = 0 => backlog'[j] = <<>>
                        /\ \A d \in Unix!ToSet(backlog'[j]) :
                              /\ \A s \in Talkers : Unix!key_r(d, 1) \notin ufds'[s]
                              /\ \A k \in Listeners \ {j} : d \notin Unix!ToSet(backlog'[k])
      BY DEF Unaccepted
    <3>1. Distinct(backlog'[j])
      BY <2>4, <2>5 DEF Unaccepted
    <3>2. lrefs'[j] = 0 => backlog'[j] = <<>>
      BY <1>2, <1>4, <2>4 DEF Unaccepted
    <3>3. \A k \in Listeners : Unix!ToSet(backlog'[k]) \subseteq Unix!ToSet(backlog[k]) \ {c}
      BY <2>4, <2>5, <2>6
    <3>4. ASSUME NEW d \in Unix!ToSet(backlog'[j]), NEW s \in Talkers
          PROVE  Unix!key_r(d, 1) \notin ufds'[s]
      <4>1. d \in Unix!ToSet(backlog[j]) /\ d # c /\ d \in Conns
        BY <3>3, BacklogConns
      <4>2. Unix!key_r(d, 1) # Unix!key_r(c, 1)
        BY <2>6, <4>1, SocketKeys
      <4>3. Unix!key_r(d, 1) \notin ufds[s]
        BY <4>1 DEF Unaccepted
      <4> QED
        BY <2>7, <4>2, <4>3 DEF SocketTypes
    <3>5. ASSUME NEW d \in Unix!ToSet(backlog'[j]), NEW k \in Listeners \ {j}
          PROVE  d \notin Unix!ToSet(backlog'[k])
      BY <3>3 DEF Unaccepted
    <3> QED
      BY <3>1, <3>2, <3>4, <3>5
  <2>11. DeadTalkers'
    BY <1>2, <2>1, <2>7 DEF DeadTalkers, SocketTypes, SocketIoTypes
  <2> QED
    BY <2>8, <2>9, <2>10, <2>11
<1> QED
  BY <1>3, <1>4 DEF Unix!accept

-----------------------------------------------------------------------------
(* The counters are exact: descriptors that go away. *)

\* A listener that goes away with the descriptors D: the last one is among
\* them.
ClosedListeners(D) == {i \in Listeners : Unix!key_l(i) \in D /\ lrefs[i] = 1}

\* What drop_refs does, written out.
LEMMA DropIs ==
    ASSUME NEW D, Unix!drop_refs(D)
    PROVE  /\ refs' = [x \in Unix!Ends |-> IF x \in Unix!LostEnds(D) THEN refs[x] - 1 ELSE refs[x]]
           /\ \A x \in Unix!Ends : len'[x] \in {0, len[x]}
           /\ \A x \in Unix!Ends : eof'[x] => eof[x]
           /\ lrefs' = [i \in Listeners |-> IF Unix!key_l(i) \in D THEN lrefs[i] - 1 ELSE lrefs[i]]
           /\ backlog' = [i \in Listeners |-> IF i \in ClosedListeners(D) THEN <<>> ELSE backlog[i]]
  BY DEF Unix!drop_refs, ClosedListeners

LEMMA DropTypes ==
    ASSUME SocketTypes, NEW D, Unix!drop_refs(D)
    PROVE  len' \in [Unix!Ends -> Nat] /\ eof' \in [Unix!Ends -> BOOLEAN]
<1>1. PICK G : /\ len' = [x \in Unix!Ends |-> IF x \in G THEN 0 ELSE len[x]]
               /\ eof' = [x \in Unix!Ends |-> eof[x] /\ x \notin G]
  BY DEF Unix!drop_refs
<1> QED
  BY <1>1 DEF SocketTypes

\* The ends that lose a descriptor.
LEMMA LostAre ==
    ASSUME SocketTypes, NEW D, NEW x \in Unix!Ends
    PROVE  x \in Unix!LostEnds(D) <=>
              \/ x \in D
              \/ x[3] = 1 /\ \E i \in ClosedListeners(D) : x[2] \in Unix!ToSet(backlog[i])
<1>1. \A i \in Listeners : Unix!ToSet(backlog[i]) \subseteq Conns
  BY BacklogConns
<1>2. \A c \in Conns : x = Unix!key_r(c, 1) <=> x[2] = c /\ x[3] = 1
  BY SocketKeys
<1>3. x \in Unix!LostEnds(D) <=>
        x \in D \/ \E i \in ClosedListeners(D) : \E c \in Unix!ToSet(backlog[i]) : x = Unix!key_r(c, 1)
  BY DEF Unix!LostEnds, ClosedListeners
<1>4. ClosedListeners(D) \subseteq Listeners
  BY DEF ClosedListeners
<1> QED
  BY <1>1, <1>2, <1>3, <1>4

\* The descriptors D of a process go: one less for each, and for each end
\* that waited for a listener that went.
LEMMA DropCounts ==
    ASSUME SocketCounts, NEW r \in Talkers, NEW D \in SUBSET ufds[r],
           Unix!drop_refs(D), ufds' = [ufds EXCEPT ![r] = @ \ D],
           SocketIoTypes', DeadTalkers'
    PROVE  SocketCounts'
<1> USE DEF SocketCounts
<1>1. /\ refs' = [x \in Unix!Ends |-> IF x \in Unix!LostEnds(D) THEN refs[x] - 1 ELSE refs[x]]
      /\ lrefs' = [i \in Listeners |-> IF Unix!key_l(i) \in D THEN lrefs[i] - 1 ELSE lrefs[i]]
      /\ backlog' = [i \in Listeners |-> IF i \in ClosedListeners(D) THEN <<>> ELSE backlog[i]]
  BY DropIs
<1>2. backlog' \in [Listeners -> Seq(Conns)]
  BY <1>1, EmptySeq DEF SocketTypes
<1>3. /\ \A i \in ClosedListeners(D) : i \in Listeners /\ Unix!ToSet(backlog'[i]) = {}
      /\ \A i \in Listeners \ ClosedListeners(D) : backlog'[i] = backlog[i]
  BY <1>1, EmptyBacklog DEF ClosedListeners
<1>4. ASSUME NEW x \in Unix!Ends
      PROVE  refs'[x] = Cardinality(OpenIn(x)') + Cardinality(WaitingIn(x)')
  <2>1. refs[x] = Cardinality(OpenIn(x)) + Cardinality(WaitingIn(x))
    BY ExactIs
  <2>2. Cardinality(OpenIn(x)) \in Nat /\ Cardinality(WaitingIn(x)) \in Nat
    BY HoldersFinite, SetPlus
  <2>3. CASE x \in D
    <3>1. OpenIn(x)' = OpenIn(x) \ {r} /\ r \in OpenIn(x)
      BY <2>3 DEF OpenIn, SocketTypes
    <3>2. Cardinality(OpenIn(x)') = Cardinality(OpenIn(x)) - 1
      BY <3>1, OpenChange
    <3>3. WaitingIn(x) = {}
      <4> SUFFICES ASSUME NEW i \in WaitingIn(x) PROVE FALSE
        OBVIOUS
      <4>1. i \in Listeners /\ x[3] = 1 /\ x[2] \in Unix!ToSet(backlog[i])
        BY WaitingIs
      <4>2. x = Unix!key_r(x[2], 1)
        BY <4>1, SocketKeys
      <4>3. x \notin ufds[r]
        BY <4>1, <4>2 DEF Unaccepted
      <4> QED
        BY <2>3, <4>3
    <3>4. WaitingIn(x)' = {}
      <4> SUFFICES ASSUME NEW i \in WaitingIn(x)' PROVE FALSE
        OBVIOUS
      <4>1. i \in Listeners /\ x[3] = 1 /\ x[2] \in Unix!ToSet(backlog'[i])
        BY <1>2, WaitingWillBe
      <4>2. x[2] \in Unix!ToSet(backlog[i])
        BY <1>3, <4>1
      <4> QED
        BY <3>3, <4>1, <4>2, WaitingIs
    <3>5. refs'[x] = refs[x] - 1
      BY <1>1, <2>3, LostAre
    <3>6. Cardinality(WaitingIn(x)) = 0 /\ Cardinality(WaitingIn(x)') = 0
      BY <3>3, <3>4, FS_EmptySet
    <3> QED
      BY <2>1, <2>2, <3>2, <3>5, <3>6
  <2>4. CASE x \notin D /\ x[3] = 1 /\ \E i \in ClosedListeners(D) : x[2] \in Unix!ToSet(backlog[i])
    <3>1. PICK i \in ClosedListeners(D) : x[2] \in Unix!ToSet(backlog[i])
      BY <2>4
    <3>2. OpenIn(x)' = OpenIn(x)
      BY <2>4 DEF OpenIn, SocketTypes
    <3>3. \A j \in Listeners : x[2] \in Unix!ToSet(backlog[j]) <=> j = i
      BY <1>3, <3>1 DEF Unaccepted
    <3>4. WaitingIn(x) = {i}
      BY <1>3, <2>4, <3>1, <3>3, WaitingIs
    <3>5. \A j \in Listeners : x[2] \notin Unix!ToSet(backlog'[j])
      BY <1>3, <3>1, <3>3
    <3>6. WaitingIn(x)' = {}
      BY <1>2, <2>4, <3>5, WaitingWillBe
    <3>7. Cardinality(WaitingIn(x)) = 1 /\ Cardinality(WaitingIn(x)') = 0
      BY <3>4, <3>6, FS_Singleton, FS_EmptySet
    <3>8. refs'[x] = refs[x] - 1
      BY <1>1, <2>4, LostAre
    <3> QED
      BY <2>1, <2>2, <3>2, <3>7, <3>8
  <2>5. CASE x \notin D /\ ~(x[3] = 1 /\ \E i \in ClosedListeners(D) : x[2] \in Unix!ToSet(backlog[i]))
    <3>1. OpenIn(x)' = OpenIn(x)
      BY <2>5 DEF OpenIn, SocketTypes
    <3>2. x[3] = 1 => \A j \in Listeners :
             x[2] \in Unix!ToSet(backlog'[j]) <=> x[2] \in Unix!ToSet(backlog[j])
      BY <1>3, <2>5
    <3>3. WaitingIn(x)' = WaitingIn(x)
      BY <1>2, <3>2, WaitingIs, WaitingWillBe
    <3>4. refs'[x] = refs[x]
      BY <1>1, <2>5, LostAre
    <3> QED
      BY <2>1, <3>1, <3>3, <3>4
  <2> QED
    BY <2>3, <2>4, <2>5
<1>5. ASSUME NEW i \in Listeners
      PROVE  lrefs'[i] = Cardinality(OpenIn(Unix!key_l(i))')
  <2>1. PICK x : x = Unix!key_l(i)
    OBVIOUS
  <2>2. lrefs[i] = Cardinality(OpenIn(x))
    BY <2>1, ExactIs
  <2>3. lrefs'[i] = Cardinality(OpenIn(x)')
    <3>1. CASE x \in D
      <4>1. OpenIn(x)' = OpenIn(x) \ {r} /\ r \in OpenIn(x)
        BY <2>1, <3>1 DEF OpenIn, SocketTypes
      <4>2. Cardinality(OpenIn(x)') = Cardinality(OpenIn(x)) - 1
        BY <4>1, OpenChange
      <4> QED
        BY <1>1, <2>1, <2>2, <3>1, <4>2
    <3>2. CASE x \notin D
      <4>1. OpenIn(x)' = OpenIn(x)
        BY <2>1, <3>2 DEF OpenIn, SocketTypes
      <4> QED
        BY <1>1, <2>1, <2>2, <3>2, <4>1
    <3> QED
      BY <3>1, <3>2
  <2> QED
    BY <2>1, <2>3 DEF OpenIn
<1>6. Unix!RefsExact'
  BY <1>4, <1>5, ExactIsNext
<1>7. \A x \in Unix!Ends : refs'[x] \in Nat
  <2> SUFFICES ASSUME NEW x \in Unix!Ends PROVE refs'[x] \in Nat
    OBVIOUS
  <2>1. PICK S, T : S = OpenIn(x)' /\ T = WaitingIn(x)'
    OBVIOUS
  <2>2. IsFiniteSet(S) /\ IsFiniteSet(T)
    BY <2>1, HoldersFiniteNext
  <2>3. Cardinality(S) \in Nat /\ Cardinality(T) \in Nat
    BY <2>2, SetPlus
  <2> QED
    BY <1>4, <2>1, <2>3
<1>8. \A i \in Listeners : lrefs'[i] \in Nat
  <2> SUFFICES ASSUME NEW i \in Listeners PROVE lrefs'[i] \in Nat
    OBVIOUS
  <2>1. PICK S : S = OpenIn(Unix!key_l(i))'
    OBVIOUS
  <2>2. IsFiniteSet(S)
    <3>1. S \subseteq Talkers
      BY <2>1 DEF OpenIn
    <3> QED
      BY <3>1, TalkersAssumption, FS_Subset
  <2>3. Cardinality(S) \in Nat
    BY <2>2, SetPlus
  <2> QED
    BY <1>5, <2>1, <2>3
<1>9. SocketTypes'
  <2>1. refs' \in [Unix!Ends -> Nat] /\ lrefs' \in [Listeners -> Nat]
    BY <1>1, <1>7, <1>8
  <2>2. len' \in [Unix!Ends -> Nat] /\ eof' \in [Unix!Ends -> BOOLEAN]
    BY DropTypes DEF SocketTypes
  <2>3. ufds' \in [Talkers -> SUBSET Keys]
    BY DEF SocketTypes
  <2> QED
    BY <1>2, <2>1, <2>2, <2>3 DEF SocketTypes
<1>10. Unaccepted'
  <2> SUFFICES ASSUME NEW j \in Listeners
               PROVE  /\ Distinct(backlog'[j])
                      /\ lrefs'[j] = 0 => backlog'[j] = <<>>
                      /\ \A d \in Unix!ToSet(backlog'[j]) :
                            /\ \A s \in Talkers : Unix!key_r(d, 1) \notin ufds'[s]
                            /\ \A k \in Listeners \ {j} : d \notin Unix!ToSet(backlog'[k])
    BY DEF Unaccepted
  <2>1. Distinct(backlog'[j])
    BY <1>1, EmptyBacklog DEF Unaccepted
  <2>2. lrefs'[j] = 0 => backlog'[j] = <<>>
    BY <1>1 DEF Unaccepted, ClosedListeners, SocketTypes
  <2>3. \A k \in Listeners : Unix!ToSet(backlog'[k]) \subseteq Unix!ToSet(backlog[k])
    BY <1>3
  <2>4. \A s \in Talkers : ufds'[s] \subseteq ufds[s]
    BY DEF SocketTypes
  <2> QED
    BY <2>1, <2>2, <2>3, <2>4 DEF Unaccepted
<1> QED
  BY <1>6, <1>9, <1>10

LEMMA LostEndsAreEnds ==
    ASSUME SocketTypes, NEW D
    PROVE  Unix!LostEnds(D) \subseteq Unix!Ends
<1>1. \A i \in Listeners : \A c \in Unix!ToSet(backlog[i]) : Unix!key_r(c, 1) \in Unix!Ends
  BY BacklogConns, SocketKeys
<1> QED
  BY <1>1 DEF Unix!LostEnds

\* Whoever waits on either side of an end that lost its last descriptor is
\* told.
LEMMA DropFires ==
    ASSUME SocketTypes, NEW D, Unix!drop_refs(D)
    PROVE  \E K \in SUBSET Keys :
              /\ Unix!push_wake(K)
              /\ \A x \in Unix!Ends : refs'[Unix!Peer(x)] = 0 /\ refs[Unix!Peer(x)] # 0 => x \in K
<1>1. PICK h, L : /\ h = [y \in Unix!Ends |-> IF y \in Unix!LostEnds(D) THEN refs[y] - 1
                                              ELSE refs[y]]
                  /\ L = {x \in Unix!LostEnds(D) : h[x] = 0}
                  /\ refs' = h
                  /\ Unix!push_wake(L \cup {Unix!Peer(x) : x \in L})
  BY DEF Unix!drop_refs
<1>2. L \subseteq Unix!Ends
  BY <1>1, LostEndsAreEnds
<1>3. PICK K : K = L \cup {Unix!Peer(x) : x \in L}
  OBVIOUS
<1>4. K \in SUBSET Keys
  BY <1>2, <1>3, SocketKeys
<1>5. ASSUME NEW x \in Unix!Ends, refs'[Unix!Peer(x)] = 0, refs[Unix!Peer(x)] # 0
      PROVE  x \in K
  <2>1. Unix!Peer(x) \in Unix!Ends /\ Unix!Peer(Unix!Peer(x)) = x
    BY SocketKeys
  <2>2. Unix!Peer(x) \in L
    BY <1>1, <1>5, <2>1
  <2> QED
    BY <1>3, <2>1, <2>2
<1> QED
  BY <1>1, <1>3, <1>4, <1>5

LEMMA CloseCounts ==
    ASSUME SocketCounts, NEW r \in Talkers, NEW d \in Keys, Unix!close(r, d)
    PROVE  SocketCounts'
<1>1. /\ Unix!drop_refs({d}) /\ {d} \in SUBSET ufds[r]
      /\ ufds' = [ufds EXCEPT ![r] = @ \ {d}] /\ Unix!Done(r) /\ upc[r] = "run"
  BY DEF Unix!close, Unix!MayCall
<1>2. SocketTypes /\ SocketIoTypes
  BY DEF SocketCounts, SocketTypes
<1>3. PICK K \in SUBSET Keys : Unix!push_wake(K)
  BY <1>1, <1>2, DropFires
<1>4. /\ SocketIoTypes'
      /\ \A s \in Talkers : upc'[s] \in {"exit", "dead"} => upc[s] \in {"exit", "dead"}
  BY <1>1, <1>2, <1>3, SocketDoneTypes
<1>5. DeadTalkers'
  BY <1>1, <1>2, <1>4 DEF SocketCounts, DeadTalkers, SocketTypes
<1> QED
  BY <1>1, <1>4, <1>5, DropCounts

\* The end of a process: all its descriptors at once.
LEMMA ReleaseCounts ==
    ASSUME SocketCounts, NEW r \in Talkers, Unix!release(r)
    PROVE  SocketCounts'
<1>1. Unix!drop_refs(ufds[r]) /\ ufds' = [ufds EXCEPT ![r] = {}] /\ Unix!StartExit(r)
  BY DEF Unix!release
<1>2. SocketTypes /\ SocketIoTypes
  BY DEF SocketCounts, SocketTypes
<1>3. ufds' = [ufds EXCEPT ![r] = @ \ ufds[r]] /\ ufds[r] \in SUBSET ufds[r]
  BY <1>1, <1>2 DEF SocketTypes
<1>4. PICK K \in SUBSET Keys : Unix!push_wake(K)
  BY <1>1, <1>2, DropFires
<1>5. pending' \in SUBSET Keys /\ moved' \in [Talkers -> BOOLEAN]
  BY <1>2, <1>4, SocketEnqueue DEF Unix!push_wake, Unix!Bump, SocketIoTypes
<1>6. SocketIoTypes'
  BY <1>1, <1>2, <1>5 DEF SocketIoTypes, Unix!StartExit, Unix!PCs
<1>7. DeadTalkers'
  BY <1>1, <1>2 DEF SocketCounts, DeadTalkers, SocketTypes, SocketIoTypes, Unix!StartExit
<1> QED
  BY <1>1, <1>3, <1>6, <1>7, DropCounts

\* fork: the child had nothing and gets a copy of what the caller has.
LEMMA CloneCounts ==
    ASSUME SocketCounts, NEW r \in Talkers, NEW s \in Talkers, Unix!clone_table(r, s)
    PROVE  SocketCounts'
<1> USE DEF SocketCounts
<1>1. /\ upc[r] = "run" /\ upc[s] = "dead"
      /\ refs' = [x \in Unix!Ends |-> IF x \in ufds[r] THEN refs[x] + 1 ELSE refs[x]]
      /\ lrefs' = [i \in Listeners |-> IF Unix!key_l(i) \in ufds[r] THEN lrefs[i] + 1 ELSE lrefs[i]]
      /\ ufds' = [ufds EXCEPT ![s] = ufds[r]]
      /\ upc' = [upc EXCEPT ![s] = "run", ![r] = "flush"]
      /\ UNCHANGED <<call, key, moved, pending, taken, len, eof, backlog>>
  BY DEF Unix!clone_table, Unix!MayCall
<1>2. ufds[s] = {}
  BY <1>1 DEF DeadTalkers
<1>3. SocketTypes'
  <2>1. refs' \in [Unix!Ends -> Nat]
    BY <1>1 DEF SocketTypes
  <2>2. lrefs' \in [Listeners -> Nat]
    BY <1>1 DEF SocketTypes
  <2>3. ufds' \in [Talkers -> SUBSET Keys]
    BY <1>1 DEF SocketTypes
  <2>4. SocketIoTypes'
    BY <1>1 DEF SocketTypes, SocketIoTypes, Unix!PCs
  <2> QED
    BY <1>1, <2>1, <2>2, <2>3, <2>4 DEF SocketTypes
<1>4. \A x : /\ x \in ufds[r] => OpenIn(x)' = OpenIn(x) \cup {s} /\ s \notin OpenIn(x)
             /\ x \notin ufds[r] => OpenIn(x)' = OpenIn(x)
  BY <1>1, <1>2 DEF OpenIn, SocketTypes
<1>5. ASSUME NEW x \in Unix!Ends
      PROVE  refs'[x] = Cardinality(OpenIn(x)') + Cardinality(WaitingIn(x)')
  <2>1. refs[x] = Cardinality(OpenIn(x)) + Cardinality(WaitingIn(x))
    BY ExactIs
  <2>2. Cardinality(OpenIn(x)) \in Nat /\ Cardinality(WaitingIn(x)) \in Nat
    BY HoldersFinite, SetPlus
  <2>3. WaitingIn(x)' = WaitingIn(x)
    BY <1>1 DEF WaitingIn, Unix!Waiting
  <2>4. CASE x \in ufds[r]
    <3>1. Cardinality(OpenIn(x)') = Cardinality(OpenIn(x)) + 1
      BY <1>4, <2>4, OpenChange
    <3> QED
      BY <1>1, <2>1, <2>2, <2>3, <2>4, <3>1
  <2>5. CASE x \notin ufds[r]
    BY <1>1, <1>4, <2>1, <2>3, <2>5
  <2> QED
    BY <2>4, <2>5
<1>6. ASSUME NEW i \in Listeners
      PROVE  lrefs'[i] = Cardinality(OpenIn(Unix!key_l(i))')
  <2>1. PICK x : x = Unix!key_l(i)
    OBVIOUS
  <2>2. lrefs[i] = Cardinality(OpenIn(x))
    BY <2>1, ExactIs
  <2>3. lrefs'[i] = Cardinality(OpenIn(x)')
    <3>1. CASE x \in ufds[r]
      <4>1. Cardinality(OpenIn(x)') = Cardinality(OpenIn(x)) + 1
        BY <1>4, <3>1, OpenChange
      <4> QED
        BY <1>1, <2>1, <2>2, <3>1, <4>1
    <3>2. CASE x \notin ufds[r]
      BY <1>1, <1>4, <2>1, <2>2, <3>2
    <3> QED
      BY <3>1, <3>2
  <2> QED
    BY <2>1, <2>3 DEF OpenIn
<1>7. Unix!RefsExact'
  BY <1>5, <1>6, ExactIsNext
<1>8. Unaccepted'
  <2>1. \A i \in Listeners : lrefs'[i] = 0 => lrefs[i] = 0
    BY <1>1 DEF SocketTypes
  <2>2. \A x : (\A u \in Talkers : x \notin ufds[u]) => \A u \in Talkers : x \notin ufds'[u]
    BY <1>1 DEF SocketTypes
  <2> QED
    BY <1>1, <2>1, <2>2 DEF Unaccepted
<1>9. DeadTalkers'
  BY <1>1 DEF DeadTalkers, SocketTypes, SocketIoTypes
<1> QED
  BY <1>3, <1>7, <1>8, <1>9

\* Every step keeps the counters.
LEMMA CountStep == SocketCounts /\ [Unix!Next]_sockets => SocketCounts'
<1> SUFFICES ASSUME SocketCounts, [Unix!Next]_sockets PROVE SocketCounts'
  OBVIOUS
<1>1. CASE UNCHANGED sockets
  <2>1. SocketIoTypes' /\ len' \in [Unix!Ends -> Nat] /\ eof' \in [Unix!Ends -> BOOLEAN]
    BY <1>1 DEF SocketCounts, SocketTypes, SocketIoTypes, sockets
  <2> QED
    BY <1>1, <2>1, SameCounts DEF sockets
<1>2. ASSUME NEW r \in Talkers, Unix!Protocol(r) PROVE SocketCounts'
  BY <1>2, ProtocolCounts
<1>3. ASSUME NEW r \in Talkers, Unix!release(r) PROVE SocketCounts'
  BY <1>3, ReleaseCounts
<1>4. ASSUME NEW r \in Talkers, NEW c \in Conns, Unix!socketpair(r, c) PROVE SocketCounts'
  BY <1>4, SocketpairCounts
<1>5. ASSUME NEW r \in Talkers, NEW x \in Unix!Ends, Unix!read(r, x) PROVE SocketCounts'
  BY <1>5, ReadCounts
<1>6. ASSUME NEW r \in Talkers, NEW x \in Unix!Ends, Unix!write(r, x) PROVE SocketCounts'
  BY <1>6, WriteCounts
<1>7. ASSUME NEW r \in Talkers, NEW x \in Unix!Ends, NEW how \in 0 .. 2,
             Unix!shutdown(r, x, {y \in {x, Unix!Peer(x)} :
                                    (y = x => how # 1) /\ (y # x => how # 0)})
      PROVE SocketCounts'
  <2>1. PICK shut : shut = {y \in {x, Unix!Peer(x)} : (y = x => how # 1) /\ (y # x => how # 0)}
    OBVIOUS
  <2>2. shut \in SUBSET Unix!Ends
    BY <2>1, SocketKeys
  <2>3. Unix!shutdown(r, x, shut)
    BY <1>7, <2>1
  <2> QED
    BY <2>2, <2>3, ShutdownCounts
<1>8. ASSUME NEW r \in Talkers, NEW i \in Listeners, Unix!listen(r, i) PROVE SocketCounts'
  BY <1>8, ListenCounts
<1>9. ASSUME NEW r \in Talkers, NEW i \in Listeners, Unix!accept(r, i) PROVE SocketCounts'
  BY <1>9, AcceptCounts
<1>10. ASSUME NEW r \in Talkers, NEW i \in Listeners, NEW c \in Conns, Unix!connect(r, i, c)
       PROVE  SocketCounts'
  BY <1>10, ConnectCounts
<1>11. ASSUME NEW r \in Talkers, NEW d \in Keys, Unix!close(r, d) PROVE SocketCounts'
  BY <1>11, CloseCounts
<1>12. ASSUME NEW r \in Talkers, NEW s \in Talkers, Unix!clone_table(r, s) PROVE SocketCounts'
  BY <1>12, CloneCounts
<1> QED
  BY <1>1, <1>2, <1>3, <1>4, <1>5, <1>6, <1>7, <1>8, <1>9, <1>10, <1>11, <1>12 DEF Unix!Next

\* The boot state has no descriptor and no connection.
LEMMA CountInit == Unix!Init => SocketCounts
<1> SUFFICES ASSUME Unix!Init PROVE SocketCounts
  OBVIOUS
<1>1. SocketTypes
  BY EmptySeq DEF Unix!Init, Unix!IoInit, SocketTypes, SocketIoTypes, Unix!PCs
<1>2. \A i \in Listeners : backlog[i] = <<>>
  BY DEF Unix!Init
<1>3. \A x : OpenIn(x) = {}
  BY DEF Unix!Init, OpenIn
<1>4. \A x \in Unix!Ends : WaitingIn(x) = {}
  <2> SUFFICES ASSUME NEW x \in Unix!Ends, NEW i \in WaitingIn(x) PROVE FALSE
    OBVIOUS
  <2>1. i \in Listeners /\ x[2] \in Unix!ToSet(backlog[i])
    BY <1>1, WaitingIs
  <2> QED
    BY <1>2, <2>1, EmptyBacklog
<1>5. Unix!RefsExact
  <2>1. \A x \in Unix!Ends : Cardinality(OpenIn(x)) = 0 /\ Cardinality(WaitingIn(x)) = 0
    BY <1>3, <1>4, FS_EmptySet
  <2>2. \A i \in Listeners : Cardinality(OpenIn(Unix!key_l(i))) = 0
    BY <1>3, FS_EmptySet
  <2>3. /\ \A x \in Unix!Ends : refs[x] = 0
        /\ \A i \in Listeners : lrefs[i] = 0
    BY DEF Unix!Init
  <2>4. \A x \in Unix!Ends : refs[x] = Cardinality(OpenIn(x)) + Cardinality(WaitingIn(x))
    BY <2>1, <2>3
  <2> QED
    BY <2>2, <2>3, <2>4, ExactIs
<1>6. Unaccepted
  BY <1>2, EmptyBacklog DEF Unaccepted
<1>7. DeadTalkers
  BY DEF DeadTalkers, Unix!Init
<1> QED
  BY <1>1, <1>5, <1>6, <1>7 DEF SocketCounts

-----------------------------------------------------------------------------
(* No wake-up of a reader or of an accept is lost, when PENDING has room for *)
(* every key.                                                              *)

SocketRoom == Cardinality(Keys) <= PendingMax

\* The calls that are woken: read on an end, accept on a listener; what
\* they wait for is their key.
WokenCalls == {<<"read", x>> : x \in Unix!Ends} \cup
              {<<"accept", Unix!key_l(i)>> : i \in Listeners}

\* Where a process may have a key to wait for, where it must, and that it is
\* the one of its call.
SocketKeysNoted ==
    \A r \in Talkers :
        /\ upc[r] \in {"run", "exit", "dead"} => key[r] = Unix!NoKey
        /\ upc[r] \in {"wait", "IoWait"} => key[r] \in Keys
        /\ key[r] \in Keys => \/ call[r] \in WokenCalls /\ call[r][2] = key[r]
                              \/ call[r][1] = "write"

\* A process on its way to sleep notices that its call would now proceed.
SocketNoted ==
    \A r \in Talkers : /\ upc[r] \in {"flush", "fire", "wait"}
                       /\ key[r] \in Keys
                       /\ call[r] \in WokenCalls
                       /\ Unix!Proceeds(call[r])
                       => moved[r]

\* A sleeper whose call would proceed has its key on the way.
SocketWoken ==
    \A r \in Talkers : /\ upc[r] = "IoWait"
                       /\ call[r] \in WokenCalls
                       /\ Unix!Proceeds(call[r])
                       => Unix!OnItsWay(key[r])

SocketWakes == SocketKeysNoted /\ SocketNoted /\ SocketWoken

LEMMA WokenShape ==
    /\ \A c \in WokenCalls : c[2] \in Keys /\ c[1] # "write"
    /\ \A x \in Unix!Ends : <<"read", x>> \in WokenCalls
    /\ \A i \in Listeners : <<"accept", Unix!key_l(i)>> \in WokenCalls
  BY SocketKeys DEF WokenCalls

\* This is what NoLostWakeup says.
LEMMA WokenIsNoLoss ==
    ASSUME SocketTypes, SocketKeysNoted, SocketWoken
    PROVE  Unix!NoLostWakeup
<1> SUFFICES ASSUME NEW r \in Talkers, upc[r] = "IoWait", call[r][1] \in {"read", "accept"},
                    Unix!Proceeds(call[r])
             PROVE  Unix!OnItsWay(key[r])
  BY DEF Unix!NoLostWakeup, Unix!Woken
<1>1. call[r] \in WokenCalls
  BY DEF SocketKeysNoted
<1> QED
  BY <1>1 DEF SocketWoken

\* push_wake drops nothing when PENDING has room for every key.
LEMMA SocketEnqueueAll ==
    ASSUME SocketRoom, pending \in SUBSET Keys, NEW K \in SUBSET Keys, Unix!Enqueue(K)
    PROVE  pending' = pending \cup K
<1>1. pending \cup K \in SUBSET Keys
  OBVIOUS
<1>2. Cardinality(pending \cup K) \in Nat /\ Cardinality(pending \cup K) <= Cardinality(Keys)
  BY <1>1, FiniteKeys, FS_Subset, FS_CardinalityType
<1>3. Cardinality(Keys) \in Nat /\ PendingMax \in Nat
  BY TalkersAssumption, FiniteKeys, FS_CardinalityType
<1>4. ~(Cardinality(pending \cup K) > PendingMax)
  BY <1>2, <1>3 DEF SocketRoom
<1> QED
  BY <1>4, SameSize DEF Unix!Enqueue

\* What an action with push_wake or NoWake does to the queue.
LEMMA SocketPushed ==
    ASSUME SocketRoom, SocketIoTypes, NEW K \in SUBSET Keys, Unix!push_wake(K)
    PROVE  /\ pending' = pending \cup K
           /\ \A r \in Talkers : moved[r] \/ (key[r] \in K /\ upc[r] # "IoWait") => moved'[r]
  BY SocketEnqueueAll DEF Unix!push_wake, Unix!Bump, SocketIoTypes

LEMMA SocketNotPushed ==
    ASSUME Unix!NoWake
    PROVE  /\ pending' = pending \cup {}
           /\ \A r \in Talkers : moved[r] \/ (key[r] \in {} /\ upc[r] # "IoWait") => moved'[r]
  BY DEF Unix!NoWake

\* What a process does to its own place in the protocol when it ends a call
\* without a key, starts to die, or is born.
SocketLeaves(r) == /\ upc[r] \in {"run", "IoWait", "dead"}
                   /\ upc'[r] \in {"run", "flush", "exit"}
                   /\ key'[r] = Unix!NoKey

SocketStays(r) == upc'[r] = upc[r] /\ key'[r] = key[r] /\ call'[r] = call[r]

\* A call that ends leaves the other processes where they were.
LEMMA SocketDoneLeaves ==
    ASSUME SocketIoTypes, NEW r \in Talkers, upc[r] = "run", Unix!Done(r)
    PROVE  /\ taken' = taken
           /\ \A s \in Talkers : SocketStays(s) \/ SocketLeaves(s)
  BY DEF Unix!Done, SocketStays, SocketLeaves, SocketIoTypes

\* An action that fires every key whose waiters it lets proceed loses
\* nobody: whoever sleeps has its key queued, whoever is about to sleep saw
\* the counter move.
LEMMA SocketWakeStep ==
    ASSUME SocketWakes, NEW K \in SUBSET Keys,
           pending' = pending \cup K,
           taken' = taken,
           \A s \in Talkers : SocketStays(s) \/ SocketLeaves(s),
           \A s \in Talkers : moved[s] \/ (key[s] \in K /\ upc[s] # "IoWait") => moved'[s],
           \A c \in WokenCalls : Unix!Proceeds(c)' => Unix!Proceeds(c) \/ c[2] \in K
    PROVE  SocketWakes'
<1> USE DEF SocketWakes
<1>1. SocketKeysNoted'
  BY SocketKeys DEF SocketKeysNoted, SocketStays, SocketLeaves, WokenCalls
<1>2. \A k \in Keys : Unix!OnItsWay(k) \/ k \in K => Unix!OnItsWay(k)'
  BY DEF Unix!OnItsWay, SocketLeaves, SocketStays
<1>3. \A s \in Talkers : upc'[s] \in {"wait", "fire", "IoWait"} => SocketStays(s)
  BY DEF SocketLeaves
<1>4. SocketWoken'
  <2> SUFFICES ASSUME NEW s \in Talkers, upc'[s] = "IoWait", call'[s] \in WokenCalls,
                      Unix!Proceeds(call[s])'
               PROVE  Unix!OnItsWay(key[s])'
    BY DEF SocketWoken, WokenCalls
  <2>1. /\ upc[s] = "IoWait" /\ key'[s] = key[s] /\ key[s] \in Keys
        /\ call'[s] = call[s] /\ call[s] \in WokenCalls /\ call[s][2] = key[s]
    BY <1>3, WokenShape DEF SocketKeysNoted, SocketStays
  <2>2. Unix!Proceeds(call[s]) \/ key[s] \in K
    BY <2>1 DEF Unix!Proceeds
  <2>3. Unix!OnItsWay(key[s]) \/ key[s] \in K
    BY <2>1, <2>2 DEF SocketWoken
  <2> QED
    BY <1>2, <2>1, <2>3 DEF Unix!OnItsWay
<1>5. SocketNoted'
  <2> SUFFICES ASSUME NEW s \in Talkers, upc'[s] \in {"flush", "fire", "wait"},
                      key'[s] \in Keys, call'[s] \in WokenCalls, Unix!Proceeds(call[s])'
               PROVE  moved'[s]
    BY DEF SocketNoted, WokenCalls
  <2>1. /\ upc'[s] = upc[s] /\ key'[s] = key[s] /\ call'[s] = call[s]
        /\ call[s] \in WokenCalls /\ call[s][2] = key[s]
    BY SocketKeys, WokenShape DEF SocketLeaves, SocketStays, SocketKeysNoted
  <2>2. Unix!Proceeds(call[s]) \/ key[s] \in K
    BY <2>1 DEF Unix!Proceeds
  <2> QED
    BY <2>1, <2>2 DEF SocketNoted
<1> QED
  BY <1>1, <1>4, <1>5

\* A call that must wait would not proceed when it notes its key.
LEMMA SocketBlockWakes ==
    ASSUME SocketIoTypes, SocketWakes, NEW r \in Talkers, NEW c, NEW k \in Keys, upc[r] = "run",
           Unix!would_block(r, c, k), UNCHANGED <<len, eof, refs, backlog>>,
           (c \in WokenCalls /\ c[2] = k /\ ~Unix!Proceeds(c)) \/ (c[1] = "write" /\ c \notin WokenCalls)
    PROVE  SocketWakes'
<1> USE DEF SocketWakes
<1>1. /\ upc' = [upc EXCEPT ![r] = "flush"]
      /\ call' = [call EXCEPT ![r] = c]
      /\ key' = [key EXCEPT ![r] = k]
      /\ moved' = [moved EXCEPT ![r] = FALSE]
      /\ UNCHANGED <<pending, taken>>
  BY DEF Unix!would_block
<1>2. /\ upc'[r] = "flush" /\ call'[r] = c /\ key'[r] = k
      /\ \A s \in Talkers : s # r => SocketStays(s) /\ moved'[s] = moved[s]
  BY <1>1 DEF SocketIoTypes, SocketStays
<1>3. SocketKeysNoted'
  BY <1>2 DEF SocketKeysNoted, SocketStays, WokenCalls
<1>4. \A d : Unix!Proceeds(d)' <=> Unix!Proceeds(d)
  BY DEF Unix!Proceeds
<1>5. SocketWoken'
  <2> SUFFICES ASSUME NEW s \in Talkers, upc'[s] = "IoWait", call'[s] \in WokenCalls,
                      Unix!Proceeds(call[s])'
               PROVE  Unix!OnItsWay(key[s])'
    BY DEF SocketWoken, WokenCalls
  <2>1. s # r /\ SocketStays(s)
    BY <1>2
  <2>2. Unix!Proceeds(call[s])
    BY <2>1 DEF Unix!Proceeds, SocketStays
  <2>3. Unix!OnItsWay(key[s])
    BY <2>1, <2>2 DEF SocketWoken, SocketStays
  <2>4. \A u \in Talkers : upc[u] = "fire" => upc'[u] = "fire"
    BY <1>2 DEF SocketStays
  <2> QED
    BY <1>1, <2>1, <2>3, <2>4 DEF Unix!OnItsWay, SocketStays
<1>6. SocketNoted'
  <2> SUFFICES ASSUME NEW s \in Talkers, upc'[s] \in {"flush", "fire", "wait"},
                      key'[s] \in Keys, call'[s] \in WokenCalls, Unix!Proceeds(call[s])'
               PROVE  moved'[s]
    BY DEF SocketNoted, WokenCalls
  <2>1. CASE s = r
    BY <1>2, <2>1 DEF Unix!Proceeds
  <2>2. CASE s # r
    <3>1. SocketStays(s) /\ moved'[s] = moved[s]
      BY <1>2, <2>2
    <3>2. Unix!Proceeds(call[s])
      BY <3>1 DEF Unix!Proceeds, SocketStays
    <3> QED
      BY <3>1, <3>2 DEF SocketNoted, SocketStays
  <2> QED
    BY <2>1, <2>2
<1> QED
  BY <1>3, <1>5, <1>6

\* A call that is over and changed nothing anybody waits for.
LEMMA SocketQuiet ==
    ASSUME SocketIoTypes, SocketWakes, NEW r \in Talkers, upc[r] = "run",
           Unix!Done(r), Unix!NoWake,
           \A c \in WokenCalls : Unix!Proceeds(c)' => Unix!Proceeds(c)
    PROVE  SocketWakes'
<1>1. {} \in SUBSET Keys
  OBVIOUS
<1>2. \A c \in WokenCalls : Unix!Proceeds(c)' => Unix!Proceeds(c) \/ c[2] \in {}
  OBVIOUS
<1> QED
  BY <1>1, <1>2, SocketNotPushed, SocketDoneLeaves, SocketWakeStep

\* A call that is over and fired the keys of those it lets proceed.
LEMMA SocketFires ==
    ASSUME SocketRoom, SocketIoTypes, SocketWakes, NEW r \in Talkers, upc[r] = "run",
           Unix!Done(r), NEW K \in SUBSET Keys, Unix!push_wake(K),
           \A c \in WokenCalls : Unix!Proceeds(c)' => Unix!Proceeds(c) \/ c[2] \in K
    PROVE  SocketWakes'
  BY SocketPushed, SocketDoneLeaves, SocketWakeStep

\* What lets each of the calls proceed.
LEMMA ProceedsIs ==
    /\ \A x \in Unix!Ends :
          Unix!Proceeds(<<"read", x>>) <=> len[x] > 0 \/ refs[Unix!Peer(x)] = 0 \/ eof[x]
    /\ \A i \in Listeners :
          Unix!Proceeds(<<"accept", Unix!key_l(i)>>) <=> backlog[i] # <<>>
  BY DEF Unix!Proceeds, Unix!key_l

LEMMA ProceedsNext ==
    /\ \A x \in Unix!Ends :
          Unix!Proceeds(<<"read", x>>)' <=> len'[x] > 0 \/ refs'[Unix!Peer(x)] = 0 \/ eof'[x]
    /\ \A i \in Listeners :
          Unix!Proceeds(<<"accept", Unix!key_l(i)>>)' <=> backlog'[i] # <<>>
  BY DEF Unix!Proceeds, Unix!key_l

\* To see that a step lets nobody proceed but those of the keys K.
LEMMA ProceedsBy ==
    ASSUME NEW K,
           \A x \in Unix!Ends : x \notin K =>
              (len'[x] > 0 \/ refs'[Unix!Peer(x)] = 0 \/ eof'[x]
                 => len[x] > 0 \/ refs[Unix!Peer(x)] = 0 \/ eof[x]),
           \A i \in Listeners : Unix!key_l(i) \notin K => (backlog'[i] # <<>> => backlog[i] # <<>>)
    PROVE  \A c \in WokenCalls : Unix!Proceeds(c)' => Unix!Proceeds(c) \/ c[2] \in K
<1>1. \A x \in Unix!Ends : Unix!Proceeds(<<"read", x>>)' => Unix!Proceeds(<<"read", x>>) \/ x \in K
  BY ProceedsIs, ProceedsNext
<1>2. \A i \in Listeners : Unix!Proceeds(<<"accept", Unix!key_l(i)>>)'
                => Unix!Proceeds(<<"accept", Unix!key_l(i)>>) \/ Unix!key_l(i) \in K
  BY ProceedsIs, ProceedsNext
<1> SUFFICES ASSUME NEW c \in WokenCalls, Unix!Proceeds(c)' PROVE Unix!Proceeds(c) \/ c[2] \in K
  OBVIOUS
<1>3. CASE \E x \in Unix!Ends : c = <<"read", x>>
  <2>1. PICK x \in Unix!Ends : c = <<"read", x>>
    BY <1>3
  <2>2. c[2] = x /\ Unix!Proceeds(<<"read", x>>)'
    BY <2>1 DEF Unix!Proceeds
  <2> QED
    BY <1>1, <2>1, <2>2
<1>4. CASE \E i \in Listeners : c = <<"accept", Unix!key_l(i)>>
  <2>1. PICK i \in Listeners : c = <<"accept", Unix!key_l(i)>>
    BY <1>4
  <2>2. c[2] = Unix!key_l(i) /\ Unix!Proceeds(<<"accept", Unix!key_l(i)>>)'
    BY <2>1 DEF Unix!Proceeds
  <2> QED
    BY <1>2, <2>1, <2>2
<1> QED
  BY <1>3, <1>4 DEF WokenCalls

LEMMA ProceedsNone ==
    ASSUME \A x \in Unix!Ends :
              (len'[x] > 0 \/ refs'[Unix!Peer(x)] = 0 \/ eof'[x]
                 => len[x] > 0 \/ refs[Unix!Peer(x)] = 0 \/ eof[x]),
           \A i \in Listeners : backlog'[i] # <<>> => backlog[i] # <<>>
    PROVE  \A c \in WokenCalls : Unix!Proceeds(c)' => Unix!Proceeds(c)
<1>1. PICK K : K = {}
  OBVIOUS
<1>2. \A c \in WokenCalls : Unix!Proceeds(c)' => Unix!Proceeds(c) \/ c[2] \in K
  BY ProceedsBy
<1> QED
  BY <1>1, <1>2

\* A read takes bytes away, or waits when there are none.
LEMMA ReadWakes ==
    ASSUME SocketRoom, SocketCounts, SocketWakes, NEW r \in Talkers, NEW x \in Unix!Ends,
           Unix!read(r, x)
    PROVE  SocketWakes'
<1>1. /\ SocketIoTypes /\ len \in [Unix!Ends -> Nat]
      /\ UNCHANGED <<eof, refs, lrefs, backlog, ufds>> /\ upc[r] = "run"
  BY DEF SocketCounts, SocketTypes, Unix!read, Unix!MayCall
<1>2. x \in Keys /\ {Unix!Peer(x)} \in SUBSET Keys
  BY SocketKeys
<1>3. CASE Unix!Done(r) /\ Unix!NoWake /\ len' = len
  <2>1. \A c \in WokenCalls : Unix!Proceeds(c)' => Unix!Proceeds(c)
    BY <1>1, <1>3 DEF Unix!Proceeds
  <2> QED
    BY <1>1, <1>3, <2>1, SocketQuiet
<1>4. CASE /\ len[x] = 0 /\ refs[Unix!Peer(x)] > 0 /\ ~eof[x]
           /\ Unix!would_block(r, <<"read", x>>, x) /\ len' = len
  <2>1. ~Unix!Proceeds(<<"read", x>>)
    <3>1. ~(len[x] > 0 \/ refs[Unix!Peer(x)] = 0 \/ eof[x])
      BY <1>4
    <3> QED
      BY <3>1, ProceedsIs
  <2>2. <<"read", x>> \in WokenCalls /\ <<"read", x>>[2] = x
    BY WokenShape
  <2>3. UNCHANGED <<len, eof, refs, backlog>>
    BY <1>1, <1>4
  <2> QED
    BY <1>1, <1>2, <1>4, <2>1, <2>2, <2>3, SocketBlockWakes
<1>5. CASE /\ \E n \in 1 .. len[x] : len' = [len EXCEPT ![x] = @ - n]
           /\ Unix!Done(r) /\ Unix!push_wake({Unix!Peer(x)})
  <2>1. \A y \in Unix!Ends : len'[y] > 0 => len[y] > 0
    BY <1>1, <1>5
  <2>2. \A c \in WokenCalls : Unix!Proceeds(c)' => Unix!Proceeds(c) \/ c[2] \in {Unix!Peer(x)}
    BY <1>1, <2>1, ProceedsBy
  <2> QED
    BY <1>1, <1>2, <1>5, <2>2, SocketFires
<1> QED
  BY <1>3, <1>4, <1>5 DEF Unix!read

\* A write brings bytes to the peer, whose key it fires.
LEMMA WriteWakes ==
    ASSUME SocketRoom, SocketCounts, SocketWakes, NEW r \in Talkers, NEW x \in Unix!Ends,
           Unix!write(r, x)
    PROVE  SocketWakes'
<1>1. /\ SocketIoTypes /\ len \in [Unix!Ends -> Nat]
      /\ UNCHANGED <<eof, refs, lrefs, backlog, ufds>> /\ upc[r] = "run"
  BY DEF SocketCounts, SocketTypes, Unix!write, Unix!MayCall
<1>2. Unix!Peer(x) \in Keys /\ {Unix!Peer(x)} \in SUBSET Keys
  BY SocketKeys
<1>3. CASE Unix!Done(r) /\ Unix!NoWake /\ len' = len
  <2>1. \A c \in WokenCalls : Unix!Proceeds(c)' => Unix!Proceeds(c)
    BY <1>1, <1>3 DEF Unix!Proceeds
  <2> QED
    BY <1>1, <1>3, <2>1, SocketQuiet
<1>4. CASE Unix!would_block(r, <<"write", x>>, Unix!Peer(x)) /\ len' = len
  <2>1. <<"write", x>>[1] = "write" /\ <<"write", x>> \notin WokenCalls
    BY DEF WokenCalls
  <2>2. UNCHANGED <<len, eof, refs, backlog>>
    BY <1>1, <1>4
  <2> QED
    BY <1>1, <1>2, <1>4, <2>1, <2>2, SocketBlockWakes
<1>5. CASE /\ \E n \in 1 .. Cap - len[Unix!Peer(x)] : len' = [len EXCEPT ![Unix!Peer(x)] = @ + n]
           /\ Unix!Done(r) /\ Unix!push_wake({Unix!Peer(x)})
  <2>1. \A y \in Unix!Ends : y \notin {Unix!Peer(x)} => len'[y] = len[y]
    BY <1>1, <1>5
  <2>2. \A c \in WokenCalls : Unix!Proceeds(c)' => Unix!Proceeds(c) \/ c[2] \in {Unix!Peer(x)}
    BY <1>1, <2>1, ProceedsBy
  <2> QED
    BY <1>1, <1>2, <1>5, <2>2, SocketFires
<1> QED
  BY <1>3, <1>4, <1>5 DEF Unix!write

\* shutdown: the readers of the sides that were shut down are told.
LEMMA ShutdownWakes ==
    ASSUME SocketRoom, SocketCounts, SocketWakes, NEW r \in Talkers, NEW x \in Unix!Ends,
           NEW shut \in SUBSET Unix!Ends, Unix!shutdown(r, x, shut)
    PROVE  SocketWakes'
<1>1. /\ SocketIoTypes /\ upc[r] = "run"
      /\ UNCHANGED <<len, refs, lrefs, backlog, ufds>>
      /\ eof' = [y \in Unix!Ends |-> eof[y] \/ y \in shut]
      /\ Unix!Done(r) /\ Unix!push_wake(shut)
  BY DEF SocketCounts, SocketTypes, Unix!shutdown, Unix!MayCall
<1>2. shut \in SUBSET Keys
  BY SocketKeys
<1>3. \A c \in WokenCalls : Unix!Proceeds(c)' => Unix!Proceeds(c) \/ c[2] \in shut
  <2>1. \A y \in Unix!Ends : y \notin shut => (eof'[y] => eof[y])
    BY <1>1
  <2> QED
    BY <1>1, <2>1, ProceedsBy
<1> QED
  BY <1>1, <1>2, <1>3, SocketFires

\* A connection just taken was unused: both its ends proceeded already.
LEMMA UnusedProceeds ==
    ASSUME SocketCounts, NEW c \in Conns, Unix!conn_new(c)
    PROVE  \A x \in Unix!Ends : len'[x] > 0 \/ refs'[Unix!Peer(x)] = 0 \/ eof'[x]
                => len[x] > 0 \/ refs[Unix!Peer(x)] = 0 \/ eof[x]
<1>1. /\ ~Unix!Used(c)
      /\ refs' = [x \in Unix!Ends |-> IF x[2] = c THEN 1 ELSE refs[x]]
      /\ len'  = [x \in Unix!Ends |-> IF x[2] = c THEN 0 ELSE len[x]]
      /\ eof'  = [x \in Unix!Ends |-> eof[x] /\ x[2] # c]
  BY DEF Unix!conn_new
<1>2. \A x \in Unix!Ends : Unix!Peer(x) \in Unix!Ends /\ Unix!Peer(x)[2] = x[2]
  BY SocketKeys
<1>3. \A x \in Unix!Ends : x[2] = c => refs[x] = 0
  BY <1>1, UnusedConn
<1> QED
  BY <1>1, <1>2, <1>3

LEMMA SocketpairWakes ==
    ASSUME SocketCounts, SocketWakes, NEW r \in Talkers, NEW c \in Conns, Unix!socketpair(r, c)
    PROVE  SocketWakes'
<1>1. /\ SocketIoTypes /\ Unix!conn_new(c) /\ backlog' = backlog
      /\ Unix!Done(r) /\ Unix!NoWake /\ upc[r] = "run"
  BY DEF SocketCounts, SocketTypes, Unix!socketpair, Unix!MayCall
<1>2. \A d \in WokenCalls : Unix!Proceeds(d)' => Unix!Proceeds(d)
  BY <1>1, UnusedProceeds, ProceedsNone
<1> QED
  BY <1>1, <1>2, SocketQuiet

\* listen: nothing waits in the backlog of a new listener.
LEMMA ListenWakes ==
    ASSUME SocketCounts, SocketWakes, NEW r \in Talkers, NEW i \in Listeners, Unix!listen(r, i)
    PROVE  SocketWakes'
<1>1. /\ SocketIoTypes /\ UNCHANGED <<len, eof, refs>> /\ backlog \in [Listeners -> Seq(Conns)]
      /\ backlog' = [backlog EXCEPT ![i] = <<>>]
      /\ Unix!Done(r) /\ Unix!NoWake /\ upc[r] = "run"
  BY DEF SocketCounts, SocketTypes, Unix!listen, Unix!MayCall
<1>2. \A j \in Listeners : backlog'[j] # <<>> => backlog[j] # <<>>
  BY <1>1
<1>3. \A d \in WokenCalls : Unix!Proceeds(d)' => Unix!Proceeds(d)
  BY <1>1, <1>2, ProceedsNone
<1> QED
  BY <1>1, <1>3, SocketQuiet

\* connect: whoever sleeps in accept on the listener is told.
LEMMA ConnectWakes ==
    ASSUME SocketRoom, SocketCounts, SocketWakes, NEW r \in Talkers, NEW i \in Listeners,
           NEW c \in Conns, Unix!connect(r, i, c)
    PROVE  SocketWakes'
<1>1. /\ SocketIoTypes /\ Unix!conn_new(c) /\ backlog \in [Listeners -> Seq(Conns)]
      /\ backlog' = [backlog EXCEPT ![i] = Append(@, c)]
      /\ Unix!Done(r) /\ Unix!push_wake({Unix!key_l(i)}) /\ upc[r] = "run"
  BY DEF SocketCounts, SocketTypes, Unix!connect, Unix!MayCall
<1>2. {Unix!key_l(i)} \in SUBSET Keys
  BY SocketKeys
<1>3. \A j \in Listeners : Unix!key_l(j) \notin {Unix!key_l(i)} => backlog'[j] = backlog[j]
  BY <1>1
<1>4. \A d \in WokenCalls : Unix!Proceeds(d)' => Unix!Proceeds(d) \/ d[2] \in {Unix!key_l(i)}
  BY <1>1, <1>3, UnusedProceeds, ProceedsBy
<1> QED
  BY <1>1, <1>2, <1>4, SocketFires

\* accept takes a connection away, or waits when there is none.
LEMMA AcceptWakes ==
    ASSUME SocketCounts, SocketWakes, NEW r \in Talkers, NEW i \in Listeners, Unix!accept(r, i)
    PROVE  SocketWakes'
<1>1. /\ SocketIoTypes /\ UNCHANGED <<len, eof, refs>> /\ backlog \in [Listeners -> Seq(Conns)]
      /\ upc[r] = "run"
  BY DEF SocketCounts, SocketTypes, Unix!accept, Unix!MayCall
<1>2. Unix!key_l(i) \in Keys
  BY SocketKeys
<1>3. CASE /\ backlog[i] = <<>>
           /\ Unix!would_block(r, <<"accept", Unix!key_l(i)>>, Unix!key_l(i))
           /\ backlog' = backlog
  <2>1. ~Unix!Proceeds(<<"accept", Unix!key_l(i)>>)
    BY <1>3, ProceedsIs
  <2>2. <<"accept", Unix!key_l(i)>> \in WokenCalls
        /\ <<"accept", Unix!key_l(i)>>[2] = Unix!key_l(i)
    BY WokenShape
  <2>3. UNCHANGED <<len, eof, refs, backlog>>
    BY <1>1, <1>3
  <2> QED
    BY <1>1, <1>2, <1>3, <2>1, <2>2, <2>3, SocketBlockWakes
<1>4. CASE /\ backlog[i] # <<>>
           /\ backlog' = [backlog EXCEPT ![i] = Tail(@)]
           /\ Unix!Done(r) /\ Unix!NoWake
  <2>1. \A j \in Listeners : backlog'[j] # <<>> => backlog[j] # <<>>
    BY <1>1, <1>4
  <2>2. \A d \in WokenCalls : Unix!Proceeds(d)' => Unix!Proceeds(d)
    BY <1>1, <2>1, ProceedsNone
  <2> QED
    BY <1>1, <1>4, <2>2, SocketQuiet
<1> QED
  BY <1>3, <1>4 DEF Unix!accept

\* Descriptors that go away: only the readers whose peer is gone proceed.
LEMMA DropProceeds ==
    ASSUME SocketCounts, NEW D, Unix!drop_refs(D), NEW K,
           \A x \in Unix!Ends : refs'[Unix!Peer(x)] = 0 /\ refs[Unix!Peer(x)] # 0 => x \in K
    PROVE  \A c \in WokenCalls : Unix!Proceeds(c)' => Unix!Proceeds(c) \/ c[2] \in K
<1>1. /\ \A x \in Unix!Ends : len'[x] \in {0, len[x]}
      /\ \A x \in Unix!Ends : eof'[x] => eof[x]
      /\ backlog' = [i \in Listeners |-> IF i \in ClosedListeners(D) THEN <<>> ELSE backlog[i]]
  BY DropIs
<1>2. \A x \in Unix!Ends : x \notin K =>
         (len'[x] > 0 \/ refs'[Unix!Peer(x)] = 0 \/ eof'[x]
            => len[x] > 0 \/ refs[Unix!Peer(x)] = 0 \/ eof[x])
  BY <1>1
<1>3. \A i \in Listeners : backlog'[i] # <<>> => backlog[i] # <<>>
  BY <1>1
<1> QED
  BY <1>2, <1>3, ProceedsBy

LEMMA CloseWakes ==
    ASSUME SocketRoom, SocketCounts, SocketWakes, NEW r \in Talkers, NEW d \in Keys,
           Unix!close(r, d)
    PROVE  SocketWakes'
<1>1. Unix!drop_refs({d}) /\ Unix!Done(r) /\ upc[r] = "run" /\ SocketTypes /\ SocketIoTypes
  BY DEF Unix!close, Unix!MayCall, SocketCounts, SocketTypes
<1>2. PICK K \in SUBSET Keys :
         /\ Unix!push_wake(K)
         /\ \A x \in Unix!Ends : refs'[Unix!Peer(x)] = 0 /\ refs[Unix!Peer(x)] # 0 => x \in K
  BY <1>1, DropFires
<1>3. \A c \in WokenCalls : Unix!Proceeds(c)' => Unix!Proceeds(c) \/ c[2] \in K
  BY <1>1, <1>2, DropProceeds
<1> QED
  BY <1>1, <1>2, <1>3, SocketFires

LEMMA ReleaseWakes ==
    ASSUME SocketRoom, SocketCounts, SocketWakes, NEW r \in Talkers, Unix!release(r)
    PROVE  SocketWakes'
<1>1. /\ Unix!drop_refs(ufds[r]) /\ Unix!StartExit(r) /\ upc[r] \in {"run", "IoWait"}
      /\ SocketTypes /\ SocketIoTypes
  BY DEF Unix!release, Unix!CanExit, SocketCounts, SocketTypes
<1>2. PICK K \in SUBSET Keys :
         /\ Unix!push_wake(K)
         /\ \A x \in Unix!Ends : refs'[Unix!Peer(x)] = 0 /\ refs[Unix!Peer(x)] # 0 => x \in K
  BY <1>1, DropFires
<1>3. \A c \in WokenCalls : Unix!Proceeds(c)' => Unix!Proceeds(c) \/ c[2] \in K
  BY <1>1, <1>2, DropProceeds
<1>4. taken' = taken /\ \A s \in Talkers : SocketStays(s) \/ SocketLeaves(s)
  BY <1>1 DEF Unix!StartExit, SocketStays, SocketLeaves, SocketIoTypes
<1> QED
  BY <1>1, <1>2, <1>3, <1>4, SocketPushed, SocketWakeStep

\* fork only adds descriptors: nobody proceeds because of it.
LEMMA CloneWakes ==
    ASSUME SocketCounts, SocketWakes, NEW r \in Talkers, NEW s \in Talkers,
           Unix!clone_table(r, s)
    PROVE  SocketWakes'
<1>1. /\ upc[r] = "run" /\ upc[s] = "dead" /\ key[r] = Unix!NoKey /\ key[s] = Unix!NoKey
      /\ SocketIoTypes
      /\ refs' = [x \in Unix!Ends |-> IF x \in ufds[r] THEN refs[x] + 1 ELSE refs[x]]
      /\ upc' = [upc EXCEPT ![s] = "run", ![r] = "flush"]
      /\ UNCHANGED <<call, key, moved, pending, taken, len, eof, backlog>>
  BY DEF Unix!clone_table, Unix!MayCall, SocketWakes, SocketKeysNoted, SocketCounts, SocketTypes
<1>2. \A x \in Unix!Ends : refs'[Unix!Peer(x)] = 0 => refs[Unix!Peer(x)] = 0
  BY <1>1, SocketKeys DEF SocketCounts, SocketTypes
<1>3. \A c \in WokenCalls : Unix!Proceeds(c)' => Unix!Proceeds(c)
  BY <1>1, <1>2, ProceedsNone
<1>4. PICK K : K = {}
  OBVIOUS
<1>5. /\ K \in SUBSET Keys /\ pending' = pending \cup K /\ taken' = taken
      /\ \A u \in Talkers : moved[u] \/ (key[u] \in K /\ upc[u] # "IoWait") => moved'[u]
      /\ \A c \in WokenCalls : Unix!Proceeds(c)' => Unix!Proceeds(c) \/ c[2] \in K
  BY <1>1, <1>3, <1>4
<1>6. \A u \in Talkers : SocketStays(u) \/ SocketLeaves(u)
  BY <1>1 DEF SocketStays, SocketLeaves, SocketIoTypes
<1> QED
  BY <1>5, <1>6, SocketWakeStep

-----------------------------------------------------------------------------
(* The protocol: keys move from PENDING to the one that fires them, and only *)
(* the firing of a key takes it away.                                      *)

\* What the protocol leaves alone, and what it asks of a step of it.
LEMMA SocketProtocolStep ==
    ASSUME SocketIoTypes, SocketWakes, UNCHANGED <<call, len, eof, refs, backlog>>,
           SocketKeysNoted',
           \A s \in Talkers : upc'[s] = "IoWait" /\ upc[s] # "IoWait" =>
              upc[s] = "wait" /\ key'[s] = key[s] /\ ~moved[s],
           \A s \in Talkers : upc'[s] = "IoWait" /\ upc[s] = "IoWait" =>
              key'[s] = key[s] /\ (Unix!OnItsWay(key[s]) => Unix!OnItsWay(key[s])'),
           \A s \in Talkers : upc'[s] \in {"flush", "fire", "wait"} /\ key'[s] \in Keys =>
              /\ upc[s] \in {"flush", "fire", "wait"} /\ key'[s] = key[s]
              /\ moved'[s] = moved[s]
    PROVE  SocketWakes'
<1> USE DEF SocketWakes
<1>1. \A c : Unix!Proceeds(c)' <=> Unix!Proceeds(c)
  BY DEF Unix!Proceeds
<1>2. SocketWoken'
  <2> SUFFICES ASSUME NEW s \in Talkers, upc'[s] = "IoWait", call'[s] \in WokenCalls,
                      Unix!Proceeds(call[s])'
               PROVE  Unix!OnItsWay(key[s])'
    BY DEF SocketWoken, WokenCalls
  <2>1. call'[s] = call[s] /\ Unix!Proceeds(call[s])
    BY DEF Unix!Proceeds
  <2>2. CASE upc[s] = "IoWait"
    <3>1. Unix!OnItsWay(key[s])
      BY <2>1, <2>2 DEF SocketWoken
    <3>2. key'[s] = key[s] /\ (Unix!OnItsWay(key[s]) => Unix!OnItsWay(key[s])')
      BY <2>2
    <3> QED
      BY <3>1, <3>2
  <2>3. CASE upc[s] # "IoWait"
    <3>1. upc[s] = "wait" /\ key'[s] = key[s] /\ ~moved[s] /\ key[s] \in Keys
      BY <2>3 DEF SocketKeysNoted
    <3> QED
      BY <2>1, <3>1 DEF SocketNoted
  <2> QED
    BY <2>2, <2>3
<1>3. SocketNoted'
  <2> SUFFICES ASSUME NEW s \in Talkers, upc'[s] \in {"flush", "fire", "wait"},
                      key'[s] \in Keys, call'[s] \in WokenCalls, Unix!Proceeds(call[s])'
               PROVE  moved'[s]
    BY DEF SocketNoted, WokenCalls
  <2>1. /\ call'[s] = call[s] /\ Unix!Proceeds(call[s])
        /\ upc[s] \in {"flush", "fire", "wait"} /\ key'[s] = key[s]
        /\ moved'[s] = moved[s]
    BY DEF Unix!Proceeds
  <2> QED
    BY <2>1 DEF SocketNoted
<1> QED
  BY <1>2, <1>3

LEMMA TakeWakes ==
    ASSUME SocketIoTypes, SocketWakes, NEW r \in Talkers, Unix!take_wakes(r),
           UNCHANGED <<len, eof, refs, backlog>>
    PROVE  SocketWakes'
<1>1. /\ upc[r] = "flush"
      /\ upc' = [upc EXCEPT ![r] = IF pending = {} THEN Unix!AfterFlush(r) ELSE "fire"]
      /\ taken' = [taken EXCEPT ![r] = pending] /\ pending' = {}
      /\ UNCHANGED <<key, moved, call>>
  BY DEF Unix!take_wakes
<1>2. Unix!AfterFlush(r) = IF key[r] = Unix!NoKey THEN "run" ELSE "wait"
  BY DEF Unix!AfterFlush
<1>3. /\ \A s \in Talkers : s # r => upc'[s] = upc[s]
      /\ upc'[r] = IF pending = {} THEN Unix!AfterFlush(r) ELSE "fire"
      /\ key[r] \in Keys \cup {Unix!NoKey}
  BY <1>1 DEF SocketIoTypes
<1>4. SocketKeysNoted'
  BY <1>1, <1>2, <1>3 DEF SocketWakes, SocketKeysNoted
<1>5. \A s \in Talkers : upc'[s] = "IoWait" => upc[s] = "IoWait"
  BY <1>1, <1>2, <1>3
<1>6. ASSUME NEW s \in Talkers, upc'[s] = "IoWait", upc[s] = "IoWait", Unix!OnItsWay(key[s])
      PROVE  Unix!OnItsWay(key[s])'
  <2>1. CASE key[s] \in pending
    <3>1. upc'[r] = "fire" /\ key[s] \in taken'[r]
      BY <1>1, <1>3, <2>1 DEF SocketIoTypes
    <3> QED
      BY <1>1, <3>1 DEF Unix!OnItsWay
  <2>2. CASE key[s] \notin pending
    <3>1. PICK u \in Talkers : upc[u] = "fire" /\ key[s] \in taken[u]
      BY <1>6, <2>2 DEF Unix!OnItsWay
    <3>2. u # r /\ upc'[u] = "fire" /\ key[s] \in taken'[u]
      BY <1>1, <1>3, <3>1 DEF SocketIoTypes
    <3> QED
      BY <1>1, <3>2 DEF Unix!OnItsWay
  <2> QED
    BY <2>1, <2>2
<1>7. \A s \in Talkers : upc'[s] \in {"flush", "fire", "wait"} =>
         upc[s] \in {"flush", "fire", "wait"}
  BY <1>1, <1>3
<1> QED
  BY <1>1, <1>4, <1>5, <1>6, <1>7, SocketProtocolStep

LEMMA FireWakes ==
    ASSUME SocketIoTypes, SocketWakes, NEW r \in Talkers, Unix!io_wake(r),
           UNCHANGED <<len, eof, refs, backlog>>
    PROVE  SocketWakes'
<1>1. PICK k \in taken[r] :
         /\ taken' = [taken EXCEPT ![r] = @ \ {k}]
         /\ upc' = Unix!Awaken({k}, IF taken[r] = {k}
                                   THEN [upc EXCEPT ![r] = Unix!AfterFlush(r)] ELSE upc)
         /\ key' = Unix!ForgetKey({k})
  BY DEF Unix!io_wake
<1>2. upc[r] = "fire" /\ UNCHANGED <<moved, pending, call>>
  BY DEF Unix!io_wake
<1>3. \A s \in Talkers : s # r =>
         /\ upc[s] = "IoWait" /\ key[s] = k => upc'[s] = "run" /\ key'[s] = Unix!NoKey
         /\ ~(upc[s] = "IoWait" /\ key[s] = k) => upc'[s] = upc[s] /\ key'[s] = key[s]
  BY <1>1 DEF Unix!Awaken, Unix!ForgetKey, SocketIoTypes
<1>4. /\ key'[r] = key[r]
      /\ taken[r] # {k} => upc'[r] = "fire"
      /\ taken[r] = {k} => upc'[r] = IF key[r] = Unix!NoKey THEN "run" ELSE "wait"
  BY <1>1, <1>2 DEF Unix!Awaken, Unix!ForgetKey, Unix!AfterFlush, SocketIoTypes
<1>5. SocketKeysNoted'
  <2> SUFFICES ASSUME NEW s \in Talkers
               PROVE  /\ upc'[s] \in {"run", "exit", "dead"} => key'[s] = Unix!NoKey
                      /\ upc'[s] \in {"wait", "IoWait"} => key'[s] \in Keys
                      /\ key'[s] \in Keys => \/ call[s] \in WokenCalls /\ call[s][2] = key'[s]
                                             \/ call[s][1] = "write"
    BY <1>2 DEF SocketKeysNoted, WokenCalls
  <2>1. key[s] \in Keys \cup {Unix!NoKey} /\ Unix!NoKey \notin Keys
    BY SocketKeys DEF SocketIoTypes
  <2>2. CASE s = r
    BY <1>2, <1>4, <2>1, <2>2 DEF SocketWakes, SocketKeysNoted
  <2>3. CASE s # r
    BY <1>3, <2>1, <2>3 DEF SocketWakes, SocketKeysNoted
  <2> QED
    BY <2>2, <2>3
<1>6. \A s \in Talkers : upc'[s] = "IoWait" => upc[s] = "IoWait" /\ key'[s] = key[s] /\ key[s] # k
  BY <1>2, <1>3, <1>4
<1>7. ASSUME NEW s \in Talkers, upc'[s] = "IoWait", upc[s] = "IoWait", Unix!OnItsWay(key[s])
      PROVE  Unix!OnItsWay(key[s])'
  <2>1. key'[s] = key[s] /\ key[s] # k
    BY <1>6, <1>7
  <2>2. CASE key[s] \in pending
    BY <1>2, <2>1, <2>2 DEF Unix!OnItsWay
  <2>3. CASE key[s] \notin pending
    <3>1. PICK u \in Talkers : upc[u] = "fire" /\ key[s] \in taken[u]
      BY <1>7, <2>3 DEF Unix!OnItsWay
    <3>2. CASE u = r
      <4>1. taken[r] # {k} /\ key[s] \in taken'[r]
        BY <1>1, <2>1, <3>1, <3>2 DEF SocketIoTypes
      <4> QED
        BY <1>4, <2>1, <4>1 DEF Unix!OnItsWay
    <3>3. CASE u # r
      <4>1. upc'[u] = "fire" /\ key[s] \in taken'[u]
        BY <1>1, <1>3, <3>1, <3>3 DEF SocketIoTypes
      <4> QED
        BY <2>1, <4>1 DEF Unix!OnItsWay
    <3> QED
      BY <3>2, <3>3
  <2> QED
    BY <2>2, <2>3
<1>8. \A s \in Talkers : upc'[s] \in {"flush", "fire", "wait"} =>
         upc[s] \in {"flush", "fire", "wait"} /\ key'[s] = key[s]
  BY <1>2, <1>3, <1>4
<1> QED
  BY <1>2, <1>5, <1>6, <1>7, <1>8, SocketProtocolStep

LEMMA SleepWakes ==
    ASSUME SocketIoTypes, SocketWakes, NEW r \in Talkers, Unix!io_wait_until(r),
           UNCHANGED <<len, eof, refs, backlog>>
    PROVE  SocketWakes'
<1>1. /\ upc[r] = "wait" /\ UNCHANGED <<pending, taken, call>>
      /\ moved' = [moved EXCEPT ![r] = FALSE]
      /\ \/ moved[r] /\ upc' = [upc EXCEPT ![r] = "run"] /\ key' = [key EXCEPT ![r] = Unix!NoKey]
         \/ ~moved[r] /\ upc' = [upc EXCEPT ![r] = "IoWait"] /\ key' = key
  BY DEF Unix!io_wait_until
<1>2. \A s \in Talkers : s # r => upc'[s] = upc[s] /\ key'[s] = key[s] /\ moved'[s] = moved[s]
  BY <1>1 DEF SocketIoTypes
<1>3. \/ upc'[r] = "run" /\ key'[r] = Unix!NoKey
      \/ upc'[r] = "IoWait" /\ key'[r] = key[r] /\ ~moved[r]
  BY <1>1 DEF SocketIoTypes
<1>4. SocketKeysNoted'
  BY <1>1, <1>2, <1>3, SocketKeys DEF SocketWakes, SocketKeysNoted, WokenCalls
<1>5. ASSUME NEW s \in Talkers, upc'[s] = "IoWait", upc[s] = "IoWait", Unix!OnItsWay(key[s])
      PROVE  key'[s] = key[s] /\ Unix!OnItsWay(key[s])'
  <2>1. s # r /\ key'[s] = key[s]
    BY <1>1, <1>2, <1>5
  <2>2. \A u \in Talkers : upc[u] = "fire" => upc'[u] = "fire"
    BY <1>1, <1>2
  <2> QED
    BY <1>1, <1>5, <2>1, <2>2 DEF Unix!OnItsWay
<1>6. \A s \in Talkers : upc'[s] = "IoWait" => key'[s] = key[s]
  BY <1>2, <1>3
<1> QED
  BY <1>1, <1>2, <1>3, <1>4, <1>5, <1>6, SocketProtocolStep

LEMMA ExitWakes ==
    ASSUME SocketIoTypes, SocketWakes, NEW r \in Talkers, Unix!exit_flush(r),
           UNCHANGED <<len, eof, refs, backlog>>
    PROVE  SocketWakes'
<1>1. /\ upc[r] = "exit" /\ UNCHANGED <<moved, taken, call>> /\ pending' = {}
      /\ upc' = [Unix!Awaken(pending, upc) EXCEPT ![r] = "dead"]
      /\ key' = Unix!ForgetKey(pending)
  BY DEF Unix!exit_flush
<1>2. \A s \in Talkers : s # r =>
         /\ upc[s] = "IoWait" /\ key[s] \in pending => upc'[s] = "run" /\ key'[s] = Unix!NoKey
         /\ ~(upc[s] = "IoWait" /\ key[s] \in pending) => upc'[s] = upc[s] /\ key'[s] = key[s]
  BY <1>1 DEF Unix!Awaken, Unix!ForgetKey
<1>3. upc'[r] = "dead" /\ key'[r] = key[r]
  BY <1>1 DEF Unix!Awaken, Unix!ForgetKey
<1>4. SocketKeysNoted'
  BY <1>1, <1>2, <1>3, SocketKeys DEF SocketWakes, SocketKeysNoted, WokenCalls
<1>5. \A s \in Talkers : upc'[s] = "IoWait" =>
         upc[s] = "IoWait" /\ key'[s] = key[s] /\ key[s] \notin pending
  BY <1>2, <1>3
<1>6. ASSUME NEW s \in Talkers, upc'[s] = "IoWait", upc[s] = "IoWait", Unix!OnItsWay(key[s])
      PROVE  Unix!OnItsWay(key[s])'
  <2>1. key'[s] = key[s] /\ key[s] \notin pending
    BY <1>5, <1>6
  <2>2. PICK u \in Talkers : upc[u] = "fire" /\ key[s] \in taken[u]
    BY <1>6, <2>1 DEF Unix!OnItsWay
  <2>3. upc'[u] = "fire"
    BY <1>1, <1>2, <2>2
  <2> QED
    BY <1>1, <2>1, <2>2, <2>3 DEF Unix!OnItsWay
<1>7. \A s \in Talkers : upc'[s] \in {"flush", "fire", "wait"} =>
         upc[s] \in {"flush", "fire", "wait"} /\ key'[s] = key[s]
  BY <1>2, <1>3
<1> QED
  BY <1>1, <1>4, <1>5, <1>6, <1>7, SocketProtocolStep

\* Every step keeps the wake-ups, as long as PENDING has room.
LEMMA SocketWakesStep == SocketRoom => (SocketCounts /\ SocketWakes /\ [Unix!Next]_sockets => SocketWakes')
<1> SUFFICES ASSUME SocketRoom, SocketCounts, SocketWakes, [Unix!Next]_sockets PROVE SocketWakes'
  OBVIOUS
<1>0. SocketIoTypes
  BY DEF SocketCounts, SocketTypes
<1>1. CASE UNCHANGED sockets
  BY <1>1 DEF SocketWakes, SocketKeysNoted, SocketNoted, SocketWoken, Unix!Proceeds,
              Unix!OnItsWay, WokenCalls, sockets
<1>2. ASSUME NEW r \in Talkers, Unix!Protocol(r) PROVE SocketWakes'
  <2>1. Unix!IoNext(r) /\ UNCHANGED <<len, eof, refs, backlog>>
    BY <1>2 DEF Unix!Protocol, Unix!unixVars
  <2> QED
    BY <1>0, <2>1, TakeWakes, FireWakes, SleepWakes, ExitWakes DEF Unix!IoNext
<1>3. ASSUME NEW r \in Talkers, Unix!release(r) PROVE SocketWakes'
  BY <1>3, ReleaseWakes
<1>4. ASSUME NEW r \in Talkers, NEW c \in Conns, Unix!socketpair(r, c) PROVE SocketWakes'
  BY <1>4, SocketpairWakes
<1>5. ASSUME NEW r \in Talkers, NEW x \in Unix!Ends, Unix!read(r, x) PROVE SocketWakes'
  BY <1>5, ReadWakes
<1>6. ASSUME NEW r \in Talkers, NEW x \in Unix!Ends, Unix!write(r, x) PROVE SocketWakes'
  BY <1>6, WriteWakes
<1>7. ASSUME NEW r \in Talkers, NEW x \in Unix!Ends, NEW how \in 0 .. 2,
             Unix!shutdown(r, x, {y \in {x, Unix!Peer(x)} :
                                    (y = x => how # 1) /\ (y # x => how # 0)})
      PROVE SocketWakes'
  <2>1. PICK shut : shut = {y \in {x, Unix!Peer(x)} : (y = x => how # 1) /\ (y # x => how # 0)}
    OBVIOUS
  <2>2. shut \in SUBSET Unix!Ends
    BY <2>1, SocketKeys
  <2>3. Unix!shutdown(r, x, shut)
    BY <1>7, <2>1
  <2> QED
    BY <2>2, <2>3, ShutdownWakes
<1>8. ASSUME NEW r \in Talkers, NEW i \in Listeners, Unix!listen(r, i) PROVE SocketWakes'
  BY <1>8, ListenWakes
<1>9. ASSUME NEW r \in Talkers, NEW i \in Listeners, Unix!accept(r, i) PROVE SocketWakes'
  BY <1>9, AcceptWakes
<1>10. ASSUME NEW r \in Talkers, NEW i \in Listeners, NEW c \in Conns, Unix!connect(r, i, c)
       PROVE  SocketWakes'
  BY <1>10, ConnectWakes
<1>11. ASSUME NEW r \in Talkers, NEW d \in Keys, Unix!close(r, d) PROVE SocketWakes'
  BY <1>11, CloseWakes
<1>12. ASSUME NEW r \in Talkers, NEW s \in Talkers, Unix!clone_table(r, s) PROVE SocketWakes'
  BY <1>12, CloneWakes
<1> QED
  BY <1>1, <1>2, <1>3, <1>4, <1>5, <1>6, <1>7, <1>8, <1>9, <1>10, <1>11, <1>12 DEF Unix!Next

-----------------------------------------------------------------------------
(* The theorems about local sockets. *)

LEMMA SocketCountsAlways == MCSpec => []SocketCounts
<1>1. MCInit => SocketCounts
  BY CountInit DEF MCInit
<1>2. SocketCounts /\ [MCNext]_mcVars => SocketCounts'
  BY StepOfSockets, CountStep
<1> QED
  BY <1>1, <1>2, PTL DEF MCSpec, mcVars

\* The reference counts of local sockets are exact (socketpair, accept,
\* connect, close, clone_table): an end counts its descriptors and the backlog
\* it waits in, a listener its descriptors.
THEOREM UnixRefsExact == MCSpec => []Unix!RefsExact
<1>1. SocketCounts => Unix!RefsExact
  BY DEF SocketCounts
<1> QED
  BY <1>1, SocketCountsAlways, PTL

\* No wake-up is lost on a local socket (would_block, io_wait_until,
\* push_wake and flush_wakes together): whoever sleeps in read on an end that
\* has data, whose peer is gone or that was shut down, or in accept while a
\* connection waits, has its event on its way; for any number of processes,
\* connections and listeners, provided PENDING has room for every key.
THEOREM UnixNoLostWakeup ==
    ASSUME SocketRoom
    PROVE  MCSpec => []UnixWakes
<1>1. MCInit => SocketWakes
  BY SocketKeys DEF MCInit, Unix!Init, Unix!IoInit, SocketWakes, SocketKeysNoted, SocketNoted, SocketWoken
<1>2. SocketCounts /\ SocketWakes /\ [MCNext]_mcVars => SocketWakes'
  BY StepOfSockets, SocketWakesStep
<1>3. SocketCounts /\ SocketWakes => UnixWakes
  BY WokenIsNoLoss DEF UnixWakes, SocketWakes, SocketCounts
<1> QED
  BY <1>1, <1>2, <1>3, SocketCountsAlways, PTL DEF MCSpec, mcVars

=============================================================================
