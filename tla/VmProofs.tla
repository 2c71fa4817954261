----------------------------- MODULE VmProofs ------------------------------
(***************************************************************************)
(* Proofs about Vm, for any number of threads, address spaces, pages and   *)
(* frames: the counts of the frames, what pages show and allow, and that   *)
(* fork copies.                                                            *)
(***************************************************************************)
EXTENDS Vm, FiniteSetTheorems, TLAPS

-----------------------------------------------------------------------------
(* Types, and where threads are.                                           *)

Entries == [frame : Frames, prot : Prots \cup {"r"}]
InVm == {"count", "copy", "protect"}

OpOk(o) ==
    /\ o.pc \in {"user", "fault", "read", "map", "fork"} \cup InVm
    /\ o.pc = "user" => o = User
    /\ o.pc \in {"fault", "read", "map"} \cup InVm => o.page \in Pages
    /\ o.pc = "fault" => o.access \in {"read", "write"}
    /\ o.pc \in {"read", "map"} => o.v \in Areas /\ o.v.back = File
    /\ o.pc = "read" => o.n \in Nat \ {0} /\ o.page + o.n - 1 \in Pages
    /\ o.pc = "map" => \E k \in 1 .. NPages : /\ o.page + k - 1 \in Pages
                                             /\ o.frames \in Injection(1 .. k, Frames)
    /\ o.pc = "copy" => o.frame \in Frames
    /\ o.pc = "fork" => o.child \in Spaces

Types ==
    /\ area \in [Spaces -> [Pages -> Areas \cup {NoArea}]]
    /\ pte \in [Spaces -> [Pages -> Entries \cup {NoPte}]]
    /\ refs \in [Frames -> Nat]
    /\ origin = [f \in Frames |-> origin[f]]
    /\ sp \in [Threads -> Spaces \cup {NoSpace}]
    /\ op = [t \in Threads |-> op[t]] /\ \A t \in Threads : OpOk(op[t])

\* Who is in the kernel has a space; one thread at most has VM across steps, and
\* what it looked at stays.
Control ==
    /\ \A t \in Threads : op[t].pc # "user" => sp[t] # NoSpace
    /\ \A t, u \in Threads : op[t].pc \in InVm /\ op[u].pc \in InVm => t = u
    /\ \A t \in Threads : op[t].pc \in InVm => /\ pte[sp[t]][op[t].page] # NoPte
                                               /\ area[sp[t]][op[t].page] # NoArea
    /\ \A t \in Threads : op[t].pc = "copy" => pte[sp[t]][op[t].page].frame = op[t].frame

\* The space of a child to be is nobody else's and has no areas yet.
Children ==
    \A t \in Threads : op[t].pc = "fork" =>
        /\ \A u \in Threads : sp[u] # op[t].child
        /\ \A u \in Threads \ {t} : op[u].pc = "fork" => op[u].child # op[t].child
        /\ \A p \in Pages : area[op[t].child][p] = NoArea

\* A space that is nobody's is empty.
Empty == \A s \in Unused, p \in Pages : pte[s][p] = NoPte /\ area[s][p] = NoArea

Ctl == Types /\ Control /\ Children /\ Empty

\* Only the space s changes.
Within(s) ==
    /\ area' \in [Spaces -> [Pages -> Areas \cup {NoArea}]]
    /\ pte' \in [Spaces -> [Pages -> Entries \cup {NoPte}]]
    /\ \A x \in Spaces \ {s} : pte'[x] = pte[x] /\ area'[x] = area[x]

\* Records of no entry and no area are none of the others.
LEMMA Nones ==
  /\ \A e \in Entries : e # NoPte
  /\ \A a \in Areas : a # NoArea
BY VmAssumption DEF Entries, NoPte, Areas, NoArea, None

\* A step of a thread that faults: its own operation, entries of its space, frames.
OpStep(t, o) ==
    /\ t \in Threads /\ sp[t] # NoSpace /\ op[t].pc # "fork"
    /\ op' = [op EXCEPT ![t] = o] /\ OpOk(o) /\ o.pc # "fork"
    /\ UNCHANGED <<area, sp>>
    /\ Within(sp[t]) /\ (pte' = pte \/ VmFree \/ op[t].pc \in InVm)
    /\ refs' \in [Frames -> Nat] /\ origin' = [f \in Frames |-> origin'[f]]
    /\ o.pc \in InVm => /\ VmFree \/ op[t].pc \in InVm
                        /\ pte'[sp[t]][o.page] # NoPte /\ area[sp[t]][o.page] # NoArea
    /\ o.pc = "copy" => pte'[sp[t]][o.page].frame = o.frame

\* A step that changes only what a thread does in the kernel (and entries of
\* its own space) keeps Ctl, if what it does now is of the right shape.
LEMMA OpStepCtl ==
  ASSUME Ctl, NEW t, NEW o, OpStep(t, o)
  PROVE  Ctl'
<1>1. /\ t \in Threads /\ sp[t] \in Spaces /\ sp' = sp /\ area' = area
      /\ op'[t] = o /\ \A u \in Threads \ {t} : op'[u] = op[u]
  BY DEF OpStep, Ctl, Types
<1>2. Types'
  <2>1. op' = [u \in Threads |-> op'[u]]
    BY DEF OpStep, Ctl, Types
  <2>2. \A u \in Threads : OpOk(op'[u])
    BY <1>1 DEF OpStep, Ctl, Types
  <2> QED  BY <1>1, <2>1, <2>2 DEF OpStep, Within, Ctl, Types
<1>3. Control'
  <2>1. \A u \in Threads : op'[u].pc # "user" => sp'[u] # NoSpace
    BY <1>1 DEF OpStep, Ctl, Control
  <2>2. \A u \in Threads \ {t} : op[u].pc \in InVm => o.pc \notin InVm /\ pte' = pte
    BY <1>1 DEF OpStep, VmFree, Ctl, Control, InVm
  <2>3. \A u, w \in Threads : op'[u].pc \in InVm /\ op'[w].pc \in InVm => u = w
    BY <1>1, <2>2 DEF Ctl, Control
  <2>4. \A u \in Threads : op'[u].pc \in InVm => /\ pte'[sp'[u]][op'[u].page] # NoPte
                                                 /\ area'[sp'[u]][op'[u].page] # NoArea
    BY <1>1, <2>2 DEF OpStep, Ctl, Control
  <2>5. \A u \in Threads : op'[u].pc = "copy" => pte'[sp'[u]][op'[u].page].frame = op'[u].frame
    BY <1>1, <2>2 DEF OpStep, Ctl, Control, InVm
  <2> QED  BY <2>1, <2>3, <2>4, <2>5 DEF Control
<1>4. Children'
  BY <1>1 DEF OpStep, Ctl, Children
<1>5. Empty'
  <2>1. Unused' = Unused
    BY <1>1 DEF Unused, OpStep
  <2>2. \A s \in Unused : s \in Spaces \ {sp[t]}
    BY <1>1 DEF Unused
  <2>3. \A x \in Spaces \ {sp[t]} : pte'[x] = pte[x] /\ area'[x] = area[x]
    BY DEF OpStep, Within
  <2> QED  BY <2>1, <2>2, <2>3 DEF Ctl, Empty
<1> QED  BY <1>2, <1>3, <1>4, <1>5 DEF Ctl

\* A call of a thread, all of it under VM: areas and entries of its space.
CallStep(t) ==
    /\ t \in Threads /\ op[t] = User /\ sp[t] # NoSpace /\ VmFree
    /\ UNCHANGED <<sp, op, origin>> /\ Within(sp[t]) /\ refs' \in [Frames -> Nat]

\* A system call that ends in the same step and touches one space keeps Ctl.
LEMMA CallStepCtl ==
  ASSUME Ctl, NEW t, CallStep(t)
  PROVE  Ctl'
<1>1. t \in Threads /\ sp[t] \in Spaces /\ sp' = sp /\ op' = op
  BY DEF CallStep, Ctl, Types
<1>2. Types'
  BY <1>1 DEF CallStep, Within, Ctl, Types
<1>3. Control'
  BY <1>1 DEF CallStep, VmFree, InVm, Ctl, Control
<1>4. Children'
  BY <1>1 DEF CallStep, Within, Ctl, Children, Types, OpOk
<1>5. Empty'
  <2>1. Unused' = Unused
    BY <1>1 DEF Unused
  <2> QED  BY <1>1, <2>1 DEF Unused, Ctl, Empty, CallStep, Within
<1> QED  BY <1>2, <1>3, <1>4, <1>5 DEF Ctl

-----------------------------------------------------------------------------
(* Frames in use.                                                          *)

\* Counts stay counts.
LEMMA UsesType ==
  ASSUME NEW m, NEW f, NEW ps, IsFiniteSet(ps)
  PROVE  Uses(m, f, ps) \in Nat
<1>1. {p \in ps : m[p] # NoPte /\ m[p].frame = f} \subseteq ps
  OBVIOUS
<1> QED  BY <1>1, FS_Subset, FS_CardinalityType DEF Uses

\* The ranges the calls take are sets of pages, and there are finitely many
\* pages.
LEMMA PagesFinite ==
  /\ IsFiniteSet(Pages) /\ IsFiniteSet(Spaces \X Pages) /\ IsFiniteSet(Threads)
  /\ \A ps \in Ranges : ps \subseteq Pages /\ IsFiniteSet(ps)
<1>1. IsFiniteSet(Pages) /\ IsFiniteSet(Spaces) /\ IsFiniteSet(Threads)
  BY VmAssumption, FS_Interval DEF Pages
<1>2. \A ps \in Ranges : ps \subseteq Pages
  BY VmAssumption DEF Ranges, Pages
<1> QED  BY <1>1, <1>2, FS_Product, FS_Subset

\* Counters that let go of some frames are still counters.
LEMMA DroppedType ==
  ASSUME Types, NEW f \in Frames, NEW n \in Nat
  PROVE  Dropped(f, n) \in Nat
BY DEF Dropped, Types

\* unmap_range takes entries of s only.
LEMMA UnmapWithin ==
  ASSUME Types, NEW s \in Spaces, NEW ps \in SUBSET Pages, unmap_range(s, ps)
  PROVE  /\ pte' \in [Spaces -> [Pages -> Entries \cup {NoPte}]] /\ refs' \in [Frames -> Nat]
         /\ \A p \in Pages : pte'[s][p] = IF p \in ps THEN NoPte ELSE pte[s][p]
         /\ \A x \in Spaces \ {s} : pte'[x] = pte[x]
         /\ \A f \in Frames : refs'[f] = Dropped(f, Uses(pte[s], f, ps))
<1>1. IsFiniteSet(ps)
  BY PagesFinite, FS_Subset
<1>2. \A f \in Frames : Dropped(f, Uses(pte[s], f, ps)) \in Nat
  BY <1>1, UsesType, DroppedType
<1>3. /\ pte' = [pte EXCEPT ![s] = [p \in Pages |-> IF p \in ps THEN NoPte ELSE pte[s][p]]]
      /\ refs' = [f \in Frames |-> Dropped(f, Uses(pte[s], f, ps))]
  BY DEF unmap_range
<1> QED  BY <1>2, <1>3 DEF Types

-----------------------------------------------------------------------------
(* The actions are such steps.                                             *)

\* What a thread that is in the middle of a fault knows of itself.
LEMMA OpHas ==
  ASSUME Ctl, NEW t \in Threads, op[t].pc \notin {"user", "fork"}
  PROVE  sp[t] \in Spaces /\ sp[t] # NoSpace /\ op[t].page \in Pages /\ OpOk(op[t])
BY DEF Ctl, Types, Control, OpOk, InVm

\* Steps that change neither entries nor areas.
LEMMA SimpleOp ==
  ASSUME Ctl, NEW t \in Threads, NEW o, sp[t] # NoSpace, op[t].pc # "fork",
         op' = [op EXCEPT ![t] = o], OpOk(o), o.pc # "fork",
         UNCHANGED <<area, pte, sp>>, refs' \in [Frames -> Nat], origin' = [f \in Frames |-> origin'[f]],
         o.pc \in InVm => /\ VmFree \/ op[t].pc \in InVm
                          /\ pte[sp[t]][o.page] # NoPte /\ area[sp[t]][o.page] # NoArea,
         o.pc = "copy" => pte[sp[t]][o.page].frame = o.frame
  PROVE  OpStep(t, o)
BY DEF OpStep, Within, Ctl, Types

\* A thread in its program holds nothing and is not in vm.rs.
LEMMA UserOk == OpOk(User) /\ User.pc = "user" /\ "user" \notin InVm
BY DEF OpOk, User, InVm

\* A page fault begins: it holds nothing yet.
LEMMA TouchOp ==
  ASSUME Ctl, NEW t \in Threads, NEW p \in Pages, NEW access \in {"read", "write"}, touch(t, p, access)
  PROVE  OpStep(t, [pc |-> "fault", page |-> p, access |-> access])
<1> DEFINE o == [pc |-> "fault", page |-> p, access |-> access]
<1>1. OpOk(o) /\ o.pc = "fault" /\ "fault" \notin InVm
  BY DEF OpOk, User, InVm
<1>2. op[t].pc = "user" /\ sp[t] # NoSpace /\ op' = [op EXCEPT ![t] = o] /\ UNCHANGED <<area, pte, refs, origin, sp>>
  BY UserOk DEF touch
<1> HIDE DEF o
<1>3. OpStep(t, o)
  BY <1>1, <1>2, SimpleOp DEF Ctl, Types
<1> QED  BY <1>3 DEF o

\* A thread that goes back to its program is in a state of the right shape.
LEMMA ToUser ==
  ASSUME Ctl, NEW t \in Threads, op[t].pc \notin {"user", "fork"}, Done(t),
         UNCHANGED <<area, pte, sp>>, refs' \in [Frames -> Nat], origin' = [f \in Frames |-> origin'[f]]
  PROVE  OpStep(t, User)
BY OpHas, UserOk, SimpleOp DEF Done

\* What a fault does on seeing the area and the entry of its page.
LEMMA MappedOp ==
  ASSUME Ctl, NEW t \in Threads, fault_mapped(t)
  PROVE  \E pc \in {"count", "protect"} :
            /\ OpStep(t, [pc |-> pc, page |-> op[t].page])
            /\ pc = IF op[t].access = "write" THEN "count" ELSE "protect"
<1> DEFINE pc == IF op[t].access = "write" THEN "count" ELSE "protect"
           o == [pc |-> pc, page |-> op[t].page]
<1>1. op[t].pc = "fault" /\ VmFree /\ pte[sp[t]][op[t].page] # NoPte /\ area[sp[t]][op[t].page] # NoArea
  BY DEF fault_mapped, Faulting
<1>2. op[t].page \in Pages /\ sp[t] # NoSpace
  BY <1>1, OpHas
<1>3. op' = [op EXCEPT ![t] = o] /\ UNCHANGED <<area, pte, refs, origin, sp>>
  BY DEF fault_mapped
<1>4. OpOk(o) /\ o.pc \in {"count", "protect"} /\ o.page = op[t].page
  BY <1>2 DEF OpOk, User, InVm
<1> HIDE DEF o
<1>5. OpStep(t, o)
  BY <1>1, <1>2, <1>3, <1>4, SimpleOp DEF Ctl, Types
<1> QED  BY <1>5 DEF o

\* What a fault does on choosing between the file, the frame to copy and a new
\* one.
LEMMA FileOp ==
  ASSUME Ctl, NEW t \in Threads, fault_file(t)
  PROVE  \E n \in Nat :
            OpStep(t, [pc |-> "read", page |-> op[t].page, v |-> area[sp[t]][op[t].page], n |-> n])
<1>1. op[t].pc = "fault" /\ area[sp[t]][op[t].page] # NoArea /\ area[sp[t]][op[t].page].back = File
  BY DEF fault_file, Faulting
<1>2. op[t].page \in Pages /\ sp[t] # NoSpace /\ sp[t] \in Spaces
  BY <1>1, OpHas
<1>3. PICK n \in Missing(sp[t], op[t].page) :
          op' = [op EXCEPT ![t] = [pc |-> "read", page |-> op[t].page, v |-> area[sp[t]][op[t].page], n |-> n]]
  BY DEF fault_file
<1> DEFINE o == [pc |-> "read", page |-> op[t].page, v |-> area[sp[t]][op[t].page], n |-> n]
<1>4. n \in Nat \ {0} /\ op[t].page + n - 1 \in Pages
  <2>1. n \in 1 .. Around /\ \A q \in op[t].page .. op[t].page + n - 1 : q \in Pages
    BY DEF Missing, AreaOf
  <2>2. op[t].page \in Nat
    BY <1>2 DEF Pages
  <2> QED  BY <2>1, <2>2, VmAssumption
<1>5. area[sp[t]][op[t].page] \in Areas
  BY <1>1, <1>2 DEF Ctl, Types
<1>6. OpOk(o) /\ o.pc = "read" /\ "read" \notin InVm
  BY <1>1, <1>2, <1>4, <1>5 DEF OpOk, User, InVm
<1>7. UNCHANGED <<area, pte, refs, origin, sp>> /\ op' = [op EXCEPT ![t] = o]
  BY <1>3 DEF fault_file
<1> HIDE DEF o
<1>8. OpStep(t, o)
  BY <1>1, <1>2, <1>6, <1>7, SimpleOp DEF Ctl, Types
<1> QED  BY <1>4, <1>8 DEF o

\* What a fault does after reading the counter of the frame it would copy.
LEMMA CountOp ==
  ASSUME Ctl, NEW t \in Threads, fault_count(t)
  PROVE  LET e == pte[sp[t]][op[t].page] IN
         \/ /\ OpStep(t, [pc |-> "copy", page |-> op[t].page, frame |-> e.frame])
            /\ refs[e.frame] > 1
         \/ /\ OpStep(t, [pc |-> "protect", page |-> op[t].page])
            /\ ~(Permits(e.prot, "read") /\ refs[e.frame] > 1)
<1> DEFINE e == pte[sp[t]][op[t].page]
           o == IF Permits(e.prot, "read") /\ ref_count(e.frame) > 1
                THEN [pc |-> "copy", page |-> op[t].page, frame |-> e.frame]
                ELSE [pc |-> "protect", page |-> op[t].page]
<1>1. op[t].pc = "count" /\ "count" \in InVm
  BY DEF fault_count, InVm
<1>2. /\ op[t].page \in Pages /\ sp[t] # NoSpace /\ sp[t] \in Spaces
      /\ e # NoPte /\ area[sp[t]][op[t].page] # NoArea
  BY <1>1, OpHas DEF Ctl, Control
<1>3. e.frame \in Frames
  BY <1>2 DEF Ctl, Types, Entries
<1>4. op' = [op EXCEPT ![t] = o] /\ UNCHANGED <<area, pte, refs, origin, sp>>
  BY DEF fault_count
<1>5. /\ OpOk(o) /\ o.pc \in {"copy", "protect"} /\ o.page = op[t].page
      /\ o.pc = "copy" => o.frame = e.frame
  BY <1>2, <1>3 DEF OpOk, User, InVm
<1> HIDE DEF o
<1>6. OpStep(t, o)
  BY <1>1, <1>2, <1>4, <1>5, SimpleOp DEF Ctl, Types
<1> QED  BY <1>6 DEF o, ref_count

\* The end of a fault that changes entries of its space.
LEMMA EntryOp ==
  ASSUME Ctl, NEW t \in Threads, op[t].pc \notin {"user", "fork"}, Done(t),
         UNCHANGED <<area, sp>>, VmFree \/ op[t].pc \in InVm,
         NEW m \in [Pages -> Entries \cup {NoPte}], pte' = [pte EXCEPT ![sp[t]] = m],
         refs' \in [Frames -> Nat], origin' = [f \in Frames |-> origin'[f]]
  PROVE  OpStep(t, User) /\ pte'[sp[t]] = m
<1>1. sp[t] \in Spaces /\ sp[t] # NoSpace
  BY OpHas
<1>2. Within(sp[t]) /\ pte'[sp[t]] = m
  BY <1>1 DEF Within, Ctl, Types
<1> QED  BY <1>1, <1>2, UserOk DEF OpStep, Done

\* The entry of one page, and its area, as a fault knows them.
LEMMA FaultArea ==
  ASSUME Ctl, NEW t \in Threads, op[t].pc \notin {"user", "fork"},
         area[sp[t]][op[t].page] # NoArea
  PROVE  /\ area[sp[t]][op[t].page] \in Areas /\ area[sp[t]][op[t].page].prot \in Prots
         /\ \A m \in [Pages -> Entries \cup {NoPte}] :
               /\ Protected(m, op[t].page, area[sp[t]][op[t].page].prot) \in [Pages -> Entries \cup {NoPte}]
               /\ \A f \in Frames :
                     [m EXCEPT ![op[t].page] = [frame |-> f, prot |-> area[sp[t]][op[t].page].prot]]
                         \in [Pages -> Entries \cup {NoPte}]
<1>1. sp[t] \in Spaces /\ op[t].page \in Pages
  BY OpHas
<1>2. area[sp[t]][op[t].page] \in Areas
  BY <1>1 DEF Ctl, Types
<1>3. area[sp[t]][op[t].page].prot \in Prots
  BY <1>2 DEF Areas
<1>4. \A e \in Entries, prot \in Prots : [e EXCEPT !.prot = prot] \in Entries
  BY DEF Entries
<1>5. \A f \in Frames, prot \in Prots : [frame |-> f, prot |-> prot] \in Entries
  BY DEF Entries
<1>6. ASSUME NEW m \in [Pages -> Entries \cup {NoPte}]
      PROVE  Protected(m, op[t].page, area[sp[t]][op[t].page].prot) \in [Pages -> Entries \cup {NoPte}]
  <2>1. CASE m[op[t].page] = NoPte
    BY <2>1 DEF Protected
  <2>2. CASE m[op[t].page] # NoPte
    <3>1. m[op[t].page] \in Entries
      BY <1>1, <2>2
    <3>2. [m[op[t].page] EXCEPT !.prot = area[sp[t]][op[t].page].prot] \in Entries
      BY <3>1, <1>3, <1>4
    <3> QED  BY <2>2, <3>2 DEF Protected
  <2> QED  BY <2>1, <2>2
<1> QED  BY <1>1, <1>2, <1>3, <1>5, <1>6

\* A fault outside every area, or against its permissions, ends.
LEMMA DeniedOp ==
  ASSUME Ctl, NEW t \in Threads, fault_denied(t)
  PROVE  OpStep(t, User) /\ UNCHANGED <<pte, refs, origin>>
<1>1. op[t].pc = "fault" /\ Done(t) /\ UNCHANGED <<area, pte, refs, origin, sp>>
  BY DEF fault_denied
<1> QED  BY <1>1, ToUser DEF Ctl, Types

\* A fault without a frame left ends.
LEMMA FailedOp ==
  ASSUME Ctl, NEW t \in Threads, fault_read_failed(t)
  PROVE  OpStep(t, User) /\ UNCHANGED <<pte, refs, origin>>
<1>1. op[t].pc = "read" /\ Done(t) /\ UNCHANGED <<area, pte, refs, origin, sp>>
  BY DEF fault_read_failed
<1> QED  BY <1>1, ToUser DEF Ctl, Types

\* A fault whose area is gone when the file has been read lets its frames go.
LEMMA GoneOp ==
  ASSUME Ctl, NEW t \in Threads, fault_gone(t)
  PROVE  OpStep(t, User) /\ UNCHANGED <<pte, origin>>
<1>1. op[t].pc = "map" /\ Done(t) /\ UNCHANGED <<area, pte, origin, sp>>
  BY DEF fault_gone
<1>2. \A f \in Frames : Dropped(f, 1) \in Nat
  BY DroppedType DEF Ctl
<1>3. refs' \in [Frames -> Nat]
  BY <1>2 DEF fault_gone, Ctl, Types
<1> QED  BY <1>1, <1>3, ToUser DEF Ctl, Types

\* A fault that takes a frame of zeros.
LEMMA AnonOp ==
  ASSUME Ctl, NEW t \in Threads, fault_anon(t)
  PROVE  OpStep(t, User)
<1>1. op[t].pc = "fault" /\ VmFree /\ area[sp[t]][op[t].page] # NoArea /\ Done(t) /\ UNCHANGED <<area, sp>>
  BY DEF fault_anon, Faulting
<1>2. CASE UNCHANGED <<pte, refs, origin>>
  BY <1>1, <1>2, ToUser DEF Ctl, Types
<1>3. ASSUME NEW f \in FreeFrames,
             pte' = [pte EXCEPT ![sp[t]][op[t].page] = [frame |-> f, prot |-> area[sp[t]][op[t].page].prot]],
             refs' = [refs EXCEPT ![f] = 1], origin' = [origin EXCEPT ![f] = Zeros]
      PROVE  OpStep(t, User)
  <2>1. f \in Frames /\ sp[t] \in Spaces
    BY <1>1, OpHas DEF FreeFrames
  <2>2. PICK m : m = [pte[sp[t]] EXCEPT ![op[t].page] = [frame |-> f, prot |-> area[sp[t]][op[t].page].prot]]
    OBVIOUS
  <2>3. m \in [Pages -> Entries \cup {NoPte}] /\ pte' = [pte EXCEPT ![sp[t]] = m]
    BY <1>1, <1>3, <2>1, <2>2, FaultArea DEF Ctl, Types
  <2>4. refs' \in [Frames -> Nat] /\ origin' = [g \in Frames |-> origin'[g]]
    BY <1>3, <2>1 DEF Ctl, Types
  <2> QED  BY <1>1, <2>3, <2>4, EntryOp
<1> QED  BY <1>2, <1>3 DEF fault_anon

\* A fault that takes a frame to copy into.
LEMMA CopyOp ==
  ASSUME Ctl, NEW t \in Threads, fault_copy(t)
  PROVE  OpStep(t, User)
<1>1. op[t].pc = "copy" /\ "copy" \in InVm /\ Done(t) /\ UNCHANGED <<area, sp>>
  BY DEF fault_copy, InVm
<1>2. area[sp[t]][op[t].page] # NoArea /\ op[t].frame \in Frames
  BY <1>1, OpHas DEF Ctl, Control, OpOk
<1>3. CASE UNCHANGED <<pte, refs, origin>>
  BY <1>1, <1>3, ToUser DEF Ctl, Types
<1>4. ASSUME NEW f \in FreeFrames,
             pte' = [pte EXCEPT ![sp[t]][op[t].page] = [frame |-> f, prot |-> area[sp[t]][op[t].page].prot]],
             refs' = [refs EXCEPT ![f] = 1, ![op[t].frame] = Dropped(op[t].frame, 1)],
             origin' = [origin EXCEPT ![f] = origin[op[t].frame]]
      PROVE  OpStep(t, User)
  <2>1. f \in Frames /\ sp[t] \in Spaces
    BY <1>1, OpHas DEF FreeFrames
  <2>2. PICK m : m = [pte[sp[t]] EXCEPT ![op[t].page] = [frame |-> f, prot |-> area[sp[t]][op[t].page].prot]]
    OBVIOUS
  <2>3. m \in [Pages -> Entries \cup {NoPte}] /\ pte' = [pte EXCEPT ![sp[t]] = m]
    BY <1>1, <1>2, <1>4, <2>1, <2>2, FaultArea DEF Ctl, Types
  <2>4. Dropped(op[t].frame, 1) \in Nat
    BY <1>2, DroppedType DEF Ctl
  <2>5. refs' \in [Frames -> Nat] /\ origin' = [g \in Frames |-> origin'[g]]
    BY <1>4, <2>1, <2>4 DEF Ctl, Types
  <2> QED  BY <1>1, <2>3, <2>5, EntryOp
<1> QED  BY <1>3, <1>4 DEF fault_copy

\* A fault that only gives its page the right to write back.
LEMMA ProtectOp ==
  ASSUME Ctl, NEW t \in Threads, fault_protect(t)
  PROVE  /\ OpStep(t, User) /\ UNCHANGED <<refs, origin>>
         /\ \A p \in Pages :
               pte'[sp[t]][p] = IF p = op[t].page
                                THEN [pte[sp[t]][p] EXCEPT !.prot = area[sp[t]][op[t].page].prot]
                                ELSE pte[sp[t]][p]
<1>1. op[t].pc = "protect" /\ "protect" \in InVm /\ Done(t) /\ UNCHANGED <<area, refs, origin, sp>>
  BY DEF fault_protect, InVm
<1>2. area[sp[t]][op[t].page] # NoArea /\ sp[t] \in Spaces /\ pte[sp[t]][op[t].page] # NoPte
  BY <1>1, OpHas DEF Ctl, Control
<1>3. PICK m : m = Protected(pte[sp[t]], op[t].page, area[sp[t]][op[t].page].prot)
  OBVIOUS
<1>4. m \in [Pages -> Entries \cup {NoPte}]
  BY <1>1, <1>2, <1>3, FaultArea DEF Ctl, Types
<1>5. pte' = [pte EXCEPT ![sp[t]] = m]
  BY <1>3 DEF fault_protect
<1>6. OpStep(t, User) /\ pte'[sp[t]] = m
  <2>1. /\ op[t].pc \notin {"user", "fork"} /\ Done(t) /\ UNCHANGED <<area, sp>>
        /\ VmFree \/ op[t].pc \in InVm
        /\ refs' \in [Frames -> Nat] /\ origin' = [f \in Frames |-> origin'[f]]
    BY <1>1 DEF Ctl, Types
  <2> QED  BY <1>4, <1>5, <2>1, EntryOp
<1>7. pte[sp[t]] \in [Pages -> Entries \cup {NoPte}]
  BY <1>2 DEF Ctl, Types
<1> QED  BY <1>1, <1>2, <1>3, <1>6, <1>7 DEF Protected

\* What the thread does next, with frames fs for the pages from its own on.
Reading(t, fs) == [pc |-> "map", page |-> op[t].page, v |-> op[t].v, frames |-> fs]

ReadShape(t, k, fs) ==
    /\ fs \in Injection(1 .. k, FreeFrames)
    /\ op[t].page + k - 1 \in Pages
    /\ OpStep(t, Reading(t, fs))
    /\ pte' = pte
    /\ \A f \in Frames : /\ refs'[f] = IF f \in Range(fs) THEN 1 ELSE refs[f]
                         /\ f \notin Range(fs) => origin'[f] = origin[f]
    /\ \A i \in 1 .. k : origin'[fs[i]] = Content(op[t].v, op[t].page + i - 1)

\* k frames are filled from the file.
Fill(t, k, fs) ==
    /\ refs'   = [f \in Frames |-> IF f \in Range(fs) THEN 1 ELSE refs[f]]
    /\ origin' = [f \in Frames |->
          IF f \in Range(fs)
          THEN Content(op[t].v, op[t].page + (CHOOSE i \in 1 .. k : fs[i] = f) - 1)
          ELSE origin[f]]
    /\ op' = [op EXCEPT ![t] = [pc |-> "map", page |-> @.page, v |-> @.v, frames |-> fs]]

\* Read-ahead takes a frame for each page it can and reads the file into them.
LEMMA ReadOp ==
  ASSUME Ctl, NEW t \in Threads, fault_read(t)
  PROVE  \E k \in 1 .. NPages : \E fs : ReadShape(t, k, fs)
<1>1. op[t].pc = "read" /\ UNCHANGED <<area, pte, sp>>
  BY DEF fault_read
<1>2. /\ op[t].page \in Pages /\ sp[t] # NoSpace /\ sp[t] \in Spaces
      /\ op[t].v \in Areas /\ op[t].v.back = File
      /\ op[t].n \in Nat \ {0} /\ op[t].page + op[t].n - 1 \in Pages
  BY <1>1, OpHas DEF OpOk
<1>3. PICK k \in 1 .. op[t].n : \E fs \in Injection(1 .. k, FreeFrames) : Fill(t, k, fs)
  BY DEF fault_read, Fill
<1>4. PICK fs \in Injection(1 .. k, FreeFrames) : Fill(t, k, fs)
  BY <1>3
<1>5. op[t].page \in Nat /\ k \in 1 .. NPages /\ op[t].page + k - 1 \in Pages
  <2>1. PICK r, n : r = op[t].page /\ n = op[t].n
    OBVIOUS
  <2>2. r \in Pages /\ n \in Nat /\ r + n - 1 \in Pages /\ k \in 1 .. n
    BY <1>2, <1>3, <2>1
  <2>3. NPages \in Nat
    BY VmAssumption
  <2>4. r \in Nat /\ k \in 1 .. NPages /\ r + k - 1 \in Pages
    BY <2>2, <2>3 DEF Pages
  <2> QED  BY <2>1, <2>4
<1>6. /\ fs \in [1 .. k -> FreeFrames] /\ fs \in Injection(1 .. k, Frames)
      /\ \A i, j \in 1 .. k : fs[i] = fs[j] => i = j
      /\ Range(fs) \subseteq FreeFrames /\ \A i \in 1 .. k : fs[i] \in Range(fs)
      /\ FreeFrames \subseteq Frames
  BY DEF FreeFrames, Injection, IsInjective, Range
<1> DEFINE o == [pc |-> "map", page |-> op[t].page, v |-> op[t].v, frames |-> fs]
<1>7. OpOk(o) /\ o.pc = "map" /\ "map" \notin InVm
  BY <1>2, <1>5, <1>6 DEF OpOk, User, InVm
<1>8. op' = [op EXCEPT ![t] = o]
  BY <1>4 DEF Fill
<1> HIDE DEF o
<1>9. refs' \in [Frames -> Nat] /\ origin' = [f \in Frames |-> origin'[f]]
  BY <1>4 DEF Fill, Ctl, Types
<1>10. OpStep(t, o)
  BY <1>1, <1>2, <1>7, <1>8, <1>9, SimpleOp
<1>11. \A f \in Frames : /\ refs'[f] = IF f \in Range(fs) THEN 1 ELSE refs[f]
                         /\ f \notin Range(fs) => origin'[f] = origin[f]
  BY <1>4 DEF Fill
<1>12. ASSUME NEW i \in 1 .. k
       PROVE  origin'[fs[i]] = Content(op[t].v, op[t].page + i - 1)
  <2>1. (CHOOSE j \in 1 .. k : fs[j] = fs[i]) = i
    BY <1>6
  <2>2. fs[i] \in Frames /\ fs[i] \in Range(fs)
    BY <1>6
  <2> QED  BY <1>4, <2>1, <2>2 DEF Fill
<1>13. OpStep(t, Reading(t, fs))
  BY <1>10 DEF o, Reading
<1>14. ReadShape(t, k, fs)
  BY <1>1, <1>5, <1>11, <1>12, <1>13 DEF ReadShape
<1> QED  BY <1>5, <1>14

\* What fault_map does: the frames `mapped` of those that fit, the frames `back`.
Fitting(t, end) ==
    {i \in DOMAIN op[t].frames : /\ op[t].page + i - 1 <= end
                                 /\ Fits(area[sp[t]][op[t].page], op[t].v)
                                 /\ pte[sp[t]][op[t].page + i - 1] = NoPte}

MapShape(t, fits, mapped, back) ==
    /\ mapped \subseteq fits /\ back \subseteq Range(op[t].frames)
    /\ ~TablesFail => /\ mapped = fits
                      /\ back = {op[t].frames[i] : i \in DOMAIN op[t].frames \ fits}
    /\ \A q \in Pages : pte'[sp[t]][q] =
          IF q - op[t].page + 1 \in mapped
          THEN [frame |-> op[t].frames[q - op[t].page + 1], prot |-> area[sp[t]][op[t].page].prot]
          ELSE IF q = op[t].page /\ 1 \notin fits /\ pte[sp[t]][q] # NoPte
          THEN [pte[sp[t]][q] EXCEPT !.prot = area[sp[t]][op[t].page].prot]
          ELSE pte[sp[t]][q]
    /\ refs' = [f \in Frames |-> IF f \in back THEN Dropped(f, 1) ELSE refs[f]]

\* The frames read are mapped where nothing is mapped yet; the others are let
\* go.
LEMMA MapOp ==
  ASSUME Ctl, NEW t \in Threads, fault_map(t)
  PROVE  /\ OpStep(t, User) /\ origin' = origin /\ op[t].pc = "map" /\ VmFree
         /\ area[sp[t]][op[t].page] # NoArea
         /\ \E end \in AreaOf(sp[t], op[t].page) : \E mapped, back :
               MapShape(t, Fitting(t, end), mapped, back)
<1> DEFINE s == sp[t]
           p == op[t].page
           fs == op[t].frames
           cur == area[s][p]
<1>1. op[t].pc = "map" /\ VmFree /\ cur # NoArea /\ Done(t) /\ UNCHANGED <<area, origin, sp>>
  BY DEF fault_map
<1>2. s \in Spaces /\ p \in Pages /\ p \in Nat
  BY <1>1, OpHas DEF Pages
<1>3. PICK k \in 1 .. NPages : p + k - 1 \in Pages /\ fs \in Injection(1 .. k, Frames)
  BY <1>1, OpHas DEF OpOk
<1>4. DOMAIN fs = 1 .. k /\ \A i \in 1 .. k : fs[i] \in Frames /\ fs[i] \in Range(fs)
  BY <1>3 DEF Injection, Range
<1>5. PICK end \in AreaOf(s, p) :
          LET fits == {i \in DOMAIN fs : p + i - 1 <= end /\ Fits(cur, op[t].v) /\ pte[s][p + i - 1] = NoPte} IN
          \E failed \in IF TablesFail THEN SUBSET fits ELSE {{}} :
             LET mapped == IF 1 \in failed THEN {} ELSE fits \ failed
                 back   == IF 1 \in failed THEN {fs[1]} ELSE Unneeded(fs, mapped)
                 m      == [q \in Pages |-> IF q - p + 1 \in mapped
                              THEN [frame |-> fs[q - p + 1], prot |-> MapProt(cur, op[t].v)]
                              ELSE pte[s][q]]
             IN /\ pte'  = [pte EXCEPT ![s] = IF 1 \in fits THEN m ELSE Protected(m, p, MapProt(cur, op[t].v))]
                /\ refs' = [f \in Frames |-> IF f \in back THEN Dropped(f, 1) ELSE refs[f]]
  BY DEF fault_map
<1> DEFINE fits == {i \in DOMAIN fs : p + i - 1 <= end /\ Fits(cur, op[t].v) /\ pte[s][p + i - 1] = NoPte}
<1>6. fits = Fitting(t, end)
  BY DEF Fitting
<1>7. PICK failed \in IF TablesFail THEN SUBSET fits ELSE {{}} :
                       LET mapped == IF 1 \in failed THEN {} ELSE fits \ failed
                           back   == IF 1 \in failed THEN {fs[1]} ELSE Unneeded(fs, mapped)
                           m      == [q \in Pages |-> IF q - p + 1 \in mapped
                                        THEN [frame |-> fs[q - p + 1], prot |-> MapProt(cur, op[t].v)]
                                        ELSE pte[s][q]]
                       IN /\ pte'  = [pte EXCEPT ![s] = IF 1 \in fits THEN m ELSE Protected(m, p, MapProt(cur, op[t].v))]
                          /\ refs' = [f \in Frames |-> IF f \in back THEN Dropped(f, 1) ELSE refs[f]]
  BY <1>5
<1>8. failed \subseteq fits /\ (~TablesFail => failed = {})
  BY <1>7
<1>9. PICK mapped : mapped = IF 1 \in failed THEN {} ELSE fits \ failed
  OBVIOUS
<1>10. PICK back : back = IF 1 \in failed THEN {fs[1]} ELSE Unneeded(fs, mapped)
  OBVIOUS
<1>11. PICK m : m = [q \in Pages |-> IF q - p + 1 \in mapped
                              THEN [frame |-> fs[q - p + 1], prot |-> cur.prot] ELSE pte[s][q]]
  OBVIOUS
<1>12. /\ pte'  = [pte EXCEPT ![s] = IF 1 \in fits THEN m ELSE Protected(m, p, cur.prot)]
       /\ refs' = [f \in Frames |-> IF f \in back THEN Dropped(f, 1) ELSE refs[f]]
  BY <1>7, <1>9, <1>10, <1>11 DEF MapProt
<1>13. fits \subseteq 1 .. k /\ mapped \subseteq fits
  BY <1>4, <1>9
<1>14. back \subseteq Range(fs) /\ back \subseteq Frames
  BY <1>4, <1>8, <1>9, <1>10, <1>13 DEF Unneeded
<1>15. ~TablesFail => mapped = fits /\ back = {fs[i] : i \in DOMAIN fs \ fits}
  BY <1>8, <1>9, <1>10 DEF Unneeded
<1>16. cur.prot \in Prots
  BY <1>1, FaultArea
<1>17. m \in [Pages -> Entries \cup {NoPte}]
  <2>1. \A q \in Pages : pte[s][q] \in Entries \cup {NoPte}
    BY <1>2 DEF Ctl, Types
  <2>2. \A i \in mapped : [frame |-> fs[i], prot |-> cur.prot] \in Entries
    BY <1>4, <1>13, <1>16 DEF Entries
  <2> QED  BY <1>11, <2>1, <2>2
<1>18. PICK n : n = IF 1 \in fits THEN m ELSE Protected(m, p, cur.prot)
  OBVIOUS
<1>19. n \in [Pages -> Entries \cup {NoPte}]
  BY <1>1, <1>17, <1>18, FaultArea
<1>20. refs' \in [Frames -> Nat]
  <2>1. \A f \in Frames : Dropped(f, 1) \in Nat
    BY DroppedType DEF Ctl
  <2> QED  BY <1>12, <2>1 DEF Ctl, Types
<1>21. OpStep(t, User) /\ pte'[s] = n
  BY <1>1, <1>12, <1>18, <1>19, <1>20, EntryOp DEF Ctl, Types
<1>22. ASSUME NEW q \in Pages
       PROVE  n[q] = IF q - p + 1 \in mapped
                     THEN [frame |-> fs[q - p + 1], prot |-> cur.prot]
                     ELSE IF q = p /\ 1 \notin fits /\ pte[s][q] # NoPte
                     THEN [pte[s][q] EXCEPT !.prot = cur.prot]
                     ELSE pte[s][q]
  <2>1. p - p + 1 = 1
    BY <1>2
  <2>2. q = p /\ 1 \notin fits => m[p] = pte[s][p]
    BY <1>2, <1>11, <1>13, <2>1
  <2>3. CASE 1 \in fits
    BY <1>11, <1>18, <2>3
  <2>4. CASE 1 \notin fits /\ q = p
    BY <1>13, <1>17, <1>18, <2>1, <2>2, <2>4 DEF Protected
  <2>5. CASE 1 \notin fits /\ q # p
    BY <1>11, <1>17, <1>18, <2>5 DEF Protected
  <2> QED  BY <2>3, <2>4, <2>5
<1>23. MapShape(t, fits, mapped, back)
  BY <1>12, <1>13, <1>14, <1>15, <1>21, <1>22 DEF MapShape
<1> QED  BY <1>1, <1>21, <1>23, <1>6

-----------------------------------------------------------------------------
(* The calls are such steps.                                               *)

\* mmap puts an area where none was.
LEMMA MmapCall ==
  ASSUME Ctl, NEW t \in Threads, NEW ps \in Ranges, NEW a \in Areas, mmap(t, ps, a)
  PROVE  /\ CallStep(t)
         /\ \A p \in Pages : area'[sp[t]][p] = IF p \in ps THEN a ELSE area[sp[t]][p]
         /\ IF \E p \in ps : area[sp[t]][p] # NoArea
            THEN unmap_range(sp[t], ps) ELSE UNCHANGED <<pte, refs>>
<1>1. /\ op[t] = User /\ sp[t] # NoSpace /\ VmFree /\ sp[t] \in Spaces
      /\ UNCHANGED <<origin, sp, op>>
  BY DEF mmap, Calling, Ctl, Types
<1>2. area' = [area EXCEPT ![sp[t]] = [p \in Pages |-> IF p \in ps THEN a ELSE area[sp[t]][p]]]
  BY DEF mmap
<1>3. /\ area' \in [Spaces -> [Pages -> Areas \cup {NoArea}]]
      /\ \A x \in Spaces \ {sp[t]} : area'[x] = area[x]
      /\ \A p \in Pages : area'[sp[t]][p] = IF p \in ps THEN a ELSE area[sp[t]][p]
  BY <1>1, <1>2 DEF Ctl, Types
<1>4. IF \E p \in ps : area[sp[t]][p] # NoArea
      THEN unmap_range(sp[t], ps) ELSE UNCHANGED <<pte, refs>>
  BY DEF mmap
<1>5. /\ pte' \in [Spaces -> [Pages -> Entries \cup {NoPte}]] /\ refs' \in [Frames -> Nat]
      /\ \A x \in Spaces \ {sp[t]} : pte'[x] = pte[x]
  BY <1>1, <1>4, UnmapWithin, PagesFinite DEF Ctl, Types
<1> QED  BY <1>1, <1>3, <1>4, <1>5 DEF CallStep, Within

\* munmap takes areas and entries away and lets the frames go.
LEMMA MunmapCall ==
  ASSUME Ctl, NEW t \in Threads, NEW ps \in Ranges, munmap(t, ps)
  PROVE  /\ CallStep(t) /\ unmap_range(sp[t], ps)
         /\ \A p \in Pages : area'[sp[t]][p] = IF p \in ps THEN NoArea ELSE area[sp[t]][p]
<1>1. /\ op[t] = User /\ sp[t] # NoSpace /\ VmFree /\ sp[t] \in Spaces
      /\ UNCHANGED <<origin, sp, op>> /\ unmap_range(sp[t], ps)
  BY DEF munmap, Calling, Ctl, Types
<1>2. area' = [area EXCEPT ![sp[t]] = [p \in Pages |-> IF p \in ps THEN NoArea ELSE area[sp[t]][p]]]
  BY DEF munmap
<1>3. /\ area' \in [Spaces -> [Pages -> Areas \cup {NoArea}]]
      /\ \A x \in Spaces \ {sp[t]} : area'[x] = area[x]
      /\ \A p \in Pages : area'[sp[t]][p] = IF p \in ps THEN NoArea ELSE area[sp[t]][p]
  BY <1>1, <1>2 DEF Ctl, Types
<1>4. /\ pte' \in [Spaces -> [Pages -> Entries \cup {NoPte}]] /\ refs' \in [Frames -> Nat]
      /\ \A x \in Spaces \ {sp[t]} : pte'[x] = pte[x]
  BY <1>1, UnmapWithin, PagesFinite DEF Ctl
<1> QED  BY <1>1, <1>3, <1>4 DEF CallStep, Within

\* madvise takes entries away and leaves the areas.
LEMMA DiscardCall ==
  ASSUME Ctl, NEW t \in Threads, NEW ps \in Ranges, discard(t, ps)
  PROVE  CallStep(t) /\ unmap_range(sp[t], ps) /\ area' = area
<1>1. /\ op[t] = User /\ sp[t] # NoSpace /\ VmFree /\ sp[t] \in Spaces
      /\ UNCHANGED <<area, origin, sp, op>> /\ unmap_range(sp[t], ps)
  BY DEF discard, Calling, Ctl, Types
<1>2. /\ pte' \in [Spaces -> [Pages -> Entries \cup {NoPte}]] /\ refs' \in [Frames -> Nat]
      /\ \A x \in Spaces \ {sp[t]} : pte'[x] = pte[x]
  BY <1>1, UnmapWithin, PagesFinite DEF Ctl
<1> QED  BY <1>1, <1>2 DEF CallStep, Within, Ctl, Types

\* mprotect changes the permissions of areas and of the entries in them.
LEMMA MprotectCall ==
  ASSUME Ctl, NEW t \in Threads, NEW ps \in Ranges, NEW prot \in Prots, mprotect(t, ps, prot)
  PROVE  /\ CallStep(t) /\ refs' = refs /\ "mprotect" \in Calls
         /\ \A p \in ps : area[sp[t]][p] \in Areas
         /\ \A p \in Pages \ ps : area'[sp[t]][p] = area[sp[t]][p] /\ pte'[sp[t]][p] = pte[sp[t]][p]
         /\ \A p \in Pages :
               /\ area'[sp[t]][p] = IF p \in ps THEN [area[sp[t]][p] EXCEPT !.prot = prot] ELSE area[sp[t]][p]
               /\ pte'[sp[t]][p] = IF p \in ps /\ pte[sp[t]][p] # NoPte
                                   THEN [pte[sp[t]][p] EXCEPT !.prot = prot] ELSE pte[sp[t]][p]
<1>1. /\ op[t] = User /\ sp[t] # NoSpace /\ VmFree /\ sp[t] \in Spaces /\ "mprotect" \in Calls
      /\ UNCHANGED <<refs, origin, sp, op>> /\ \A p \in ps : area[sp[t]][p] # NoArea
  BY DEF mprotect, Calling, Ctl, Types
<1>2. ps \subseteq Pages
  BY PagesFinite
<1>3. PICK A : A = [p \in Pages |-> IF p \in ps THEN [area[sp[t]][p] EXCEPT !.prot = prot] ELSE area[sp[t]][p]]
  OBVIOUS
<1>4. PICK M : M = [p \in Pages |-> IF p \in ps /\ pte[sp[t]][p] # NoPte
                                   THEN [pte[sp[t]][p] EXCEPT !.prot = prot] ELSE pte[sp[t]][p]]
  OBVIOUS
<1>5. area' = [area EXCEPT ![sp[t]] = A] /\ pte' = [pte EXCEPT ![sp[t]] = M]
  BY <1>3, <1>4 DEF mprotect
<1>6. \A p \in ps : area[sp[t]][p] \in Areas
  BY <1>1, <1>2 DEF Ctl, Types
<1>7. A \in [Pages -> Areas \cup {NoArea}]
  <2>1. \A a \in Areas : [a EXCEPT !.prot = prot] \in Areas
    BY DEF Areas
  <2>2. \A p \in Pages : area[sp[t]][p] \in Areas \cup {NoArea}
    BY <1>1 DEF Ctl, Types
  <2>3. \A p \in ps : [area[sp[t]][p] EXCEPT !.prot = prot] \in Areas
    BY <1>6, <2>1
  <2> QED  BY <1>3, <2>2, <2>3
<1>8. M \in [Pages -> Entries \cup {NoPte}]
  <2>1. \A e \in Entries : [e EXCEPT !.prot = prot] \in Entries
    BY DEF Entries
  <2>2. \A p \in Pages : pte[sp[t]][p] \in Entries \cup {NoPte}
    BY <1>1 DEF Ctl, Types
  <2>3. \A p \in Pages : pte[sp[t]][p] # NoPte => [pte[sp[t]][p] EXCEPT !.prot = prot] \in Entries
    BY <2>1, <2>2
  <2> QED  BY <1>4, <2>2, <2>3
<1>9. Within(sp[t]) /\ area'[sp[t]] = A /\ pte'[sp[t]] = M
  BY <1>1, <1>5, <1>7, <1>8 DEF Within, Ctl, Types
<1>10. CallStep(t)
  BY <1>1, <1>9 DEF CallStep, Ctl, Types
<1>11. \A p \in Pages \ ps : area'[sp[t]][p] = area[sp[t]][p] /\ pte'[sp[t]][p] = pte[sp[t]][p]
  BY <1>3, <1>4, <1>9
<1> QED  BY <1>1, <1>3, <1>4, <1>6, <1>9, <1>10, <1>11

\* mremap moves pages, entries with them, to where no area is.
LEMMA MremapCall ==
  ASSUME Ctl, NEW t \in Threads, NEW old \in Pages, NEW new \in Pages,
         NEW n \in 1 .. NPages, NEW m \in 1 .. NPages, mremap(t, old, n, new, m)
  PROVE  /\ CallStep(t) /\ refs' = refs /\ "mremap" \in Calls
         /\ n < m /\ area[sp[t]][old] \in Areas /\ area[sp[t]][old].back = Anon
         /\ \A p \in old .. old + n - 1 : p \in Pages /\ area[sp[t]][p] = area[sp[t]][old]
         /\ \A p \in new .. new + m - 1 : p \in Pages /\ area[sp[t]][p] = NoArea
         /\ \A p \in Pages :
               /\ area'[sp[t]][p] = IF p \in new .. new + m - 1 THEN area[sp[t]][old]
                                    ELSE IF p \in old .. old + n - 1 THEN NoArea ELSE area[sp[t]][p]
               /\ pte'[sp[t]][p] = IF p \in new .. new + n - 1 /\ pte[sp[t]][p - new + old] # NoPte
                                   THEN pte[sp[t]][p - new + old]
                                   ELSE IF p \in old .. old + n - 1 THEN NoPte ELSE pte[sp[t]][p]
<1>1. /\ op[t] = User /\ sp[t] # NoSpace /\ VmFree /\ sp[t] \in Spaces /\ "mremap" \in Calls
      /\ UNCHANGED <<refs, origin, sp, op>> /\ n < m
      /\ area[sp[t]][old] # NoArea /\ area[sp[t]][old].back = Anon
      /\ old + n - 1 \in AreaOf(sp[t], old)
      /\ \A p \in new .. new + m - 1 : p \in Pages /\ area[sp[t]][p] = NoArea
  BY DEF mremap, Calling, Ctl, Types
<1>2. area[sp[t]][old] \in Areas /\ old \in Nat /\ new \in Nat /\ n \in Nat /\ m \in Nat /\ NPages \in Nat
  BY <1>1, VmAssumption DEF Ctl, Types, Pages
<1>3. \A p \in old .. old + n - 1 : p \in Pages /\ area[sp[t]][p] = area[sp[t]][old]
  BY <1>1, <1>2 DEF AreaOf, Pages
<1>4. PICK A : A = [p \in Pages |-> IF p \in new .. new + m - 1 THEN area[sp[t]][old]
                                    ELSE IF p \in old .. old + n - 1 THEN NoArea ELSE area[sp[t]][p]]
  OBVIOUS
<1>5. PICK M : M = [p \in Pages |-> IF p \in new .. new + n - 1 /\ pte[sp[t]][p - new + old] # NoPte
                                   THEN pte[sp[t]][p - new + old]
                                   ELSE IF p \in old .. old + n - 1 THEN NoPte ELSE pte[sp[t]][p]]
  OBVIOUS
<1>6. area' = [area EXCEPT ![sp[t]] = A] /\ pte' = [pte EXCEPT ![sp[t]] = M]
  BY <1>4, <1>5 DEF mremap
<1>7. A \in [Pages -> Areas \cup {NoArea}]
  BY <1>1, <1>2, <1>4 DEF Ctl, Types
<1>8. M \in [Pages -> Entries \cup {NoPte}]
  <2>1. \A p \in Pages : p \in new .. new + n - 1 => p - new + old \in old .. old + n - 1
    BY <1>2 DEF Pages
  <2>2. \A p \in Pages : pte[sp[t]][p] \in Entries \cup {NoPte}
    BY <1>1 DEF Ctl, Types
  <2>3. \A p \in Pages : p \in new .. new + n - 1 => pte[sp[t]][p - new + old] \in Entries \cup {NoPte}
    BY <1>3, <2>1, <2>2
  <2> QED  BY <1>5, <2>2, <2>3
<1>9. Within(sp[t]) /\ area'[sp[t]] = A /\ pte'[sp[t]] = M
  BY <1>1, <1>6, <1>7, <1>8 DEF Within, Ctl, Types
<1>10. CallStep(t)
  BY <1>1, <1>9 DEF CallStep, Ctl, Types
<1> QED  BY <1>1, <1>2, <1>3, <1>4, <1>5, <1>9, <1>10

-----------------------------------------------------------------------------
(* Fork and exit.                                                          *)

\* What an entry is without the right to write.
LEMMA NoWriteIs ==
  ASSUME NEW e \in Entries \cup {NoPte}
  PROVE  /\ NoWrite(e) \in Entries \cup {NoPte} /\ ((NoWrite(e) = NoPte) <=> (e = NoPte))
         /\ e # NoPte => NoWrite(e).frame = e.frame /\ NoWrite(e).prot # "rw"
         /\ NoWrite(e).prot # "rw" => (e # NoPte => NoWrite(e).prot = e.prot \/ (e.prot = "rw" /\ NoWrite(e).prot = "r"))
<1>1. CASE e = NoPte
  BY <1>1 DEF NoWrite
<1>2. CASE e \in Entries
  <2>1. [e EXCEPT !.prot = "r"] \in Entries /\ [e EXCEPT !.prot = "r"].frame = e.frame /\ [e EXCEPT !.prot = "r"].prot = "r"
    BY <1>2 DEF Entries
  <2> QED  BY <1>2, <2>1, Nones DEF NoWrite
<1> QED  BY <1>1, <1>2

\* The first half of fork: the entries of the caller lose the right to write
\* and have a copy in c.
CloneShape(t, c) ==
    /\ sp[t] \in Spaces /\ sp[t] # c /\ c \in Unused /\ "fork" \in Calls /\ op[t] = User
    /\ pte' \in [Spaces -> [Pages -> Entries \cup {NoPte}]]
    /\ \A p \in Pages : /\ pte'[sp[t]][p] = NoWrite(pte[sp[t]][p])
                        /\ pte'[c][p] = NoWrite(pte[sp[t]][p])
    /\ \A x \in Spaces \ {sp[t], c} : pte'[x] = pte[x]
    /\ refs' = inc_ref(pte[sp[t]]) /\ refs' \in [Frames -> Nat]
    /\ op' = [op EXCEPT ![t] = [pc |-> "fork", child |-> c]]
    /\ UNCHANGED <<area, origin, sp>>

\* The clone of a space, spelled out.
LEMMA CloneIs ==
  ASSUME Ctl, NEW t \in Threads, NEW c \in Spaces, clone_user_space(t, c)
  PROVE  CloneShape(t, c)
<1>1. /\ op[t] = User /\ sp[t] # NoSpace /\ "fork" \in Calls /\ c \in Unused
      /\ refs' = inc_ref(pte[sp[t]]) /\ op' = [op EXCEPT ![t] = [pc |-> "fork", child |-> c]]
      /\ UNCHANGED <<area, origin, sp>>
  BY DEF clone_user_space
<1>2. sp[t] \in Spaces /\ sp[t] # c
  BY <1>1 DEF Unused, Ctl, Types
<1>3. PICK M : M = [p \in Pages |-> NoWrite(pte[sp[t]][p])]
  OBVIOUS
<1>4. pte' = [pte EXCEPT ![sp[t]] = M, ![c] = M]
  BY <1>3 DEF clone_user_space, ParentPte
<1>5. M \in [Pages -> Entries \cup {NoPte}]
  <2>1. \A p \in Pages : pte[sp[t]][p] \in Entries \cup {NoPte}
    BY <1>2 DEF Ctl, Types
  <2> QED  BY <1>3, <2>1, NoWriteIs
<1>6. refs' \in [Frames -> Nat]
  <2>1. \A f \in Frames : Uses(pte[sp[t]], f, Pages) \in Nat
    BY UsesType, PagesFinite
  <2> QED  BY <1>1, <2>1 DEF inc_ref, Ctl, Types
<1>7. /\ pte' \in [Spaces -> [Pages -> Entries \cup {NoPte}]] /\ pte'[sp[t]] = M /\ pte'[c] = M
      /\ \A x \in Spaces \ {sp[t], c} : pte'[x] = pte[x]
  BY <1>2, <1>4, <1>5 DEF Ctl, Types
<1> QED  BY <1>1, <1>2, <1>3, <1>6, <1>7 DEF CloneShape

\* Cloning a space keeps Ctl.
LEMMA CloneCtl ==
  ASSUME Ctl, NEW t \in Threads, NEW c \in Spaces, CloneShape(t, c)
  PROVE  Ctl'
<1> DEFINE o == [pc |-> "fork", child |-> c]
<1>1. /\ OpOk(o) /\ o.pc = "fork" /\ o.child = c /\ "fork" \notin InVm
      /\ op'[t] = o /\ \A u \in Threads \ {t} : op'[u] = op[u]
  BY DEF OpOk, User, InVm, CloneShape, Ctl, Types
<1> HIDE DEF o
<1>2. Types'
  <2>1. op' = [u \in Threads |-> op'[u]]
    BY DEF CloneShape, Ctl, Types
  <2>2. \A u \in Threads : OpOk(op'[u])
    BY <1>1 DEF Ctl, Types
  <2> QED  BY <2>1, <2>2 DEF CloneShape, Ctl, Types
<1>3. Control'
  <2>1. \A u \in Threads : op[u].pc \in InVm => sp[u] \in Spaces /\ op[u].page \in Pages /\ sp[u] # c
    BY DEF Ctl, Types, Control, OpOk, InVm, CloneShape, Unused
  <2>2. \A x \in Spaces \ {c}, p \in Pages :
           pte[x][p] # NoPte => pte'[x][p] # NoPte /\ pte'[x][p].frame = pte[x][p].frame
    <3> TAKE x \in Spaces \ {c}, p \in Pages
    <3>1. CASE x = sp[t]
      <4>1. PICK e : e = pte[x][p]
        OBVIOUS
      <4>2. pte'[x][p] = NoWrite(e) /\ e \in Entries \cup {NoPte}
        BY <3>1, <4>1 DEF CloneShape, Ctl, Types
      <4> QED  BY <4>1, <4>2, NoWriteIs
    <3>2. CASE x # sp[t]
      BY <3>2 DEF CloneShape
    <3> QED  BY <3>1, <3>2
  <2>3. \A u \in Threads : op'[u].pc # "user" => sp'[u] # NoSpace
    BY <1>1, VmAssumption DEF CloneShape, Ctl, Control
  <2>4. \A u, w \in Threads : op'[u].pc \in InVm /\ op'[w].pc \in InVm => u = w
    BY <1>1 DEF Ctl, Control
  <2>5. \A u \in Threads : op'[u].pc \in InVm => /\ pte'[sp'[u]][op'[u].page] # NoPte
                                                 /\ area'[sp'[u]][op'[u].page] # NoArea
    BY <1>1, <2>1, <2>2 DEF CloneShape, Ctl, Control
  <2>6. \A u \in Threads : op'[u].pc = "copy" => pte'[sp'[u]][op'[u].page].frame = op'[u].frame
    BY <1>1, <2>1, <2>2 DEF CloneShape, Ctl, Control, InVm
  <2> QED  BY <2>3, <2>4, <2>5, <2>6 DEF Control
<1>4. Children'
  BY <1>1 DEF CloneShape, Unused, Ctl, Children, Empty
<1>5. Empty'
  <2>1. Unused' \subseteq Unused \ {c}
    BY <1>1, UserOk DEF CloneShape, Unused
  <2>2. sp[t] \notin Unused
    BY DEF Unused
  <2> QED  BY <2>1, <2>2 DEF CloneShape, Unused, Ctl, Empty
<1> QED  BY <1>2, <1>3, <1>4, <1>5 DEF Ctl

\* The second half: thread u runs in the space of the child.
StartShape(t, u) ==
    LET c == op[t].child IN
    /\ op[t].pc = "fork" /\ c \in Spaces /\ VmFree /\ u # t /\ sp[u] = NoSpace /\ op[u] = User
    /\ area' \in [Spaces -> [Pages -> Areas \cup {NoArea}]]
    /\ \A x \in Spaces \ {c} : area'[x] = area[x]
    /\ area'[c] = area[sp[t]] \/ (area'[c] = area[c] /\ TablesFail)
    /\ sp' = [sp EXCEPT ![u] = c]
    /\ op' = [op EXCEPT ![t] = User]
    /\ UNCHANGED <<pte, refs, origin>>

\* The start of the child, spelled out.
LEMMA StartIs ==
  ASSUME Ctl, NEW t \in Threads, NEW u \in Threads, clone_space(t, u)
  PROVE  StartShape(t, u)
<1>1. op[t].pc = "fork" /\ VmFree /\ sp[u] = NoSpace /\ sp' = [sp EXCEPT ![u] = op[t].child]
      /\ Done(t) /\ UNCHANGED <<pte, refs, origin>>
  BY DEF clone_space
<1>2. op[t].child \in Spaces /\ sp[t] \in Spaces /\ u # t /\ op[u] = User
  BY <1>1 DEF Ctl, Types, Control, OpOk
<1>3. PICK copied \in {TRUE, ~TablesFail} :
          area' = IF copied THEN [area EXCEPT ![op[t].child] = area[sp[t]]] ELSE area
  BY DEF clone_space
<1>4. area[sp[t]] \in [Pages -> Areas \cup {NoArea}]
  BY <1>2 DEF Ctl, Types
<1>5. CASE copied
  <2>1. area' = [area EXCEPT ![op[t].child] = area[sp[t]]]
    BY <1>3, <1>5
  <2> QED  BY <1>1, <1>2, <1>4, <2>1 DEF StartShape, Done, Ctl, Types
<1>6. CASE ~copied
  <2>1. area' = area /\ TablesFail
    BY <1>3, <1>6, VmAssumption
  <2> QED  BY <1>1, <1>2, <2>1 DEF StartShape, Done, Ctl, Types
<1> QED  BY <1>5, <1>6

\* The child of a fork starts: Ctl is kept.
LEMMA StartCtl ==
  ASSUME Ctl, NEW t \in Threads, NEW u \in Threads, StartShape(t, u)
  PROVE  Ctl'
<1>1. PICK c : c = op[t].child
  OBVIOUS
<1>2. /\ op[t].pc = "fork" /\ c \in Spaces /\ u # t /\ sp[u] = NoSpace /\ op[u] = User
      /\ sp'[u] = c /\ \A w \in Threads \ {u} : sp'[w] = sp[w]
      /\ op'[t] = User /\ \A w \in Threads \ {t} : op'[w] = op[w]
  BY <1>1 DEF StartShape, Ctl, Types
<1>3. Types'
  <2>1. op' = [w \in Threads |-> op'[w]] /\ sp' \in [Threads -> Spaces \cup {NoSpace}]
    BY <1>1, <1>2 DEF StartShape, Ctl, Types
  <2>2. \A w \in Threads : OpOk(op'[w])
    BY <1>2, UserOk DEF Ctl, Types
  <2> QED  BY <2>1, <2>2 DEF StartShape, Ctl, Types
<1>4. Control'
  <2>1. \A w \in Threads : op'[w].pc \notin InVm
    BY <1>2, UserOk DEF StartShape, VmFree, InVm
  <2>2. "copy" \in InVm
    BY DEF InVm
  <2>3. \A w \in Threads : op'[w].pc # "user" => sp'[w] # NoSpace
    BY <1>2, UserOk DEF Ctl, Control
  <2> QED  BY <2>1, <2>2, <2>3 DEF Control
<1>5. Children'
  <2> SUFFICES ASSUME NEW w \in Threads, op'[w].pc = "fork"
               PROVE  /\ \A x \in Threads : sp'[x] # op'[w].child
                      /\ \A x \in Threads \ {w} : op'[x].pc = "fork" => op'[x].child # op'[w].child
                      /\ \A p \in Pages : area'[op'[w].child][p] = NoArea
    BY DEF Children
  <2>1. w # t /\ op'[w] = op[w] /\ op[w].pc = "fork" /\ op[w].child # c /\ op[w].child \in Spaces
    BY <1>1, <1>2, UserOk DEF Ctl, Children, Types, OpOk
  <2>2. \A x \in Threads : sp'[x] # op'[w].child
    BY <1>2, <2>1 DEF Ctl, Children
  <2>3. \A x \in Threads \ {w} : op'[x].pc = "fork" => op'[x].child # op'[w].child
    BY <1>2, <2>1, UserOk DEF Ctl, Children
  <2>4. area'[op[w].child] = area[op[w].child]
    BY <1>1, <2>1 DEF StartShape
  <2> QED  BY <2>1, <2>2, <2>3, <2>4 DEF Ctl, Children
<1>6. Empty'
  <2>1. \A s \in Unused' : s \in Unused /\ s # c
    BY <1>1, <1>2, VmAssumption DEF Unused
  <2> QED  BY <1>1, <2>1 DEF StartShape, Unused, Ctl, Empty
<1> QED  BY <1>3, <1>4, <1>5, <1>6 DEF Ctl

\* A fork that fails gives everything back: Ctl is kept.
LEMMA ForkFailedCtl ==
  ASSUME Ctl, NEW t \in Threads, fork_failed(t)
  PROVE  /\ Ctl' /\ op[t].pc = "fork" /\ op[t].child \in Spaces /\ unmap_range(op[t].child, Pages)
         /\ op' = [op EXCEPT ![t] = User] /\ UNCHANGED <<area, origin, sp>>
<1>1. PICK c : c = op[t].child
  OBVIOUS
<1>2. /\ op[t].pc = "fork" /\ c \in Spaces /\ unmap_range(c, Pages)
      /\ op' = [op EXCEPT ![t] = User] /\ UNCHANGED <<area, origin, sp>>
  BY <1>1 DEF fork_failed, free_user_space, Done, Ctl, Types, OpOk
<1>3. /\ pte' \in [Spaces -> [Pages -> Entries \cup {NoPte}]] /\ refs' \in [Frames -> Nat]
      /\ \A p \in Pages : pte'[c][p] = NoPte
      /\ \A x \in Spaces \ {c} : pte'[x] = pte[x]
  BY <1>2, UnmapWithin DEF Ctl
<1>4. op'[t] = User /\ \A w \in Threads \ {t} : op'[w] = op[w]
  BY <1>2 DEF Ctl, Types
<1>5. Types'
  <2>1. op' = [w \in Threads |-> op'[w]]
    BY <1>2 DEF Ctl, Types
  <2>2. \A w \in Threads : OpOk(op'[w])
    BY <1>4, UserOk DEF Ctl, Types
  <2> QED  BY <1>2, <1>3, <2>1, <2>2 DEF Ctl, Types
<1>6. Control'
  <2>1. \A w \in Threads : op'[w].pc # "user" => op'[w] = op[w] /\ w # t /\ sp[w] \in Spaces \ {c}
    BY <1>1, <1>2, <1>4, UserOk DEF Ctl, Control, Children, Types
  <2>2. \A pc \in InVm : pc # "user"
    BY DEF InVm
  <2>3. \A w \in Threads : op'[w].pc # "user" => sp'[w] # NoSpace
    BY <1>2, <2>1 DEF Ctl, Control
  <2>4. \A w, x \in Threads : op'[w].pc \in InVm /\ op'[x].pc \in InVm => w = x
    BY <2>1, <2>2 DEF Ctl, Control
  <2>5. \A w \in Threads : op'[w].pc \in InVm => /\ pte'[sp'[w]][op'[w].page] # NoPte
                                                 /\ area'[sp'[w]][op'[w].page] # NoArea
    BY <1>2, <1>3, <2>1, <2>2 DEF Ctl, Control
  <2>6. \A w \in Threads : op'[w].pc = "copy" => pte'[sp'[w]][op'[w].page].frame = op'[w].frame
    BY <1>2, <1>3, <2>1 DEF Ctl, Control
  <2> QED  BY <2>3, <2>4, <2>5, <2>6 DEF Control
<1>7. Children'
  BY <1>2, <1>4, UserOk DEF Ctl, Children
<1>8. Empty'
  <2>1. \A s \in Unused' : s \in Unused \cup {c}
    BY <1>1, <1>2, <1>4 DEF Unused
  <2>2. \A p \in Pages : area[c][p] = NoArea
    BY <1>1, <1>2 DEF Ctl, Children
  <2> QED  BY <1>2, <1>3, <2>1, <2>2 DEF Unused, Ctl, Empty
<1> QED  BY <1>1, <1>2, <1>5, <1>6, <1>7, <1>8 DEF Ctl

\* The last thread of a space ends: Ctl is kept.
LEMMA ExitCtl ==
  ASSUME Ctl, NEW s \in Spaces, exit(s)
  PROVE  /\ Ctl' /\ unmap_range(s, Pages) /\ UNCHANGED <<origin, op>>
         /\ \A t \in Threads : sp[t] = s => op[t] = User
         /\ \A t \in Threads : sp'[t] = IF sp[t] = s THEN NoSpace ELSE sp[t]
         /\ \A p \in Pages : area'[s][p] = NoArea
         /\ \A x \in Spaces \ {s} : area'[x] = area[x]
<1>1. /\ unmap_range(s, Pages) /\ UNCHANGED <<origin, op>>
      /\ \A t \in Threads : sp[t] = s => op[t] = User
      /\ \E t \in Threads : sp[t] = s
      /\ area' = [area EXCEPT ![s] = [p \in Pages |-> NoArea]]
  BY DEF exit, free_user_space
<1>2. sp' = [t \in Threads |-> IF sp[t] = s THEN NoSpace ELSE sp[t]]
  BY DEF exit
<1>3. /\ pte' \in [Spaces -> [Pages -> Entries \cup {NoPte}]] /\ refs' \in [Frames -> Nat]
      /\ \A p \in Pages : pte'[s][p] = NoPte
      /\ \A x \in Spaces \ {s} : pte'[x] = pte[x]
  BY <1>1, UnmapWithin DEF Ctl
<1>4. /\ area' \in [Spaces -> [Pages -> Areas \cup {NoArea}]]
      /\ \A p \in Pages : area'[s][p] = NoArea
      /\ \A x \in Spaces \ {s} : area'[x] = area[x]
  BY <1>1 DEF Ctl, Types
<1>5. sp' \in [Threads -> Spaces \cup {NoSpace}] /\ \A t \in Threads : sp'[t] = IF sp[t] = s THEN NoSpace ELSE sp[t]
  BY <1>2 DEF Ctl, Types
<1>6. Types'
  BY <1>1, <1>3, <1>4, <1>5 DEF Ctl, Types
<1>7. Control'
  <2>1. \A w \in Threads : op[w].pc # "user" => sp'[w] = sp[w] /\ sp[w] \in Spaces \ {s}
    BY <1>1, <1>5, UserOk DEF Ctl, Control, Types
  <2>2. \A pc \in InVm \cup {"copy"} : pc # "user"
    BY DEF InVm
  <2> QED  BY <1>1, <1>3, <1>4, <2>1, <2>2 DEF Ctl, Control
<1>8. Children'
  <2>1. \A w \in Threads : op[w].pc = "fork" => op[w].child \in Spaces \ {s}
    BY <1>1 DEF Ctl, Children, Types, OpOk
  <2> QED  BY <1>1, <1>4, <1>5, <2>1, VmAssumption DEF Ctl, Children
<1>9. Empty'
  <2>1. \A x \in Unused' : x \in Unused \cup {s}
    BY <1>1, <1>5 DEF Unused
  <2> QED  BY <1>3, <1>4, <2>1 DEF Unused, Ctl, Empty
<1> QED  BY <1>1, <1>4, <1>5, <1>6, <1>7, <1>8, <1>9 DEF Ctl

\* Initially Ctl holds.
LEMMA InitCtl == Init => Ctl
<1> SUFFICES ASSUME Init PROVE Ctl
  OBVIOUS
<1>1. PICK s \in Spaces : sp = [t \in Threads |-> IF t \in Starters THEN s ELSE NoSpace]
  BY DEF Init
<1>2. Types
  BY <1>1, UserOk DEF Init, Types
<1>3. \A t \in Threads : op[t].pc = "user"
  BY UserOk DEF Init
<1> QED  BY <1>2, <1>3, UserOk DEF Ctl, Control, Children, Empty, Unused, Init, InVm

-----------------------------------------------------------------------------
(* Entries and areas, where no other thread of the process comes between    *)
(* the halves of a fork.                                                    *)

Forks == "fork" \in Calls
Calm  == ~TablesFail /\ (Forks => \A t, u \in Starters : t = u)

Alone == \A t, u \in Threads : t # u /\ sp[t] = sp[u] => sp[t] = NoSpace

\* An entry is in an area and has its permissions, or has lost one to fork.
Allowed(e, a) == e # NoPte => a # NoArea /\ (e.prot = a.prot \/ (Forks /\ e.prot = "r" /\ a.prot = "rw"))

\* What a thread that faults alone in its space knows of the page.
SoloOp(o, e, a) ==
    /\ o.pc = "fault" => (e # NoPte => ~Permits(e.prot, o.access))
    /\ o.pc \in {"read", "map"} => e = NoPte /\ a = o.v
    /\ o.pc \in InVm => a.prot = "rw"

Solo(t) ==
    /\ op[t].pc = "fork" => \A p \in Pages : pte[op[t].child][p] = pte[sp[t]][p]
    /\ SoloOp(op[t], pte[sp[t]][op[t].page], area[sp[t]][op[t].page])

AreaInv ==
    /\ Forks => Alone
    /\ ~Forks => \A t \in Threads : op[t].pc # "fork"
    /\ \A t \in Threads : sp[t] # NoSpace => \A p \in Pages : Allowed(pte[sp[t]][p], area[sp[t]][p])
    /\ Forks => \A t \in Threads : sp[t] # NoSpace => Solo(t)

\* Steps in one space leave what others know of theirs.
LEMMA OthersSolo ==
  ASSUME Ctl, Forks, Alone, NEW t \in Threads, sp[t] # NoSpace, Within(sp[t]), sp' = sp,
         NEW u \in Threads \ {t}, op'[u] = op[u], sp[u] # NoSpace, Solo(u)
  PROVE  Solo(u)'
<1>1. sp[u] \in Spaces \ {sp[t]}
  BY DEF Alone, Ctl, Types
<1>2. pte'[sp'[u]] = pte[sp[u]] /\ area'[sp'[u]] = area[sp[u]]
  BY <1>1 DEF Within
<1>3. op[u].pc = "fork" => pte'[op'[u].child] = pte[op[u].child]
  BY DEF Within, Ctl, Children, Types, OpOk
<1> QED  BY <1>2, <1>3 DEF Solo

\* A step of a fault keeps AreaInv if its entries lie in areas and what it
\* knows of its page stays true.
LEMMA OpArea ==
  ASSUME Ctl, AreaInv, NEW t, NEW o, OpStep(t, o),
         \A p \in Pages : Allowed(pte'[sp[t]][p], area[sp[t]][p]),
         Forks => SoloOp(o, pte'[sp[t]][o.page], area[sp[t]][o.page])
  PROVE  AreaInv'
<1>1. /\ t \in Threads /\ sp[t] \in Spaces /\ sp[t] # NoSpace /\ sp' = sp /\ area' = area
      /\ op'[t] = o /\ \A u \in Threads \ {t} : op'[u] = op[u]
      /\ Within(sp[t]) /\ o.pc # "fork"
  BY DEF OpStep, Ctl, Types
<1>2. (Forks => Alone)' /\ (~Forks => \A u \in Threads : op[u].pc # "fork")'
  BY <1>1 DEF AreaInv, Alone
<1>3. \A u \in Threads : sp'[u] # NoSpace => \A p \in Pages : Allowed(pte'[sp'[u]][p], area'[sp'[u]][p])
  <2> TAKE u \in Threads
  <2>1. CASE sp[u] = sp[t]
    BY <1>1, <2>1
  <2>2. CASE sp[u] # sp[t] /\ sp[u] # NoSpace
    <3>1. pte'[sp[u]] = pte[sp[u]]
      BY <1>1, <2>2 DEF Within, Ctl, Types
    <3> QED  BY <1>1, <2>2, <3>1 DEF AreaInv
  <2> QED  BY <1>1, <2>1, <2>2
<1>4. ASSUME Forks, NEW u \in Threads, sp'[u] # NoSpace
      PROVE  Solo(u)'
  <2>1. CASE u = t
    BY <1>1, <1>4, <2>1 DEF Solo
  <2>2. CASE u # t
    BY <1>1, <1>4, <2>2, OthersSolo DEF AreaInv
  <2> QED  BY <2>1, <2>2
<1> QED  BY <1>2, <1>3, <1>4 DEF AreaInv, Forks, Allowed

\* A system call keeps AreaInv if the entries it leaves lie in areas.
LEMMA CallArea ==
  ASSUME Ctl, AreaInv, NEW t, CallStep(t),
         \A p \in Pages : Allowed(pte'[sp[t]][p], area'[sp[t]][p])
  PROVE  AreaInv'
<1>1. /\ t \in Threads /\ sp[t] \in Spaces /\ sp[t] # NoSpace /\ sp' = sp /\ op' = op
      /\ op[t] = User /\ Within(sp[t])
  BY DEF CallStep, Ctl, Types
<1>2. (Forks => Alone)' /\ (~Forks => \A u \in Threads : op[u].pc # "fork")'
  BY <1>1 DEF AreaInv, Alone
<1>3. \A u \in Threads : sp'[u] # NoSpace => \A p \in Pages : Allowed(pte'[sp'[u]][p], area'[sp'[u]][p])
  <2> TAKE u \in Threads
  <2>1. CASE sp[u] = sp[t]
    BY <1>1, <2>1
  <2>2. CASE sp[u] # sp[t] /\ sp[u] # NoSpace
    <3>1. pte'[sp[u]] = pte[sp[u]] /\ area'[sp[u]] = area[sp[u]]
      BY <1>1, <2>2 DEF Within, Ctl, Types
    <3> QED  BY <1>1, <2>2, <3>1 DEF AreaInv
  <2> QED  BY <1>1, <2>1, <2>2
<1>4. ASSUME Forks, NEW u \in Threads, sp'[u] # NoSpace
      PROVE  Solo(u)'
  <2>1. CASE u = t
    BY <1>1, <2>1, UserOk DEF Solo, SoloOp, User
  <2>2. CASE u # t
    BY <1>1, <1>4, <2>2, OthersSolo DEF AreaInv
  <2> QED  BY <2>1, <2>2
<1> QED  BY <1>2, <1>3, <1>4 DEF AreaInv, Forks, Allowed

\* A thread in user mode knows nothing.
LEMMA UserSolo ==
  ASSUME NEW e, NEW a
  PROVE  SoloOp(User, e, a)
BY UserOk DEF SoloOp, User

\* Steps that change no entry.
LEMMA SameArea ==
  ASSUME Ctl, AreaInv, NEW t, NEW o, OpStep(t, o), pte' = pte,
         Forks => SoloOp(o, pte[sp[t]][o.page], area[sp[t]][o.page])
  PROVE  AreaInv'
<1>1. t \in Threads /\ sp[t] # NoSpace
  BY DEF OpStep
<1>2. \A p \in Pages : Allowed(pte'[sp[t]][p], area[sp[t]][p])
  BY <1>1 DEF AreaInv
<1> QED  BY <1>2, OpArea

\* Entries of the whole permissions of their area.
LEMMA FullArea ==
  ASSUME Ctl, AreaInv, NEW t, OpStep(t, User),
         \A p \in Pages : pte'[sp[t]][p] # pte[sp[t]][p] =>
            area[sp[t]][p] # NoArea /\ pte'[sp[t]][p].prot = area[sp[t]][p].prot
  PROVE  AreaInv'
<1>1. t \in Threads /\ sp[t] # NoSpace
  BY DEF OpStep
<1>2. \A p \in Pages : Allowed(pte'[sp[t]][p], area[sp[t]][p])
  BY <1>1 DEF AreaInv, Allowed
<1> QED  BY <1>2, OpArea, UserSolo

\* A fault that maps a frame f of its own maps it with the permissions of the area.
NewAt(t, f) ==
    /\ \A x \in Spaces, q \in Pages :
          pte'[x][q] = IF x = sp[t] /\ q = op[t].page
                       THEN [frame |-> f, prot |-> area[sp[t]][op[t].page].prot]
                       ELSE pte[x][q]
    /\ refs' = IF op[t].pc = "copy" THEN [refs EXCEPT ![f] = 1, ![op[t].frame] = Dropped(op[t].frame, 1)]
               ELSE [refs EXCEPT ![f] = 1]
    /\ origin' = [origin EXCEPT ![f] = IF op[t].pc = "copy" THEN origin[op[t].frame] ELSE Zeros]

\* A fault that gets a frame: what it puts in its page.
LEMMA NewFrame ==
  ASSUME Ctl, NEW t \in Threads, fault_anon(t) \/ fault_copy(t)
  PROVE  /\ sp[t] \in Spaces /\ op[t].page \in Pages /\ op[t].pc \in {"fault", "copy"}
         /\ area[sp[t]][op[t].page] # NoArea /\ area[sp[t]][op[t].page] \in Areas
         /\ op[t].pc = "fault" => pte[sp[t]][op[t].page] = NoPte /\ area[sp[t]][op[t].page].back = Anon
         /\ UNCHANGED <<pte, refs, origin>> \/ \E f \in FreeFrames : NewAt(t, f)
<1>1. /\ op[t].pc \in {"fault", "copy"} /\ area[sp[t]][op[t].page] # NoArea
      /\ op[t].pc = "fault" => pte[sp[t]][op[t].page] = NoPte /\ area[sp[t]][op[t].page].back = Anon
  BY DEF fault_anon, Faulting, fault_copy, Ctl, Control, InVm
<1>2. PICK s, p : s = sp[t] /\ p = op[t].page
  OBVIOUS
<1>3. s \in Spaces /\ p \in Pages
  BY <1>1, <1>2, OpHas
<1>4. area[s][p] \in Areas
  BY <1>1, <1>2, <1>3 DEF Ctl, Types
<1>5. ASSUME NEW f \in FreeFrames, NEW e, e = [frame |-> f, prot |-> area[s][p].prot],
             pte' = [pte EXCEPT ![s][p] = e]
      PROVE  \A x \in Spaces, q \in Pages :
                pte'[x][q] = IF x = sp[t] /\ q = op[t].page
                             THEN [frame |-> f, prot |-> area[sp[t]][op[t].page].prot] ELSE pte[x][q]
  <2>1. \A x \in Spaces, q \in Pages : pte'[x][q] = IF x = s /\ q = p THEN e ELSE pte[x][q]
    BY <1>3, <1>5 DEF Ctl, Types
  <2> QED  BY <1>2, <1>5, <2>1
<1>6. CASE fault_anon(t) /\ ~UNCHANGED <<pte, refs, origin>>
  <2>1. op[t].pc = "fault"
    BY <1>6 DEF fault_anon, Faulting
  <2>2. PICK f \in FreeFrames :
           /\ pte' = [pte EXCEPT ![s][p] = [frame |-> f, prot |-> area[s][p].prot]]
           /\ refs' = [refs EXCEPT ![f] = 1] /\ origin' = [origin EXCEPT ![f] = Zeros]
    BY <1>2, <1>6 DEF fault_anon
  <2>3. NewAt(t, f)
    BY <1>5, <2>1, <2>2 DEF NewAt
  <2> QED  BY <1>1, <1>2, <1>3, <1>4, <2>3
<1>7. CASE fault_copy(t) /\ ~UNCHANGED <<pte, refs, origin>>
  <2>1. op[t].pc = "copy"
    BY <1>7 DEF fault_copy
  <2>2. PICK f \in FreeFrames :
           /\ pte' = [pte EXCEPT ![s][p] = [frame |-> f, prot |-> area[s][p].prot]]
           /\ refs' = [refs EXCEPT ![f] = 1, ![op[t].frame] = Dropped(op[t].frame, 1)]
           /\ origin' = [origin EXCEPT ![f] = origin[op[t].frame]]
    BY <1>2, <1>7 DEF fault_copy
  <2>3. NewAt(t, f)
    BY <1>5, <2>1, <2>2 DEF NewAt
  <2> QED  BY <1>1, <1>2, <1>3, <1>4, <2>3
<1> QED  BY <1>1, <1>2, <1>3, <1>4, <1>6, <1>7

\* AreaInv when a fault maps the frame it took.
LEMMA NewFrameArea ==
  ASSUME Ctl, AreaInv, NEW t \in Threads, fault_anon(t) \/ fault_copy(t)
  PROVE  AreaInv'
<1>1. OpStep(t, User)
  BY AnonOp, CopyOp
<1>2. \A p \in Pages : pte'[sp[t]][p] # pte[sp[t]][p] =>
         area[sp[t]][p] # NoArea /\ pte'[sp[t]][p].prot = area[sp[t]][p].prot
  <2>1. CASE pte' = pte
    BY <2>1
  <2>2. CASE \E f \in FreeFrames : NewAt(t, f)
    <3>1. PICK f \in FreeFrames : NewAt(t, f)
      BY <2>2
    <3>2. /\ sp[t] \in Spaces /\ area[sp[t]][op[t].page] # NoArea
          /\ \A p \in Pages : p # op[t].page => pte'[sp[t]][p] = pte[sp[t]][p]
          /\ op[t].page \in Pages => pte'[sp[t]][op[t].page].prot = area[sp[t]][op[t].page].prot
      BY <3>1, NewFrame DEF NewAt
    <3> QED  BY <3>2
  <2> QED  BY <2>1, <2>2, NewFrame
<1> QED  BY <1>1, <1>2, FullArea

\* AreaInv when a fault gives its page the right to write back.
LEMMA ProtectArea ==
  ASSUME Ctl, AreaInv, NEW t \in Threads, fault_protect(t)
  PROVE  AreaInv'
<1>1. op[t].pc = "protect" /\ "protect" \in InVm
  BY DEF fault_protect, InVm
<1>2. sp[t] \in Spaces /\ op[t].page \in Pages /\ area[sp[t]][op[t].page] # NoArea /\ pte[sp[t]][op[t].page] # NoPte
  BY <1>1, OpHas DEF Ctl, Control
<1>3. pte[sp[t]] \in [Pages -> Entries \cup {NoPte}]
  BY <1>2 DEF Ctl, Types
<1>4. \A p \in Pages : pte'[sp[t]][p] # pte[sp[t]][p] =>
         area[sp[t]][p] # NoArea /\ pte'[sp[t]][p].prot = area[sp[t]][p].prot
  <2>1. pte[sp[t]][op[t].page] \in Entries
    BY <1>2, <1>3
  <2>2. \A p \in Pages : p # op[t].page => pte'[sp[t]][p] = pte[sp[t]][p]
    BY ProtectOp
  <2>3. pte'[sp[t]][op[t].page] = [pte[sp[t]][op[t].page] EXCEPT !.prot = area[sp[t]][op[t].page].prot]
    BY <1>2, ProtectOp
  <2>4. pte'[sp[t]][op[t].page].prot = area[sp[t]][op[t].page].prot
    BY <2>1, <2>3 DEF Entries
  <2> QED  BY <1>2, <2>2, <2>4
<1> QED  BY <1>4, ProtectOp, FullArea

\* AreaInv when the pages read are mapped.
LEMMA MapArea ==
  ASSUME Ctl, AreaInv, NEW t \in Threads, fault_map(t)
  PROVE  AreaInv'
<1>1. OpStep(t, User) /\ op[t].pc = "map" /\ area[sp[t]][op[t].page] # NoArea
  BY MapOp
<1>2. sp[t] \in Spaces /\ op[t].page \in Pages /\ op[t].page \in Nat
  BY <1>1, OpHas DEF Pages
<1>3. PICK end \in AreaOf(sp[t], op[t].page) : \E mapped, back : MapShape(t, Fitting(t, end), mapped, back)
  BY MapOp
<1>4. PICK mapped, back : MapShape(t, Fitting(t, end), mapped, back)
  BY <1>3
<1>5. \A i \in DOMAIN op[t].frames : i \in Nat /\ i > 0
  BY <1>1, OpHas DEF OpOk, Injection
<1>6. \A q \in Pages : q - op[t].page + 1 \in mapped => area[sp[t]][q] = area[sp[t]][op[t].page]
  <2> SUFFICES ASSUME NEW q \in Pages, q - op[t].page + 1 \in mapped
               PROVE  q \in op[t].page .. end
    BY DEF AreaOf
  <2> DEFINE i == q - op[t].page + 1
  <2>1. i \in DOMAIN op[t].frames /\ op[t].page + i - 1 <= end
    BY <1>4 DEF MapShape, Fitting
  <2> QED  BY <1>2, <1>5, <2>1 DEF Pages, AreaOf
<1>7. \A e \in Entries : \A prot : [e EXCEPT !.prot = prot].prot = prot
  BY DEF Entries
<1>8. \A p \in Pages : pte'[sp[t]][p] # pte[sp[t]][p] =>
         area[sp[t]][p] # NoArea /\ pte'[sp[t]][p].prot = area[sp[t]][p].prot
  <2> SUFFICES ASSUME NEW p \in Pages, pte'[sp[t]][p] # pte[sp[t]][p]
               PROVE  area[sp[t]][p] # NoArea /\ pte'[sp[t]][p].prot = area[sp[t]][p].prot
    OBVIOUS
  <2>1. pte[sp[t]][p] \in Entries \cup {NoPte}
    BY <1>2 DEF Ctl, Types
  <2>2. CASE p - op[t].page + 1 \in mapped
    <3>1. pte'[sp[t]][p] = [frame |-> op[t].frames[p - op[t].page + 1], prot |-> area[sp[t]][op[t].page].prot]
      BY <1>4, <2>2 DEF MapShape
    <3>2. pte'[sp[t]][p].prot = area[sp[t]][op[t].page].prot
      BY <3>1
    <3> QED  BY <1>1, <1>6, <2>2, <3>2
  <2>3. CASE p - op[t].page + 1 \notin mapped
    <3>1. /\ p = op[t].page /\ pte[sp[t]][p] # NoPte
          /\ pte'[sp[t]][p] = [pte[sp[t]][p] EXCEPT !.prot = area[sp[t]][op[t].page].prot]
      BY <1>4, <2>3 DEF MapShape
    <3> QED  BY <1>1, <1>7, <2>1, <3>1
  <2> QED  BY <2>2, <2>3
<1> QED  BY <1>1, <1>8, FullArea

\* AreaInv when a fault looks at its page.
LEMMA MappedArea ==
  ASSUME Ctl, AreaInv, NEW t \in Threads, fault_mapped(t)
  PROVE  AreaInv'
<1> DEFINE e == pte[sp[t]][op[t].page]
           a == area[sp[t]][op[t].page]
<1>1. op[t].pc = "fault" /\ e # NoPte /\ a # NoArea /\ Permits(a.prot, op[t].access)
  BY DEF fault_mapped, Faulting
<1>2. PICK pc \in {"count", "protect"} : OpStep(t, [pc |-> pc, page |-> op[t].page])
  BY MappedOp
<1>3. UNCHANGED <<pte, area>>
  BY DEF fault_mapped
<1>4. sp[t] # NoSpace /\ op[t].page \in Pages
  BY <1>1, OpHas
<1>5. Forks => ~Permits(e.prot, op[t].access)
  BY <1>1, <1>4 DEF AreaInv, Solo, SoloOp
<1>6. Forks => a.prot = "rw"
  BY <1>1, <1>4, <1>5 DEF AreaInv, Allowed
<1> DEFINE o == [pc |-> pc, page |-> op[t].page]
<1>7. o.pc = pc /\ o.page = op[t].page /\ OpStep(t, o)
  BY <1>2
<1> HIDE DEF o
<1>8. Forks => SoloOp(o, pte[sp[t]][o.page], area[sp[t]][o.page])
  BY <1>6, <1>7 DEF SoloOp
<1> QED  BY <1>3, <1>7, <1>8, SameArea

\* AreaInv when a fault reads a counter.
LEMMA CountArea ==
  ASSUME Ctl, AreaInv, NEW t \in Threads, fault_count(t)
  PROVE  AreaInv'
<1>1. op[t].pc = "count" /\ "count" \in InVm /\ UNCHANGED <<pte, area>>
  BY DEF fault_count, InVm
<1>2. sp[t] # NoSpace
  BY <1>1, OpHas
<1>3. Forks => area[sp[t]][op[t].page].prot = "rw"
  BY <1>1, <1>2 DEF AreaInv, Solo, SoloOp
<1>4. PICK o : OpStep(t, o) /\ o.pc \in {"copy", "protect"} /\ o.page = op[t].page
  <2> DEFINE c == [pc |-> "copy", page |-> op[t].page, frame |-> pte[sp[t]][op[t].page].frame]
             d == [pc |-> "protect", page |-> op[t].page]
  <2>1. OpStep(t, c) \/ OpStep(t, d)
    BY CountOp
  <2>2. c.pc = "copy" /\ c.page = op[t].page /\ d.pc = "protect" /\ d.page = op[t].page
    OBVIOUS
  <2> HIDE DEF c, d
  <2> QED  BY <2>1, <2>2
<1>5. Forks => SoloOp(o, pte[sp[t]][o.page], area[sp[t]][o.page])
  BY <1>3, <1>4 DEF SoloOp
<1> QED  BY <1>1, <1>4, <1>5, SameArea

\* AreaInv when a fault chooses where its bytes come from.
LEMMA FileArea ==
  ASSUME Ctl, AreaInv, NEW t \in Threads, fault_file(t)
  PROVE  AreaInv'
<1>1. pte[sp[t]][op[t].page] = NoPte /\ pte' = pte
  BY DEF fault_file
<1>2. PICK n \in Nat : OpStep(t, [pc |-> "read", page |-> op[t].page, v |-> area[sp[t]][op[t].page], n |-> n])
  BY FileOp
<1> DEFINE o == [pc |-> "read", page |-> op[t].page, v |-> area[sp[t]][op[t].page], n |-> n]
<1>3. o.pc = "read" /\ o.page = op[t].page /\ o.v = area[sp[t]][op[t].page] /\ OpStep(t, o) /\ "read" \notin InVm
  BY <1>2 DEF InVm
<1> HIDE DEF o
<1>4. SoloOp(o, pte[sp[t]][o.page], area[sp[t]][o.page])
  BY <1>1, <1>3 DEF SoloOp
<1> QED  BY <1>1, <1>3, <1>4, SameArea

\* AreaInv when a fault reads the file.
LEMMA ReadArea ==
  ASSUME Ctl, AreaInv, NEW t \in Threads, fault_read(t)
  PROVE  AreaInv'
<1>1. op[t].pc = "read" /\ pte' = pte
  BY DEF fault_read
<1>2. sp[t] # NoSpace
  BY <1>1, OpHas
<1>3. PICK k, fs : ReadShape(t, k, fs)
  BY ReadOp
<1>4. OpStep(t, Reading(t, fs))
  BY <1>3 DEF ReadShape
<1> DEFINE o == Reading(t, fs)
<1>5. o.pc = "map" /\ o.page = op[t].page /\ o.v = op[t].v /\ OpStep(t, o) /\ "map" \notin InVm
  BY <1>4 DEF InVm, Reading
<1> HIDE DEF o
<1>6. Forks => SoloOp(o, pte[sp[t]][o.page], area[sp[t]][o.page])
  BY <1>1, <1>2, <1>5 DEF SoloOp, AreaInv, Solo
<1> QED  BY <1>1, <1>5, <1>6, SameArea

\* AreaInv when a fault begins.
LEMMA TouchArea ==
  ASSUME Ctl, AreaInv, NEW t \in Threads, NEW p \in Pages, NEW access \in {"read", "write"}, touch(t, p, access)
  PROVE  AreaInv'
<1> DEFINE o == [pc |-> "fault", page |-> p, access |-> access]
<1>1. o.pc = "fault" /\ o.page = p /\ o.access = access /\ OpStep(t, o) /\ "fault" \notin InVm
  BY TouchOp DEF InVm
<1>2. pte' = pte /\ (pte[sp[t]][p] # NoPte => ~Permits(pte[sp[t]][p].prot, access))
  BY DEF touch
<1> HIDE DEF o
<1>3. SoloOp(o, pte[sp[t]][o.page], area[sp[t]][o.page])
  BY <1>1, <1>2 DEF SoloOp
<1> QED  BY <1>1, <1>2, <1>3, SameArea

\* AreaInv through every step of a fault.
LEMMA FaultAreas ==
  ASSUME Ctl, AreaInv, NEW t \in Threads, fault(t)
  PROVE  AreaInv'
<1>1. CASE fault_denied(t) \/ fault_read_failed(t) \/ fault_gone(t)
  BY <1>1, DeniedOp, FailedOp, GoneOp, UserSolo, SameArea
<1> QED  BY <1>1, NewFrameArea, ProtectArea, MapArea, MappedArea, CountArea, FileArea, ReadArea DEF fault

\* An entry of a thread's space is in an area.
LEMMA EntryInArea ==
  ASSUME Ctl, AreaInv, NEW t \in Threads, sp[t] # NoSpace, NEW p \in Pages, area[sp[t]][p] = NoArea
  PROVE  pte[sp[t]][p] = NoPte
BY DEF AreaInv, Allowed

\* AreaInv through mmap, which finds no entries where it puts its area.
LEMMA MmapArea ==
  ASSUME Ctl, AreaInv, NEW t \in Threads, NEW ps \in Ranges, NEW a \in Areas, mmap(t, ps, a)
  PROVE  AreaInv' /\ \A p \in Pages : pte'[sp[t]][p] = IF p \in ps THEN NoPte ELSE pte[sp[t]][p]
<1>1. CallStep(t) /\ sp[t] # NoSpace /\ sp[t] \in Spaces /\ ps \subseteq Pages
  BY MmapCall, PagesFinite DEF CallStep, Ctl, Types
<1>2. \A p \in Pages : pte'[sp[t]][p] = IF p \in ps THEN NoPte ELSE pte[sp[t]][p]
  <2>1. CASE \E p \in ps : area[sp[t]][p] # NoArea
    BY <1>1, <2>1, MmapCall, UnmapWithin DEF Ctl
  <2>2. CASE \A p \in ps : area[sp[t]][p] = NoArea
    <3>1. pte' = pte
      BY <2>2, MmapCall
    <3> QED  BY <1>1, <2>2, <3>1, EntryInArea
  <2> QED  BY <2>1, <2>2
<1>3. \A p \in Pages : area'[sp[t]][p] = IF p \in ps THEN a ELSE area[sp[t]][p]
  BY MmapCall
<1>4. \A p \in Pages : Allowed(pte'[sp[t]][p], area'[sp[t]][p])
  BY <1>1, <1>2, <1>3 DEF AreaInv, Allowed
<1> QED  BY <1>1, <1>2, <1>4, CallArea

\* AreaInv through munmap and madvise.
LEMMA UnmapArea ==
  ASSUME Ctl, AreaInv, NEW t \in Threads, NEW ps \in Ranges, munmap(t, ps) \/ discard(t, ps)
  PROVE  AreaInv'
<1>1. /\ CallStep(t) /\ sp[t] # NoSpace /\ sp[t] \in Spaces /\ ps \subseteq Pages
      /\ unmap_range(sp[t], ps)
  BY MunmapCall, DiscardCall, PagesFinite DEF CallStep, Ctl, Types
<1>2. \A p \in Pages : pte'[sp[t]][p] = IF p \in ps THEN NoPte ELSE pte[sp[t]][p]
  BY <1>1, UnmapWithin DEF Ctl
<1>3. \A p \in Pages : area'[sp[t]][p] = area[sp[t]][p] \/ p \in ps
  BY MunmapCall, DiscardCall
<1>4. \A p \in Pages : Allowed(pte'[sp[t]][p], area'[sp[t]][p])
  BY <1>1, <1>2, <1>3 DEF AreaInv, Allowed
<1> QED  BY <1>1, <1>4, CallArea

\* AreaInv through mprotect: entries get the permissions of their areas.
LEMMA MprotectArea ==
  ASSUME Ctl, AreaInv, NEW t \in Threads, NEW ps \in Ranges, NEW prot \in Prots, mprotect(t, ps, prot)
  PROVE  AreaInv'
<1>1. CallStep(t) /\ sp[t] # NoSpace /\ sp[t] \in Spaces /\ ps \subseteq Pages
  BY MprotectCall, PagesFinite DEF CallStep, Ctl, Types
<1>2. ASSUME NEW p \in Pages
      PROVE  Allowed(pte'[sp[t]][p], area'[sp[t]][p])
  <2>1. Allowed(pte[sp[t]][p], area[sp[t]][p]) /\ pte[sp[t]][p] \in Entries \cup {NoPte}
    BY <1>1 DEF AreaInv, Ctl, Types
  <2>2. CASE p \notin ps
    <3>1. pte'[sp[t]][p] = pte[sp[t]][p] /\ area'[sp[t]][p] = area[sp[t]][p]
      BY <2>2, MprotectCall
    <3> QED  BY <2>1, <3>1
  <2>3. CASE p \in ps /\ pte[sp[t]][p] = NoPte
    <3>1. pte'[sp[t]][p] = NoPte
      BY <2>3, MprotectCall
    <3> QED  BY <3>1 DEF Allowed
  <2>4. CASE p \in ps /\ pte[sp[t]][p] # NoPte
    <3>1. PICK e, a : e = pte[sp[t]][p] /\ a = area[sp[t]][p]
      OBVIOUS
    <3>2. e \in Entries /\ a \in Areas
      BY <2>1, <2>4, <3>1, MprotectCall
    <3>3. pte'[sp[t]][p] = [e EXCEPT !.prot = prot] /\ area'[sp[t]][p] = [a EXCEPT !.prot = prot]
      BY <2>4, <3>1, MprotectCall
    <3>4. [e EXCEPT !.prot = prot].prot = prot
      BY <3>2 DEF Entries
    <3>5. [a EXCEPT !.prot = prot].prot = prot /\ [a EXCEPT !.prot = prot] \in Areas
      BY <3>2 DEF Areas
    <3> QED  BY <3>3, <3>4, <3>5, Nones DEF Allowed
  <2> QED  BY <2>2, <2>3, <2>4
<1> QED  BY <1>1, <1>2, CallArea

\* AreaInv through mremap: entries move with their area.
LEMMA MremapArea ==
  ASSUME Ctl, AreaInv, NEW t \in Threads, NEW old \in Pages, NEW new \in Pages,
         NEW n \in 1 .. NPages, NEW m \in 1 .. NPages, mremap(t, old, n, new, m)
  PROVE  AreaInv'
<1>1. CallStep(t) /\ sp[t] # NoSpace /\ sp[t] \in Spaces
  BY MremapCall DEF CallStep, Ctl, Types
<1>2. PICK P : P = pte[sp[t]]
  OBVIOUS
<1>3. PICK A : A = area[sp[t]]
  OBVIOUS
<1>4. /\ n < m /\ A[old] # NoArea /\ old \in Nat /\ new \in Nat /\ n \in Nat /\ m \in Nat
      /\ \A p \in old .. old + n - 1 : p \in Pages /\ A[p] = A[old]
      /\ \A p \in new .. new + m - 1 : p \in Pages /\ A[p] = NoArea
  BY <1>3, MremapCall, Nones, VmAssumption DEF Pages
<1>5. \A p \in Pages : Allowed(P[p], A[p])
  BY <1>1, <1>2, <1>3 DEF AreaInv
<1>6. ASSUME NEW p \in Pages
      PROVE  Allowed(pte'[sp[t]][p], area'[sp[t]][p])
  <2>1. /\ area'[sp[t]][p] = IF p \in new .. new + m - 1 THEN A[old]
                             ELSE IF p \in old .. old + n - 1 THEN NoArea ELSE A[p]
        /\ pte'[sp[t]][p] = IF p \in new .. new + n - 1 /\ P[p - new + old] # NoPte
                            THEN P[p - new + old]
                            ELSE IF p \in old .. old + n - 1 THEN NoPte ELSE P[p]
    BY <1>2, <1>3, MremapCall
  <2>2. p \in Int /\ (p \in new .. new + n - 1 => p - new + old \in old .. old + n - 1 /\ p \in new .. new + m - 1)
    BY <1>4 DEF Pages
  <2>3. CASE p \in new .. new + n - 1 /\ P[p - new + old] # NoPte
    <3>1. Allowed(P[p - new + old], A[p - new + old]) /\ A[p - new + old] = A[old]
      BY <1>4, <1>5, <2>2, <2>3
    <3> QED  BY <2>1, <2>2, <2>3, <3>1
  <2>4. CASE p \in new .. new + m - 1 /\ ~(p \in new .. new + n - 1 /\ P[p - new + old] # NoPte)
    <3>1. P[p] = NoPte
      BY <1>4, <1>5, <2>4 DEF Allowed
    <3> QED  BY <2>1, <2>4, <3>1 DEF Allowed
  <2>5. CASE p \notin new .. new + m - 1 /\ p \in old .. old + n - 1
    BY <2>1, <2>2, <2>5 DEF Allowed
  <2>6. CASE p \notin new .. new + m - 1 /\ p \notin old .. old + n - 1
    BY <1>5, <2>1, <2>2, <2>6
  <2> QED  BY <2>3, <2>4, <2>5, <2>6
<1> QED  BY <1>1, <1>6, CallArea

\* AreaInv through the clone of a space: both copies lose the right to write.
LEMMA CloneArea ==
  ASSUME Ctl, AreaInv, NEW t \in Threads, NEW c \in Spaces, CloneShape(t, c)
  PROVE  AreaInv'
<1>1. /\ sp[t] \in Spaces /\ sp[t] # c /\ Forks /\ Alone /\ sp' = sp /\ area' = area
      /\ op'[t] = [pc |-> "fork", child |-> c] /\ \A u \in Threads \ {t} : op'[u] = op[u]
      /\ \A x \in Spaces \ {sp[t], c} : pte'[x] = pte[x]
      /\ \A u \in Threads : sp[u] # c /\ (op[u].pc = "fork" => op[u].child # c)
  BY DEF CloneShape, AreaInv, Forks, Unused, Ctl, Types
<1>2. ASSUME NEW u \in Threads, sp[u] # NoSpace, NEW p \in Pages
      PROVE  Allowed(pte'[sp[u]][p], area[sp[u]][p])
  <2>1. CASE sp[u] = sp[t]
    <3>1. PICK e : e = pte[sp[t]][p]
      OBVIOUS
    <3>2. e \in Entries \cup {NoPte} /\ Allowed(e, area[sp[t]][p]) /\ pte'[sp[t]][p] = NoWrite(e)
      BY <1>1, <1>2, <2>1, <3>1 DEF AreaInv, CloneShape, Ctl, Types
    <3>3. CASE e = NoPte
      BY <2>1, <3>2, <3>3 DEF NoWrite, Allowed
    <3>4. CASE e \in Entries
      <4>1. [e EXCEPT !.prot = "r"].prot = "r"
        BY <3>4 DEF Entries
      <4> QED  BY <1>1, <2>1, <3>2, <3>4, <4>1, Nones DEF NoWrite, Allowed
    <3> QED  BY <3>2, <3>3, <3>4
  <2>2. CASE sp[u] # sp[t]
    <3>1. pte'[sp[u]] = pte[sp[u]]
      BY <1>1, <1>2, <2>2 DEF Ctl, Types
    <3> QED  BY <1>2, <3>1 DEF AreaInv
  <2> QED  BY <2>1, <2>2
<1>3. ASSUME NEW u \in Threads, sp[u] # NoSpace
      PROVE  Solo(u)'
  <2>1. CASE u = t
    <3>1. \A p \in Pages : pte'[c][p] = pte'[sp[t]][p]
      BY DEF CloneShape
    <3>2. op'[t].pc = "fork" /\ op'[t].child = c /\ "fork" \notin InVm
      BY <1>1 DEF InVm
    <3> QED  BY <1>1, <2>1, <3>1, <3>2 DEF Solo, SoloOp
  <2>2. CASE u # t
    <3>1. sp[u] \in Spaces \ {sp[t], c}
      BY <1>1, <1>3, <2>2 DEF Alone, Ctl, Types
    <3>2. op[u].pc = "fork" => op[u].child \in Spaces \ {sp[t], c}
      BY <1>1 DEF Ctl, Children, Types, OpOk
    <3>3. Solo(u) /\ op'[u] = op[u]
      BY <1>1, <1>3, <2>2 DEF AreaInv
    <3> QED  BY <1>1, <3>1, <3>2, <3>3 DEF Solo
  <2> QED  BY <2>1, <2>2
<1> QED  BY <1>1, <1>2, <1>3 DEF AreaInv, Alone, Forks, Allowed

\* AreaInv when the child of a fork gets its areas.
LEMMA StartArea ==
  ASSUME ~TablesFail, Ctl, AreaInv, NEW t \in Threads, NEW u \in Threads, StartShape(t, u)
  PROVE  AreaInv'
<1>1. PICK c : c = op[t].child
  OBVIOUS
<1>2. /\ op[t].pc = "fork" /\ c \in Spaces /\ u # t /\ sp[u] = NoSpace /\ op[u] = User
      /\ sp'[u] = c /\ \A w \in Threads \ {u} : sp'[w] = sp[w]
      /\ op'[t] = User /\ \A w \in Threads \ {t} : op'[w] = op[w]
      /\ pte' = pte /\ area'[c] = area[sp[t]] /\ \A x \in Spaces \ {c} : area'[x] = area[x]
  BY <1>1 DEF StartShape, Ctl, Types
<1>3. /\ Forks /\ sp[t] # NoSpace /\ sp[t] \in Spaces /\ \A w \in Threads : sp[w] # c
      /\ \A p \in Pages : pte[c][p] = pte[sp[t]][p]
  <2>1. op[t].pc # "user" /\ Forks
    BY <1>2, UserOk DEF AreaInv
  <2> QED  BY <1>1, <1>2, <2>1 DEF AreaInv, Solo, Ctl, Control, Children, Types
<1>4. Alone'
  BY <1>2, <1>3 DEF AreaInv, Alone
<1>5. ASSUME NEW w \in Threads, sp'[w] # NoSpace, NEW p \in Pages
      PROVE  Allowed(pte'[sp'[w]][p], area'[sp'[w]][p])
  <2>1. CASE w = u
    BY <1>2, <1>3, <2>1 DEF AreaInv
  <2>2. CASE w # u
    <3>1. sp'[w] = sp[w] /\ sp[w] \in Spaces \ {c}
      BY <1>2, <1>3, <1>5, <2>2 DEF Ctl, Types
    <3> QED  BY <1>2, <1>5, <3>1 DEF AreaInv
  <2> QED  BY <2>1, <2>2
<1>6. ASSUME NEW w \in Threads, sp'[w] # NoSpace
      PROVE  Solo(w)'
  <2>1. CASE w = u \/ w = t
    <3>1. op'[w] = User
      BY <1>2, <2>1
    <3> QED  BY <3>1, UserOk, UserSolo DEF Solo
  <2>2. CASE w # u /\ w # t
    <3>1. sp'[w] = sp[w] /\ sp[w] \in Spaces \ {c} /\ op'[w] = op[w]
      BY <1>2, <1>3, <1>6, <2>2 DEF Ctl, Types
    <3>2. Solo(w) /\ area'[sp[w]] = area[sp[w]]
      BY <1>2, <1>3, <1>6, <3>1 DEF AreaInv
    <3> QED  BY <1>2, <3>1, <3>2 DEF Solo
  <2> QED  BY <2>1, <2>2
<1> QED  BY <1>3, <1>4, <1>5, <1>6 DEF AreaInv, Forks, Allowed

\* AreaInv when a fork fails.
LEMMA ForkFailedArea ==
  ASSUME Ctl, AreaInv, NEW t \in Threads, fork_failed(t)
  PROVE  AreaInv'
<1>1. PICK c : c = op[t].child
  OBVIOUS
<1>2. /\ op[t].pc = "fork" /\ c \in Spaces /\ unmap_range(c, Pages)
      /\ op'[t] = User /\ \A u \in Threads \ {t} : op'[u] = op[u]
      /\ UNCHANGED <<area, sp>>
  BY <1>1, ForkFailedCtl DEF Ctl, Types
<1>3. \A x \in Spaces \ {c} : pte'[x] = pte[x]
  BY <1>2, UnmapWithin DEF Ctl
<1>4. Forks /\ \A u \in Threads : sp[u] # NoSpace => sp[u] \in Spaces \ {c}
  BY <1>1, <1>2 DEF AreaInv, Ctl, Children, Types
<1>5. ASSUME NEW u \in Threads, sp[u] # NoSpace
      PROVE  Solo(u)'
  <2>1. CASE u = t
    BY <1>2, <2>1, UserOk, UserSolo DEF Solo
  <2>2. CASE u # t
    <3>1. op'[u] = op[u] /\ Solo(u) /\ (op[u].pc = "fork" => op[u].child \in Spaces \ {c})
      BY <1>1, <1>2, <1>4, <1>5, <2>2 DEF AreaInv, Ctl, Children, Types, OpOk
    <3> QED  BY <1>2, <1>3, <1>4, <1>5, <3>1 DEF Solo
  <2> QED  BY <2>1, <2>2
<1> QED  BY <1>2, <1>3, <1>4, <1>5 DEF AreaInv, Alone, Forks, Allowed

\* AreaInv when a space is given back.
LEMMA ExitArea ==
  ASSUME Ctl, AreaInv, NEW s \in Spaces, exit(s)
  PROVE  AreaInv'
<1>1. /\ op' = op /\ \A t \in Threads : sp[t] = s => op[t] = User
      /\ \A t \in Threads : sp'[t] = IF sp[t] = s THEN NoSpace ELSE sp[t]
      /\ \A x \in Spaces \ {s} : area'[x] = area[x] /\ pte'[x] = pte[x]
  BY ExitCtl, UnmapWithin DEF Ctl
<1>2. \E t \in Threads : sp[t] = s
  BY DEF exit
<1>3. \A t \in Threads : sp'[t] # NoSpace => sp'[t] = sp[t] /\ sp[t] \in Spaces \ {s}
  BY <1>1 DEF Ctl, Types
<1>4. \A t \in Threads : op[t].pc = "fork" => op[t].child \in Spaces \ {s}
  BY <1>2 DEF Ctl, Children, Types, OpOk
<1>5. Alone => Alone'
  BY <1>1, <1>3 DEF Alone
<1>6. ASSUME Forks, NEW t \in Threads, sp'[t] # NoSpace
      PROVE  Solo(t)'
  <2>1. Solo(t) /\ sp'[t] = sp[t] /\ sp[t] \in Spaces \ {s}
    BY <1>3, <1>6 DEF AreaInv
  <2> QED  BY <1>1, <1>4, <2>1 DEF Solo
<1>7. \A t \in Threads : sp'[t] # NoSpace => \A p \in Pages : Allowed(pte'[sp'[t]][p], area'[sp'[t]][p])
  BY <1>1, <1>3 DEF AreaInv
<1> QED  BY <1>1, <1>5, <1>6, <1>7 DEF AreaInv, Forks, Allowed

\* Initially AreaInv holds.
LEMMA InitArea ==
  ASSUME Calm, Init
  PROVE  AreaInv
<1>1. PICK s \in Spaces : sp = [t \in Threads |-> IF t \in Starters THEN s ELSE NoSpace]
  BY DEF Init
<1>2. Forks => Alone
  BY <1>1, VmAssumption DEF Calm, Alone
<1>3. \A t \in Threads : op[t] = User
  BY DEF Init
<1>4. \A x \in Spaces, p \in Pages : pte[x][p] = NoPte
  BY DEF Init
<1>5. \A t \in Threads : sp[t] # NoSpace => sp[t] \in Spaces
  BY <1>1
<1> QED  BY <1>2, <1>3, <1>4, <1>5, UserOk, UserSolo DEF AreaInv, Allowed, Solo

\* Every step keeps Ctl.
LEMMA CtlAlways ==
  ASSUME Ctl, [Next]_vars
  PROVE  Ctl'
<1>1. CASE UNCHANGED vars
  BY <1>1 DEF vars, Ctl, Types, Control, Children, Empty, Unused
<1>2. ASSUME NEW t \in Threads, fault(t)
      PROVE  Ctl'
  <2>1. CASE fault_denied(t) \/ fault_read_failed(t) \/ fault_gone(t) \/ fault_anon(t) \/ fault_copy(t)
             \/ fault_protect(t) \/ fault_map(t)
    <3>1. OpStep(t, User)
      BY <2>1, DeniedOp, FailedOp, GoneOp, AnonOp, CopyOp, ProtectOp, MapOp
    <3> QED  BY <3>1, OpStepCtl
  <2>2. CASE fault_mapped(t)
    <3>1. PICK o : OpStep(t, o)
      BY <2>2, MappedOp
    <3> QED  BY <3>1, OpStepCtl
  <2>3. CASE fault_file(t)
    <3>1. PICK o : OpStep(t, o)
      BY <2>3, FileOp
    <3> QED  BY <3>1, OpStepCtl
  <2>4. CASE fault_count(t)
    <3>1. PICK o : OpStep(t, o)
      BY <2>4, CountOp
    <3> QED  BY <3>1, OpStepCtl
  <2>5. CASE fault_read(t)
    <3>1. PICK o : OpStep(t, o)
      BY <2>5, ReadOp DEF ReadShape
    <3> QED  BY <3>1, OpStepCtl
  <2> QED  BY <1>2, <2>1, <2>2, <2>3, <2>4, <2>5 DEF fault
<1>3. ASSUME NEW t \in Threads, NEW p \in Pages, NEW access \in {"read", "write"}, touch(t, p, access)
      PROVE  Ctl'
  <2>1. PICK o : OpStep(t, o)
    BY <1>3, TouchOp
  <2> QED  BY <2>1, OpStepCtl
<1>4. ASSUME NEW t \in Threads, NEW ps \in Ranges,
             \/ \E a \in Areas : mmap(t, ps, a)
             \/ munmap(t, ps) \/ discard(t, ps)
             \/ \E prot \in Prots : mprotect(t, ps, prot)
      PROVE  Ctl'
  <2>1. CallStep(t)
    BY <1>4, MmapCall, MunmapCall, DiscardCall, MprotectCall
  <2> QED  BY <2>1, CallStepCtl
<1>5. ASSUME NEW t \in Threads, NEW old \in Pages, NEW new \in Pages,
             NEW n \in 1 .. NPages, NEW m \in 1 .. NPages, mremap(t, old, n, new, m)
      PROVE  Ctl'
  <2>1. CallStep(t)
    BY <1>5, MremapCall
  <2> QED  BY <2>1, CallStepCtl
<1>6. ASSUME NEW t \in Threads, NEW c \in Spaces, clone_user_space(t, c)
      PROVE  Ctl'
  BY <1>6, CloneIs, CloneCtl
<1>7. ASSUME NEW t \in Threads, NEW u \in Threads, clone_space(t, u)
      PROVE  Ctl'
  BY <1>7, StartIs, StartCtl
<1> QED  BY <1>1, <1>2, <1>3, <1>4, <1>5, <1>6, <1>7, ForkFailedCtl, ExitCtl DEF Next

\* Every step keeps AreaInv.
LEMMA AreaAlways ==
  ASSUME Calm, Ctl, AreaInv, [Next]_vars
  PROVE  AreaInv'
<1>1. CASE UNCHANGED vars
  BY <1>1 DEF vars, AreaInv, Alone, Allowed, Forks, Solo
<1>2. ASSUME NEW t \in Threads, NEW ps \in Ranges,
             \/ \E a \in Areas : mmap(t, ps, a)
             \/ munmap(t, ps) \/ discard(t, ps)
             \/ \E prot \in Prots : mprotect(t, ps, prot)
      PROVE  AreaInv'
  BY <1>2, MmapArea, UnmapArea, MprotectArea
<1>3. ASSUME NEW t \in Threads, NEW c \in Spaces, clone_user_space(t, c)
      PROVE  AreaInv'
  BY <1>3, CloneIs, CloneArea
<1>4. ASSUME NEW t \in Threads, NEW u \in Threads, clone_space(t, u)
      PROVE  AreaInv'
  BY <1>4, StartIs, StartArea DEF Calm
<1> QED  BY <1>1, <1>2, <1>3, <1>4, TouchArea, FaultAreas, MremapArea, ForkFailedArea, ExitArea DEF Next

\* Ctl is an invariant.
LEMMA CtlHolds == Spec => []Ctl
<1>1. Ctl /\ [Next]_vars => Ctl'
  BY CtlAlways
<1> QED  BY <1>1, InitCtl, PTL DEF Spec

\* AreaInv is an invariant where one thread at a time can be in a space that
\* forks.
LEMMA AreaHolds ==
  ASSUME Calm
  PROVE  Spec => []AreaInv
<1>1. Init => AreaInv
  BY InitArea
<1>2. Ctl /\ AreaInv /\ [Next]_vars => AreaInv'
  BY AreaAlways
<1> QED  BY <1>1, <1>2, CtlHolds, PTL DEF Spec

-----------------------------------------------------------------------------
(* The counts of the frames.                                               *)

\* Pairs that start with x are as many as they have ends.
LEMMA PairsCount ==
  ASSUME NEW x, NEW S, IsFiniteSet(S)
  PROVE  IsFiniteSet({x} \X S) /\ Cardinality({x} \X S) = Cardinality(S)
<1>1. IsFiniteSet({x}) /\ Cardinality({x}) = 1
  BY FS_Singleton
<1>2. IsFiniteSet({x} \X S) /\ Cardinality({x} \X S) = Cardinality({x}) * Cardinality(S)
  BY <1>1, FS_Product
<1>3. PICK k \in Nat : Cardinality(S) = k
  BY FS_CardinalityType
<1> QED  BY <1>1, <1>2, <1>3

\* Sets that share nothing are as many together as one after the other.
LEMMA ApartCount ==
  ASSUME NEW S, NEW T, IsFiniteSet(S), IsFiniteSet(T), S \cap T = {}
  PROVE  Cardinality(S \cup T) = Cardinality(S) + Cardinality(T)
<1>1. Cardinality(S \cup T) = Cardinality(S) + Cardinality(T) - Cardinality(S \cap T)
  BY FS_Union
<1>2. Cardinality(S \cap T) = 0
  BY FS_EmptySet
<1>3. PICK k, l \in Nat : Cardinality(S) = k /\ Cardinality(T) = l
  BY FS_CardinalityType
<1> QED  BY <1>1, <1>2, <1>3

\* The entries of tables P that name f, those of one table, and the faults that hold it.
NamesIn(P, f)   == {x \in Spaces \X Pages : LET e == P[x[1]][x[2]] IN e # NoPte /\ e.frame = f}
OfTable(m, f, ps) == {p \in ps : m[p] # NoPte /\ m[p].frame = f}
Holders(f)      == {t \in Threads : f \in Held(t)}

\* What it is to be such an entry.
LEMMA InNames ==
  ASSUME NEW P, NEW f
  PROVE  /\ NamesIn(P, f) \subseteq Spaces \X Pages
         /\ \A x \in Spaces, q \in Pages : <<x, q>> \in NamesIn(P, f) <=> P[x][q] # NoPte /\ P[x][q].frame = f
         /\ NamesIn(P, f) = {} => \A x \in Spaces, q \in Pages : ~(P[x][q] # NoPte /\ P[x][q].frame = f)
<1>1. ASSUME NEW x \in Spaces, NEW q \in Pages
      PROVE  <<x, q>> \in NamesIn(P, f) <=> P[x][q] # NoPte /\ P[x][q].frame = f
  BY DEF NamesIn
<1>2. NamesIn(P, f) \subseteq Spaces \X Pages
  BY DEF NamesIn
<1>3. ASSUME NamesIn(P, f) = {}, NEW x \in Spaces, NEW q \in Pages
      PROVE  ~(P[x][q] # NoPte /\ P[x][q].frame = f)
  BY <1>1, <1>3
<1> QED  BY <1>1, <1>2, <1>3

\* A frame of one page has one name.
OnlyName(P, f, s, r) ==
    \A x \in Spaces, q \in Pages : (P[x][q] # NoPte /\ P[x][q].frame = f) <=> (x = s /\ q = r)

\* Such a frame has one entry.
LEMMA OneName ==
  ASSUME NEW P, NEW f, NEW s \in Spaces, NEW r \in Pages, OnlyName(P, f, s, r)
  PROVE  NamesIn(P, f) = {<<s, r>>}
<1>1. PICK M : M = NamesIn(P, f)
  OBVIOUS
<1>2. M \subseteq Spaces \X Pages
  BY <1>1, InNames
<1>3. \A x \in Spaces, q \in Pages : <<x, q>> \in M <=> P[x][q] # NoPte /\ P[x][q].frame = f
  BY <1>1 DEF NamesIn
<1>4. \A x \in Spaces, q \in Pages : <<x, q>> \in M <=> x = s /\ q = r
  BY <1>3 DEF OnlyName
<1>5. M = {<<s, r>>}
  BY <1>2, <1>4
<1> QED  BY <1>1, <1>5

\* FramesExact, and who holds a frame holds it alone.
FramesInv ==
    /\ \A f \in Frames : refs[f] = Cardinality(NamesIn(pte, f)) + Cardinality(Holders(f))
    /\ \A t \in Threads : \A f \in Held(t) : NamesIn(pte, f) = {} /\ Holders(f) = {t}

\* FramesInv is what FramesExact asks, and more.
LEMMA FramesInvExact == FramesInv => FramesExact
BY DEF FramesInv, FramesExact, NamesIn, Holders

\* Names and holders are finite sets, counters natural numbers.
LEMMA CountsType ==
  /\ \A P, f : IsFiniteSet(NamesIn(P, f)) /\ Cardinality(NamesIn(P, f)) \in Nat
  /\ \A f : IsFiniteSet(Holders(f)) /\ Cardinality(Holders(f)) \in Nat
<1>1. ASSUME NEW P, NEW f PROVE NamesIn(P, f) \subseteq Spaces \X Pages
  BY DEF NamesIn
<1>2. ASSUME NEW f PROVE Holders(f) \subseteq Threads
  BY DEF Holders
<1>3. \A P, f : IsFiniteSet(NamesIn(P, f))
  BY <1>1, PagesFinite, FS_Subset
<1>4. \A f : IsFiniteSet(Holders(f))
  BY <1>2, PagesFinite, FS_Subset
<1> QED  BY <1>3, <1>4, FS_CardinalityType

\* The counts after a step, of a new state.
LEMMA CountsTypeNext ==
  \A f : IsFiniteSet(Holders(f)') /\ Cardinality(Holders(f)') \in Nat
<1>1. ASSUME NEW f PROVE Holders(f)' \subseteq Threads
  BY DEF Holders
<1>2. \A f : IsFiniteSet(Holders(f)')
  BY <1>1, PagesFinite, FS_Subset
<1> QED  BY <1>2, FS_CardinalityType

\* A frame that is free has no name and nobody holds it.
LEMMA FreeFrame ==
  ASSUME Ctl, FramesInv, NEW f \in FreeFrames
  PROVE  f \in Frames /\ refs[f] = 0 /\ NamesIn(pte, f) = {} /\ Holders(f) = {}
<1>1. f \in Frames /\ refs[f] = 0
  BY DEF FreeFrames
<1>2. 0 = Cardinality(NamesIn(pte, f)) + Cardinality(Holders(f))
  BY <1>1 DEF FramesInv
<1>3. Cardinality(NamesIn(pte, f)) = 0 /\ Cardinality(Holders(f)) = 0
  BY <1>2, CountsType
<1> QED  BY <1>1, <1>3, CountsType, FS_EmptySet

\* Frames that are held are frames; each is counted once.
LEMMA HeldFrame ==
  ASSUME Ctl, FramesInv, NEW t \in Threads, NEW f \in Held(t)
  PROVE  f \in Frames /\ refs[f] = 1 /\ NamesIn(pte, f) = {} /\ Holders(f) = {t}
<1>1. op[t].pc = "map" /\ f \in Range(op[t].frames)
  BY DEF Held
<1>2. f \in Frames
  <2>1. OpOk(op[t])
    BY DEF Ctl, Types
  <2>2. PICK k \in 1 .. NPages : op[t].frames \in Injection(1 .. k, Frames)
    BY <1>1, <2>1 DEF OpOk
  <2> QED  BY <1>1, <2>2 DEF Injection, Range
<1>3. NamesIn(pte, f) = {} /\ Holders(f) = {t}
  BY DEF FramesInv
<1>4. Cardinality(NamesIn(pte, f)) = 0 /\ Cardinality(Holders(f)) = 1
  BY <1>3, FS_EmptySet, FS_Singleton
<1> QED  BY <1>2, <1>3, <1>4 DEF FramesInv

\* An entry's frame has a name.
LEMMA NamedFrame ==
  ASSUME Ctl, NEW s \in Spaces, NEW p \in Pages, pte[s][p] # NoPte
  PROVE  <<s, p>> \in NamesIn(pte, pte[s][p].frame) /\ pte[s][p].frame \in Frames /\ pte[s][p] \in Entries
BY DEF Ctl, Types, Entries, NamesIn

\* Entries keep their frames.
SameNames ==
    \A s \in Spaces, p \in Pages :
        /\ (pte'[s][p] = NoPte) <=> (pte[s][p] = NoPte)
        /\ pte[s][p] # NoPte => pte'[s][p].frame = pte[s][p].frame

\* Entries that name the same frames give the same sets of names.
LEMMA KeepNames ==
  ASSUME SameNames
  PROVE  \A f : NamesIn(pte', f) = NamesIn(pte, f)
BY DEF SameNames, NamesIn

\* FramesInv depends on the names, the holders and the counters only.
LEMMA KeepFrames ==
  ASSUME Ctl, FramesInv, refs' = refs, SameNames, \A t \in Threads : Held(t)' = Held(t)
  PROVE  FramesInv'
<1>1. \A f : NamesIn(pte', f) = NamesIn(pte, f)
  BY KeepNames
<1>2. \A f : Holders(f)' = Holders(f)
  BY DEF Holders
<1>3. FramesInv' = (/\ \A f \in Frames : refs'[f] = Cardinality(NamesIn(pte', f)) + Cardinality(Holders(f)')
                    /\ \A t \in Threads : \A f \in Held(t)' : NamesIn(pte', f) = {} /\ Holders(f)' = {t})
  BY DEF FramesInv, NamesIn
<1> QED  BY <1>1, <1>2, <1>3 DEF FramesInv

\* What other threads hold stays when one thread moves.
LEMMA OpHeld ==
  ASSUME Ctl, NEW t, NEW o, OpStep(t, o)
  PROVE  /\ Held(t)' = IF o.pc = "map" THEN Range(o.frames) ELSE {}
         /\ \A u \in Threads \ {t} : Held(u)' = Held(u)
BY DEF OpStep, Held, Ctl, Types

\* If nobody moves, nobody's holdings change.
LEMMA SameHeld ==
  ASSUME Ctl, \A t \in Threads : op'[t] = op[t] \/ (op[t].pc # "map" /\ op'[t].pc # "map")
  PROVE  \A t \in Threads : Held(t)' = Held(t)
BY DEF Held

\* Nothing is named or held but by itself.
LEMMA QuietFrames ==
  ASSUME Ctl, FramesInv, NEW t, NEW o, OpStep(t, o), refs' = refs, SameNames, o.pc # "map", op[t].pc # "map"
  PROVE  FramesInv'
<1>1. \A u \in Threads : Held(u)' = Held(u)
  BY OpHeld DEF Held
<1> QED  BY <1>1, KeepFrames

\* FramesInv after a step, from what it does to each frame.
LEMMA ToFrames ==
  ASSUME \A f \in Frames : refs'[f] = Cardinality(NamesIn(pte', f)) + Cardinality(Holders(f)'),
         \A t \in Threads : \A f \in Held(t)' : NamesIn(pte', f) = {} /\ Holders(f)' = {t}
  PROVE  FramesInv'
BY DEF FramesInv, NamesIn

\* Nobody begins or ends to hold frames, and those that are held keep no name.
LEMMA HoldersStay ==
  ASSUME Ctl, FramesInv, \A t \in Threads : Held(t)' = Held(t),
         \A f \in Frames : refs'[f] = Cardinality(NamesIn(pte', f)) + Cardinality(Holders(f)),
         \A f \in Frames : NamesIn(pte, f) = {} /\ Holders(f) # {} => NamesIn(pte', f) = {}
  PROVE  FramesInv'
<1>1. \A f : Holders(f)' = Holders(f)
  BY DEF Holders
<1>2. ASSUME NEW t \in Threads, NEW f \in Held(t)'
      PROVE  NamesIn(pte', f) = {} /\ Holders(f)' = {t}
  <2>1. f \in Held(t)
    OBVIOUS
  <2>2. f \in Frames /\ NamesIn(pte, f) = {} /\ Holders(f) = {t}
    BY <2>1, HeldFrame
  <2> QED  BY <1>1, <2>2
<1> QED  BY <1>1, <1>2, ToFrames

\* FramesInv when a fault maps the frame it took, with or without letting the
\* old one go.
LEMMA NewFrameFrames ==
  ASSUME Ctl, FramesInv, NEW t \in Threads, fault_anon(t) \/ fault_copy(t)
  PROVE  FramesInv'
<1>1. OpStep(t, User) /\ op[t].pc \in {"fault", "copy"}
  BY AnonOp, CopyOp, NewFrame, UserOk
<1>2. \A u \in Threads : Held(u)' = Held(u)
  BY <1>1, OpHeld, UserOk DEF Held
<1>3. CASE UNCHANGED <<pte, refs, origin>>
  BY <1>1, <1>2, <1>3, KeepFrames DEF SameNames
<1>4. ASSUME NEW g \in FreeFrames, NewAt(t, g)
      PROVE  FramesInv'
  <2>1. PICK s, p : s = sp[t] /\ p = op[t].page
    OBVIOUS
  <2>2. s \in Spaces /\ p \in Pages /\ (op[t].pc = "fault" => pte[s][p] = NoPte)
    BY <2>1, NewFrame
  <2>3. g \in Frames /\ refs[g] = 0 /\ NamesIn(pte, g) = {} /\ Holders(g) = {}
    BY FreeFrame
  <2>4. /\ \A x \in Spaces, q \in Pages : x # s \/ q # p => pte'[x][q] = pte[x][q]
        /\ pte'[s][p] # NoPte /\ pte'[s][p].frame = g
    <3>1. PICK e : e = [frame |-> g, prot |-> area[s][p].prot]
      OBVIOUS
    <3>2. area[s][p].prot \in Prots
      BY <2>1, NewFrame DEF Areas
    <3>3. e \in Entries /\ e.frame = g
      BY <2>3, <3>1, <3>2 DEF Entries
    <3>4. \A x \in Spaces, q \in Pages : pte'[x][q] = IF x = s /\ q = p THEN e ELSE pte[x][q]
      BY <1>4, <2>1, <3>1 DEF NewAt
    <3> QED  BY <2>2, <3>3, <3>4, Nones
  <2>5. NamesIn(pte', g) = {<<s, p>>}
    BY <2>2, <2>3, <2>4 DEF NamesIn
  <2>6. Cardinality(NamesIn(pte', g)) = 1 /\ Cardinality(Holders(g)) = 0
    BY <2>3, <2>5, FS_Singleton, FS_EmptySet
  <2>7. \A f : f # g /\ <<s, p>> \notin NamesIn(pte, f) => NamesIn(pte', f) = NamesIn(pte, f)
    BY <2>2, <2>4 DEF NamesIn
  <2>8. CASE op[t].pc = "fault"
    <3>1. \A f : <<s, p>> \notin NamesIn(pte, f)
      BY <2>2, <2>8 DEF NamesIn
    <3>2. \A f \in Frames : refs'[f] = IF f = g THEN 1 ELSE refs[f]
      BY <1>4, <2>3, <2>8 DEF NewAt, Ctl, Types
    <3>3. \A f \in Frames : refs'[f] = Cardinality(NamesIn(pte', f)) + Cardinality(Holders(f))
      BY <2>6, <2>7, <3>1, <3>2 DEF FramesInv
    <3>4. \A f \in Frames : NamesIn(pte, f) = {} /\ Holders(f) # {} => NamesIn(pte', f) = {}
      BY <2>3, <2>7, <3>1
    <3> QED  BY <1>2, <3>3, <3>4, HoldersStay
  <2>9. CASE op[t].pc = "copy"
    <3>1. PICK old : old = op[t].frame
      OBVIOUS
    <3>2. pte[s][p] # NoPte /\ pte[s][p].frame = old
      BY <2>1, <2>9, <3>1 DEF Ctl, Control, InVm
    <3>3. old \in Frames /\ <<s, p>> \in NamesIn(pte, old)
      BY <2>2, <3>2, NamedFrame
    <3>4. \A f : f # old => <<s, p>> \notin NamesIn(pte, f)
      BY <3>2 DEF NamesIn
    <3>5. old # g
      BY <2>3, <3>3
    <3>6. NamesIn(pte', old) = NamesIn(pte, old) \ {<<s, p>>}
      BY <2>2, <2>4, <3>5 DEF NamesIn
    <3>7. Cardinality(NamesIn(pte', old)) = Cardinality(NamesIn(pte, old)) - 1
      <4>1. PICK T, x : T = NamesIn(pte, old) /\ x = <<s, p>>
        OBVIOUS
      <4>2. IsFiniteSet(T) /\ x \in T
        BY <3>3, <4>1, CountsType
      <4>3. Cardinality(T \ {x}) = Cardinality(T) - 1
        BY <4>2, FS_RemoveElement
      <4> QED  BY <3>6, <4>1, <4>3
    <3>8. Cardinality(NamesIn(pte, old)) # 0
      BY <3>3, CountsType, FS_EmptySet
    <3>9. \A f \in Frames : refs'[f] = IF f = old THEN Dropped(old, 1) ELSE IF f = g THEN 1 ELSE refs[f]
      BY <1>4, <2>3, <2>9, <3>1, <3>3, <3>5 DEF NewAt, Ctl, Types
    <3>10. refs[old] = Cardinality(NamesIn(pte, old)) + Cardinality(Holders(old))
      BY <3>3 DEF FramesInv
    <3>11. Dropped(old, 1) = Cardinality(NamesIn(pte', old)) + Cardinality(Holders(old))
      BY <3>7, <3>8, <3>10, CountsType DEF Dropped
    <3>12. \A f \in Frames : refs'[f] = Cardinality(NamesIn(pte', f)) + Cardinality(Holders(f))
      BY <2>6, <2>7, <3>4, <3>9, <3>11 DEF FramesInv
    <3>13. \A f \in Frames : NamesIn(pte, f) = {} /\ Holders(f) # {} => NamesIn(pte', f) = {}
      BY <2>3, <2>7, <3>3, <3>4
    <3> QED  BY <1>2, <3>12, <3>13, HoldersStay
  <2> QED  BY <1>1, <2>8, <2>9
<1> QED  BY <1>3, <1>4, NewFrame

\* FramesInv when a fault gives its page the right to write back.
LEMMA ProtectFrames ==
  ASSUME Ctl, FramesInv, NEW t \in Threads, fault_protect(t)
  PROVE  FramesInv'
<1>1. OpStep(t, User) /\ refs' = refs /\ op[t].pc = "protect"
  BY ProtectOp DEF fault_protect
<1>2. sp[t] \in Spaces /\ op[t].page \in Pages /\ pte[sp[t]][op[t].page] # NoPte /\ "protect" \in InVm
  BY <1>1, OpHas DEF Ctl, Control, InVm
<1>3. PICK e : e = pte[sp[t]][op[t].page]
  OBVIOUS
<1>4. e \in Entries
  BY <1>2, <1>3, NamedFrame
<1>5. area[sp[t]][op[t].page] # NoArea /\ area[sp[t]][op[t].page].prot \in Prots
  BY <1>1, <1>2, FaultArea DEF Ctl, Control, InVm
<1>6. PICK n : n = [e EXCEPT !.prot = area[sp[t]][op[t].page].prot]
  OBVIOUS
<1>7. n \in Entries /\ n.frame = e.frame
  BY <1>4, <1>5, <1>6 DEF Entries
<1>8. pte'[sp[t]][op[t].page] = n
  BY <1>2, <1>3, <1>6, ProtectOp
<1>9. \A q \in Pages : q # op[t].page => pte'[sp[t]][q] = pte[sp[t]][q]
  BY ProtectOp
<1>10. \A x \in Spaces \ {sp[t]} : pte'[x] = pte[x]
  BY <1>1 DEF OpStep, Within
<1>11. SameNames
  BY <1>2, <1>3, <1>7, <1>8, <1>9, <1>10, Nones DEF SameNames
<1> QED  BY <1>1, <1>11, QuietFrames, UserOk

\* FramesInv when read-ahead takes its frames.
LEMMA ReadFrames ==
  ASSUME Ctl, FramesInv, NEW t \in Threads, fault_read(t)
  PROVE  FramesInv'
<1>1. op[t].pc = "read"
  BY DEF fault_read
<1>2. PICK k, fs : ReadShape(t, k, fs)
  BY ReadOp
<1>3. /\ fs \in Injection(1 .. k, FreeFrames) /\ OpStep(t, Reading(t, fs)) /\ pte' = pte
      /\ \A f \in Frames : refs'[f] = IF f \in Range(fs) THEN 1 ELSE refs[f]
  BY <1>2 DEF ReadShape
<1> DEFINE o == Reading(t, fs)
<1>4. o.pc = "map" /\ o.frames = fs /\ OpStep(t, o)
  BY <1>3 DEF Reading
<1> HIDE DEF o
<1>5. Held(t)' = Range(fs) /\ \A u \in Threads \ {t} : Held(u)' = Held(u)
  BY <1>4, OpHeld
<1>6. Held(t) = {}
  BY <1>1 DEF Held
<1>7. ASSUME NEW f \in Range(fs)
      PROVE  f \in FreeFrames
  BY <1>3 DEF Range, Injection
<1>8. \A f \in Range(fs) : f \in Frames /\ refs[f] = 0 /\ NamesIn(pte, f) = {} /\ Holders(f) = {}
  BY <1>7, FreeFrame
<1>9. \A f : Holders(f)' = IF f \in Range(fs) THEN Holders(f) \cup {t} ELSE Holders(f)
  BY <1>5, <1>6 DEF Holders
<1>10. \A f \in Range(fs) : Holders(f)' = {t}
  BY <1>8, <1>9
<1>11. \A f \in Range(fs) : Cardinality(NamesIn(pte', f)) = 0 /\ Cardinality(Holders(f)') = 1
  <2>1. \A f \in Range(fs) : NamesIn(pte', f) = {}
    BY <1>3, <1>8
  <2> QED  BY <1>10, <2>1, FS_EmptySet, FS_Singleton
<1>12. \A f \in Frames : refs'[f] = Cardinality(NamesIn(pte', f)) + Cardinality(Holders(f)')
  <2> TAKE f \in Frames
  <2>1. CASE f \in Range(fs)
    BY <1>3, <1>11, <2>1
  <2>2. CASE f \notin Range(fs)
    BY <1>3, <1>9, <2>2 DEF FramesInv
  <2> QED  BY <2>1, <2>2
<1>13. ASSUME NEW u \in Threads, NEW f \in Held(u)'
       PROVE  NamesIn(pte', f) = {} /\ Holders(f)' = {u}
  <2>1. CASE u = t
    BY <1>3, <1>5, <1>8, <1>10, <2>1
  <2>2. CASE u # t
    <3>1. f \in Held(u)
      BY <1>5, <2>2
    <3>2. NamesIn(pte, f) = {} /\ Holders(f) = {u}
      BY <3>1, HeldFrame
    <3>3. f \notin Range(fs)
      BY <1>8, <3>2
    <3> QED  BY <1>3, <1>9, <3>2, <3>3
  <2> QED  BY <2>1, <2>2
<1> QED  BY <1>12, <1>13, ToFrames

\* A fault lets go of the frames it holds: each goes free or gets its one name.
LEMMA LetGo ==
  ASSUME Ctl, FramesInv, NEW t \in Threads, Held(t)' = {}, \A u \in Threads \ {t} : Held(u)' = Held(u),
         \A f \in Held(t) : \/ refs'[f] = 0 /\ NamesIn(pte', f) = {}
                            \/ refs'[f] = 1 /\ \E x : NamesIn(pte', f) = {x},
         \A f \in Frames \ Held(t) : refs'[f] = refs[f] /\ NamesIn(pte', f) = NamesIn(pte, f)
  PROVE  FramesInv'
<1>1. \A f : Holders(f)' = Holders(f) \ {t}
  BY DEF Holders
<1>2. ASSUME NEW f \in Frames
      PROVE  refs'[f] = Cardinality(NamesIn(pte', f)) + Cardinality(Holders(f)')
  <2>1. CASE f \in Held(t)
    <3>1. Holders(f)' = {}
      BY <1>1, <2>1, HeldFrame
    <3>2. Cardinality(Holders(f)') = 0
      BY <3>1, FS_EmptySet
    <3>3. CASE refs'[f] = 0 /\ NamesIn(pte', f) = {}
      <4>1. Cardinality(NamesIn(pte', f)) = 0
        BY <3>3, FS_EmptySet
      <4> QED  BY <3>2, <3>3, <4>1
    <3>4. CASE refs'[f] = 1 /\ \E x : NamesIn(pte', f) = {x}
      <4>1. Cardinality(NamesIn(pte', f)) = 1
        BY <3>4, FS_Singleton
      <4> QED  BY <3>2, <3>4, <4>1
    <3> QED  BY <2>1, <3>3, <3>4
  <2>2. CASE f \notin Held(t)
    <3>1. Holders(f)' = Holders(f)
      BY <1>1, <2>2 DEF Holders
    <3> QED  BY <2>2, <3>1 DEF FramesInv
  <2> QED  BY <2>1, <2>2
<1>3. ASSUME NEW u \in Threads, NEW f \in Held(u)'
      PROVE  NamesIn(pte', f) = {} /\ Holders(f)' = {u}
  <2>1. u # t /\ f \in Held(u)
    OBVIOUS
  <2>2. f \in Frames /\ NamesIn(pte, f) = {} /\ Holders(f) = {u}
    BY <2>1, HeldFrame
  <2>3. f \notin Held(t)
    BY <2>1, <2>2 DEF Holders
  <2> QED  BY <1>1, <2>1, <2>2, <2>3
<1> QED  BY <1>2, <1>3, ToFrames

\* FramesInv when a fault lets go of what it read.
LEMMA GoneFrames ==
  ASSUME Ctl, FramesInv, NEW t \in Threads, fault_gone(t)
  PROVE  FramesInv'
<1>1. OpStep(t, User) /\ op[t].pc = "map" /\ pte' = pte
  BY GoneOp DEF fault_gone
<1>2. refs' = [f \in Frames |-> IF f \in Held(t) THEN Dropped(f, 1) ELSE refs[f]]
  BY <1>1 DEF fault_gone, Held
<1>3. Held(t)' = {} /\ \A u \in Threads \ {t} : Held(u)' = Held(u)
  BY <1>1, OpHeld, UserOk
<1>4. \A f \in Held(t) : refs'[f] = 0 /\ NamesIn(pte', f) = {}
  BY <1>1, <1>2, HeldFrame DEF Dropped
<1>5. \A f \in Frames \ Held(t) : refs'[f] = refs[f] /\ NamesIn(pte', f) = NamesIn(pte, f)
  BY <1>1, <1>2
<1> QED  BY <1>3, <1>4, <1>5, LetGo

\* FramesInv when frames read become entries.
LEMMA MapFrames ==
  ASSUME ~TablesFail, Ctl, FramesInv, NEW t \in Threads, fault_map(t)
  PROVE  FramesInv'
<1>1. OpStep(t, User) /\ op[t].pc = "map" /\ area[sp[t]][op[t].page] # NoArea
  BY MapOp
<1>2. PICK end \in AreaOf(sp[t], op[t].page) : \E mapped, back : MapShape(t, Fitting(t, end), mapped, back)
  BY MapOp
<1>3. PICK mapped, back : MapShape(t, Fitting(t, end), mapped, back)
  BY <1>2
<1>4. PICK s, p, fs : s = sp[t] /\ p = op[t].page /\ fs = op[t].frames
  OBVIOUS
<1>5. s \in Spaces /\ p \in Pages /\ p \in Nat
  BY <1>1, <1>4, OpHas DEF Pages
<1>6. PICK k \in 1 .. NPages : p + k - 1 \in Pages /\ fs \in Injection(1 .. k, Frames)
  BY <1>1, <1>4, OpHas DEF OpOk
<1>7. /\ DOMAIN fs = 1 .. k /\ \A i, j \in 1 .. k : fs[i] = fs[j] => i = j
      /\ \A i \in 1 .. k : fs[i] \in Frames /\ fs[i] \in Range(fs) /\ p + i - 1 \in Pages
      /\ \A f \in Range(fs) : \E i \in 1 .. k : f = fs[i]
  BY <1>5, <1>6, VmAssumption DEF Injection, IsInjective, Range, Pages
<1>8. Held(t) = Range(fs)
  BY <1>1, <1>4 DEF Held
<1>9. Held(t)' = {} /\ \A u \in Threads \ {t} : Held(u)' = Held(u)
  BY <1>1, OpHeld, UserOk
<1>10. mapped \subseteq 1 .. k /\ \A i \in mapped : pte[s][p + i - 1] = NoPte
  BY <1>3, <1>4, <1>7 DEF MapShape, Fitting
<1>11. back = {fs[i] : i \in (1 .. k) \ mapped}
  BY <1>3, <1>4, <1>7 DEF MapShape
<1>12. \A f \in Frames : refs'[f] = IF f \in back THEN Dropped(f, 1) ELSE refs[f]
  BY <1>3 DEF MapShape
<1>13. \A x \in Spaces \ {s} : pte'[x] = pte[x]
  BY <1>1, <1>4 DEF OpStep, Within
<1>14. area[s][p].prot \in Prots
  BY <1>1, <1>4, FaultArea
\* Entries of pages that are mapped, and of others.
<1>15. ASSUME NEW q \in Pages, q - p + 1 \in mapped
       PROVE  pte'[s][q] # NoPte /\ pte'[s][q].frame = fs[q - p + 1] /\ pte[s][q] = NoPte
  <2>1. pte'[s][q] = [frame |-> fs[q - p + 1], prot |-> area[s][p].prot]
    BY <1>3, <1>4, <1>15 DEF MapShape
  <2>2. fs[q - p + 1] \in Frames
    BY <1>7, <1>10, <1>15
  <2>3. pte'[s][q] \in Entries /\ pte'[s][q].frame = fs[q - p + 1]
    BY <1>14, <2>1, <2>2 DEF Entries
  <2>4. p + (q - p + 1) - 1 = q
    BY <1>5 DEF Pages
  <2>5. pte[s][p + (q - p + 1) - 1] = NoPte
    BY <1>10, <1>15
  <2> QED  BY <2>3, <2>4, <2>5, Nones
<1>16. ASSUME NEW q \in Pages, q - p + 1 \notin mapped
       PROVE  /\ (pte'[s][q] = NoPte) <=> (pte[s][q] = NoPte)
              /\ pte[s][q] # NoPte => pte'[s][q].frame = pte[s][q].frame
  <2>1. CASE pte'[s][q] = pte[s][q]
    BY <2>1
  <2>2. CASE pte'[s][q] # pte[s][q]
    <3>1. pte[s][q] # NoPte /\ pte'[s][q] = [pte[s][q] EXCEPT !.prot = area[s][p].prot]
      BY <1>3, <1>4, <1>16, <2>2 DEF MapShape
    <3>2. PICK e : e = pte[s][q]
      OBVIOUS
    <3>3. e \in Entries
      BY <1>5, <3>1, <3>2, NamedFrame
    <3>4. [e EXCEPT !.prot = area[s][p].prot] \in Entries /\ [e EXCEPT !.prot = area[s][p].prot].frame = e.frame
      BY <1>14, <3>3 DEF Entries
    <3> QED  BY <3>1, <3>2, <3>4, Nones
  <2> QED  BY <2>1, <2>2
<1>17. ASSUME NEW i \in mapped
       PROVE  refs'[fs[i]] = 1 /\ NamesIn(pte', fs[i]) = {<<s, p + i - 1>>}
  <2>1. fs[i] \in Held(t) /\ fs[i] \in Frames /\ i \in 1 .. k
    BY <1>7, <1>8, <1>10
  <2>2. fs[i] \notin back
    BY <1>7, <1>10, <1>11
  <2>3. refs'[fs[i]] = 1
    BY <1>12, <2>1, <2>2, HeldFrame
  <2>4. NamesIn(pte, fs[i]) = {}
    BY <2>1, HeldFrame
  <2>5. \A q \in Pages : (pte'[s][q] # NoPte /\ pte'[s][q].frame = fs[i]) <=> q = p + i - 1
    <3> TAKE q \in Pages
    <3>1. q - p + 1 \in mapped => (fs[q - p + 1] = fs[i] <=> q - p + 1 = i)
      BY <1>7, <1>10
    <3>2. q - p + 1 = i <=> q = p + i - 1
      BY <1>5, <2>1 DEF Pages
    <3>3. CASE q - p + 1 \in mapped
      BY <1>15, <3>1, <3>2, <3>3
    <3>4. CASE q - p + 1 \notin mapped
      <4>1. ~(pte[s][q] # NoPte /\ pte[s][q].frame = fs[i])
        BY <1>5, <2>4, InNames
      <4> QED  BY <1>16, <3>2, <3>4, <4>1
    <3> QED  BY <3>3, <3>4
  <2>6. \A x \in Spaces \ {s}, q \in Pages : ~(pte'[x][q] # NoPte /\ pte'[x][q].frame = fs[i])
    BY <1>13, <2>4, InNames
  <2>7. p + i - 1 \in Pages
    BY <1>7, <2>1
  <2>8. PICK P, f, r : P = pte' /\ f = fs[i] /\ r = p + i - 1
    OBVIOUS
  <2>9. r \in Pages /\ OnlyName(P, f, s, r)
    BY <2>5, <2>6, <2>7, <2>8 DEF OnlyName
  <2>10. s \in Spaces
    BY <1>5
  <2>11. NamesIn(P, f) = {<<s, r>>}
    BY <2>9, <2>10, OneName
  <2> QED  BY <2>3, <2>8, <2>11
<1>18. ASSUME NEW f \in Frames, \A i \in mapped : f # fs[i]
       PROVE  NamesIn(pte', f) = NamesIn(pte, f)
  <2>1. \A q \in Pages : (pte'[s][q] # NoPte /\ pte'[s][q].frame = f) <=> (pte[s][q] # NoPte /\ pte[s][q].frame = f)
    BY <1>15, <1>16, <1>18
  <2> QED  BY <1>13, <2>1 DEF NamesIn
<1>19. ASSUME NEW f \in Held(t)
       PROVE  \/ refs'[f] = 0 /\ NamesIn(pte', f) = {}
              \/ refs'[f] = 1 /\ \E x : NamesIn(pte', f) = {x}
  <2>1. PICK i \in 1 .. k : f = fs[i]
    BY <1>7, <1>8
  <2>2. CASE i \in mapped
    BY <1>17, <2>1, <2>2
  <2>3. CASE i \notin mapped
    <3>1. f \in back /\ \A j \in mapped : f # fs[j]
      BY <1>7, <1>10, <1>11, <2>1, <2>3
    <3>2. f \in Frames /\ refs[f] = 1 /\ NamesIn(pte, f) = {}
      BY HeldFrame
    <3> QED  BY <1>12, <1>18, <3>1, <3>2 DEF Dropped
  <2> QED  BY <2>2, <2>3
<1>20. ASSUME NEW f \in Frames \ Held(t)
       PROVE  refs'[f] = refs[f] /\ NamesIn(pte', f) = NamesIn(pte, f)
  <2>1. \A i \in 1 .. k : f # fs[i]
    BY <1>7, <1>8
  <2> QED  BY <1>10, <1>11, <1>12, <1>18, <2>1
<1> QED  BY <1>9, <1>19, <1>20, LetGo

\* unmap_range takes as many references as names.
LEMMA UnmapFrames ==
  ASSUME Ctl, FramesInv, NEW s \in Spaces, NEW ps \in SUBSET Pages, unmap_range(s, ps),
         \A t \in Threads : Held(t)' = Held(t)
  PROVE  FramesInv'
<1>1. /\ \A p \in Pages : pte'[s][p] = IF p \in ps THEN NoPte ELSE pte[s][p]
      /\ \A x \in Spaces \ {s} : pte'[x] = pte[x]
      /\ \A f \in Frames : refs'[f] = Dropped(f, Uses(pte[s], f, ps))
  BY UnmapWithin DEF Ctl
<1>2. ASSUME NEW f \in Frames
      PROVE  refs'[f] = Cardinality(NamesIn(pte', f)) + Cardinality(Holders(f))
  <2>1. PICK O : O = OfTable(pte[s], f, ps)
    OBVIOUS
  <2>2. O \subseteq ps /\ IsFiniteSet(O) /\ Cardinality(O) = Uses(pte[s], f, ps)
    <3>1. O \subseteq ps /\ ps \subseteq Pages
      BY <2>1 DEF OfTable
    <3>2. IsFiniteSet(O)
      BY <3>1, PagesFinite, FS_Subset
    <3> QED  BY <2>1, <3>1, <3>2 DEF Uses, OfTable
  <2>3. PICK N, R : N = NamesIn(pte', f) /\ R = {s} \X O
    OBVIOUS
  <2>4. NamesIn(pte, f) = N \cup R /\ N \cap R = {}
    BY <1>1, <2>1, <2>2, <2>3 DEF NamesIn, OfTable
  <2>5. IsFiniteSet(R) /\ Cardinality(R) = Cardinality(O)
    BY <2>2, <2>3, PairsCount
  <2>6. IsFiniteSet(N) /\ Cardinality(N) \in Nat
    BY <2>3, CountsType
  <2>7. Cardinality(N \cup R) = Cardinality(N) + Cardinality(R)
    BY <2>4, <2>5, <2>6, ApartCount
  <2>8. refs[f] = Cardinality(N) + Cardinality(O) + Cardinality(Holders(f))
    BY <2>4, <2>5, <2>7 DEF FramesInv
  <2>9. Cardinality(O) \in Nat /\ Cardinality(Holders(f)) \in Nat
    BY <2>2, FS_CardinalityType, CountsType
  <2>10. refs'[f] = Dropped(f, Cardinality(O))
    BY <1>1, <2>2
  <2> QED  BY <2>3, <2>6, <2>8, <2>9, <2>10 DEF Dropped
<1>3. \A f \in Frames : NamesIn(pte', f) \subseteq NamesIn(pte, f)
  BY <1>1 DEF NamesIn
<1> QED  BY <1>2, <1>3, HoldersStay

\* fork counts every entry it copies.
LEMMA CloneFrames ==
  ASSUME Ctl, FramesInv, NEW t \in Threads, NEW c \in Spaces, CloneShape(t, c)
  PROVE  FramesInv'
<1>1. PICK s : s = sp[t]
  OBVIOUS
<1>2. /\ s \in Spaces /\ s # c /\ c \in Unused /\ refs' = inc_ref(pte[s])
      /\ \A p \in Pages : pte'[s][p] = NoWrite(pte[s][p]) /\ pte'[c][p] = NoWrite(pte[s][p])
      /\ \A x \in Spaces \ {s, c} : pte'[x] = pte[x]
      /\ op' = [op EXCEPT ![t] = [pc |-> "fork", child |-> c]] /\ op[t] = User
  BY <1>1 DEF CloneShape
<1>3. \A u \in Threads : Held(u)' = Held(u)
  <2>1. op'[t].pc = "fork" /\ \A u \in Threads \ {t} : op'[u] = op[u]
    BY <1>2 DEF Ctl, Types
  <2> QED  BY <1>2, <2>1, UserOk, SameHeld
<1>4. \A p \in Pages : /\ pte[s][p] \in Entries \cup {NoPte}
                       /\ (NoWrite(pte[s][p]) = NoPte) <=> (pte[s][p] = NoPte)
                       /\ pte[s][p] # NoPte => NoWrite(pte[s][p]).frame = pte[s][p].frame
  <2>1. \A p \in Pages : pte[s][p] \in Entries \cup {NoPte}
    BY <1>2 DEF Ctl, Types
  <2> QED  BY <2>1, NoWriteIs
<1>5. ASSUME NEW f \in Frames
      PROVE  refs'[f] = Cardinality(NamesIn(pte', f)) + Cardinality(Holders(f))
  <2>1. PICK O : O = OfTable(pte[s], f, Pages)
    OBVIOUS
  <2>2. O \subseteq Pages /\ IsFiniteSet(O) /\ Cardinality(O) = Uses(pte[s], f, Pages)
    <3>1. O \subseteq Pages
      BY <2>1 DEF OfTable
    <3>2. IsFiniteSet(O)
      BY <3>1, PagesFinite, FS_Subset
    <3> QED  BY <2>1, <3>1, <3>2 DEF Uses, OfTable
  <2>3. PICK N, R : N = NamesIn(pte, f) /\ R = {c} \X O
    OBVIOUS
  <2>4. \A p \in Pages : pte[c][p] = NoPte
    BY <1>2 DEF Ctl, Empty
  <2>5. N \cap R = {}
    BY <2>3, <2>4 DEF NamesIn
  <2>6. NamesIn(pte', f) = N \cup R
    <3>1. \A p \in Pages : (pte'[s][p] # NoPte /\ pte'[s][p].frame = f) <=> (pte[s][p] # NoPte /\ pte[s][p].frame = f)
      BY <1>2, <1>4
    <3>2. \A p \in Pages : (pte'[c][p] # NoPte /\ pte'[c][p].frame = f) <=> p \in O
      BY <1>2, <1>4, <2>1 DEF OfTable
    <3>3. \A x \in Spaces, p \in Pages : <<x, p>> \in NamesIn(pte', f) <=> <<x, p>> \in N \cup R
      <4> TAKE x \in Spaces, p \in Pages
      <4>1. CASE x = c
        BY <2>3, <2>4, <3>2, <4>1 DEF NamesIn
      <4>2. CASE x = s
        BY <1>2, <2>3, <3>1, <4>2 DEF NamesIn
      <4>3. CASE x # c /\ x # s
        BY <1>2, <2>3, <4>3 DEF NamesIn
      <4> QED  BY <4>1, <4>2, <4>3
    <3>4. NamesIn(pte', f) \subseteq Spaces \X Pages /\ N \cup R \subseteq Spaces \X Pages
      BY <2>2, <2>3 DEF NamesIn
    <3> QED  BY <3>3, <3>4
  <2>7. IsFiniteSet(R) /\ Cardinality(R) = Cardinality(O)
    BY <2>2, <2>3, PairsCount
  <2>8. IsFiniteSet(N) /\ Cardinality(N) \in Nat
    BY <2>3, CountsType
  <2>9. Cardinality(N \cup R) = Cardinality(N) + Cardinality(R)
    BY <2>5, <2>7, <2>8, ApartCount
  <2>10. Cardinality(O) \in Nat /\ Cardinality(Holders(f)) \in Nat
    BY <2>2, FS_CardinalityType, CountsType
  <2>11. refs'[f] = refs[f] + Cardinality(O)
    BY <1>2, <2>2 DEF inc_ref
  <2>12. refs[f] = Cardinality(N) + Cardinality(Holders(f))
    BY <2>3 DEF FramesInv
  <2> QED  BY <2>6, <2>7, <2>8, <2>9, <2>10, <2>11, <2>12
<1>6. ASSUME NEW f \in Frames, NamesIn(pte, f) = {}
      PROVE  NamesIn(pte', f) = {}
  <2>1. \A x \in Spaces, p \in Pages : ~(pte[x][p] # NoPte /\ pte[x][p].frame = f)
    BY <1>6, InNames
  <2>2. \A x \in Spaces, p \in Pages : ~(pte'[x][p] # NoPte /\ pte'[x][p].frame = f)
    BY <1>2, <1>4, <2>1
  <2> QED  BY <2>2 DEF NamesIn
<1> QED  BY <1>3, <1>5, <1>6, HoldersStay

\* FramesInv through mprotect, which leaves the names alone.
LEMMA MprotectFrames ==
  ASSUME Ctl, FramesInv, NEW t \in Threads, NEW ps \in Ranges, NEW prot \in Prots, mprotect(t, ps, prot)
  PROVE  FramesInv'
<1>1. CallStep(t) /\ refs' = refs /\ sp[t] \in Spaces /\ op' = op
  BY MprotectCall DEF CallStep, Ctl, Types
<1>2. ASSUME NEW p \in Pages
      PROVE  /\ (pte'[sp[t]][p] = NoPte) <=> (pte[sp[t]][p] = NoPte)
             /\ pte[sp[t]][p] # NoPte => pte'[sp[t]][p].frame = pte[sp[t]][p].frame
  <2>1. CASE p \notin ps
    <3>1. pte'[sp[t]][p] = pte[sp[t]][p]
      BY <2>1, MprotectCall
    <3> QED  BY <3>1
  <2>2. CASE p \in ps /\ pte[sp[t]][p] = NoPte
    <3>1. pte'[sp[t]][p] = NoPte
      BY <2>2, MprotectCall
    <3> QED  BY <2>2, <3>1
  <2>3. CASE p \in ps /\ pte[sp[t]][p] # NoPte
    <3>1. PICK e : e = pte[sp[t]][p]
      OBVIOUS
    <3>2. pte'[sp[t]][p] = [e EXCEPT !.prot = prot]
      <4>1. PICK M : M = [q \in Pages |-> IF q \in ps /\ pte[sp[t]][q] # NoPte
                                         THEN [pte[sp[t]][q] EXCEPT !.prot = prot] ELSE pte[sp[t]][q]]
        OBVIOUS
      <4>2. pte' = [pte EXCEPT ![sp[t]] = M]
        BY <4>1 DEF mprotect
      <4>3. pte'[sp[t]] = M
        BY <1>1, <4>2 DEF Ctl, Types
      <4>4. M[p] = [e EXCEPT !.prot = prot]
        BY <2>3, <3>1, <4>1
      <4> QED  BY <4>3, <4>4
    <3>3. e \in Entries
      BY <1>1, <2>3, <3>1, NamedFrame
    <3>4. [e EXCEPT !.prot = prot] \in Entries /\ [e EXCEPT !.prot = prot].frame = e.frame
      BY <3>3 DEF Entries
    <3> QED  BY <2>3, <3>1, <3>2, <3>4, Nones
  <2> QED  BY <2>1, <2>2, <2>3
<1>3. \A x \in Spaces \ {sp[t]} : pte'[x] = pte[x]
  BY <1>1 DEF CallStep, Within
<1>4. SameNames
  BY <1>2, <1>3 DEF SameNames
<1> QED  BY <1>1, <1>4, SameHeld, KeepFrames

\* What mremap does to the entries: those of the n pages at old come to new,
\* where none were.
Moves(t, old, n, new) ==
    /\ \A p \in new .. new + n - 1 : /\ p \in Pages /\ p - new + old \in old .. old + n - 1
                                    /\ p \notin old .. old + n - 1 /\ pte[sp[t]][p] = NoPte
                                    /\ pte'[sp[t]][p] = pte[sp[t]][p - new + old]
    /\ \A p \in old .. old + n - 1 : /\ p \in Pages /\ p - old + new \in new .. new + n - 1
                                    /\ pte'[sp[t]][p] = NoPte
                                    /\ (p - old + new) - new + old = p
    /\ \A p \in Pages : p \notin new .. new + n - 1 /\ p \notin old .. old + n - 1
                         => pte'[sp[t]][p] = pte[sp[t]][p]

\* mremap moves the entries so.
LEMMA MremapNames ==
  ASSUME Ctl, AreaInv, NEW t \in Threads, NEW old \in Pages, NEW new \in Pages,
         NEW n \in 1 .. NPages, NEW m \in 1 .. NPages, mremap(t, old, n, new, m)
  PROVE  Moves(t, old, n, new) /\ old \in Nat /\ new \in Nat /\ n \in Nat
<1>1. CallStep(t) /\ refs' = refs /\ sp[t] # NoSpace /\ sp[t] \in Spaces /\ op' = op
  BY MremapCall DEF CallStep, Ctl, Types
<1>2. PICK s, P, Q : s = sp[t] /\ P = pte[sp[t]] /\ Q = pte'[sp[t]]
  OBVIOUS
<1>3. /\ n < m /\ old \in Nat /\ new \in Nat /\ n \in Nat /\ m \in Nat /\ NPages \in Nat
      /\ \A p \in old .. old + n - 1 : p \in Pages /\ area[sp[t]][p] # NoArea
      /\ \A p \in new .. new + m - 1 : p \in Pages /\ area[sp[t]][p] = NoArea
  <2>1. PICK A : A = area[sp[t]]
    OBVIOUS
  <2>2. /\ n < m /\ A[old] \in Areas
        /\ \A p \in old .. old + n - 1 : p \in Pages /\ A[p] = A[old]
        /\ \A p \in new .. new + m - 1 : p \in Pages /\ A[p] = NoArea
    BY <2>1, MremapCall
  <2>3. A[old] # NoArea
    BY <2>2, Nones
  <2>4. old \in Nat /\ new \in Nat /\ n \in Nat /\ m \in Nat /\ NPages \in Nat
    BY VmAssumption DEF Pages
  <2> QED  BY <2>1, <2>2, <2>3, <2>4
<1>4. \A p \in new .. new + m - 1 : P[p] = NoPte
  BY <1>1, <1>2, <1>3, EntryInArea
<1>5. \A p \in Pages : Q[p] = IF p \in new .. new + n - 1 /\ P[p - new + old] # NoPte
                              THEN P[p - new + old]
                              ELSE IF p \in old .. old + n - 1 THEN NoPte ELSE P[p]
  BY <1>2, MremapCall
<1>6. \A p \in new .. new + n - 1 : /\ p \in Pages /\ p - new + old \in old .. old + n - 1
                                    /\ p \notin old .. old + n - 1 /\ P[p] = NoPte
                                    /\ Q[p] = P[p - new + old]
  <2> TAKE p \in new .. new + n - 1
  <2>1. p \in new .. new + m - 1 /\ p - new + old \in old .. old + n - 1 /\ p \in Pages
    BY <1>3
  <2>2. p \notin old .. old + n - 1 /\ P[p] = NoPte
    BY <1>3, <1>4, <2>1
  <2> QED  BY <1>5, <2>1, <2>2
<1>7. \A p \in old .. old + n - 1 : /\ p \in Pages /\ p - old + new \in new .. new + n - 1 /\ Q[p] = NoPte
                                    /\ (p - old + new) - new + old = p
  <2> TAKE p \in old .. old + n - 1
  <2>1. p \in Pages /\ p - old + new \in new .. new + n - 1 /\ (p - old + new) - new + old = p
    BY <1>3
  <2>2. p \notin new .. new + n - 1
    BY <1>6
  <2> QED  BY <1>5, <2>1, <2>2
<1>8. \A p \in Pages : p \notin new .. new + n - 1 /\ p \notin old .. old + n - 1 => Q[p] = P[p]
  BY <1>5
<1> QED  BY <1>2, <1>3, <1>6, <1>7, <1>8 DEF Moves


\* mremap moves names.
LEMMA MremapFrames ==
  ASSUME Ctl, AreaInv, FramesInv, NEW t \in Threads, NEW old \in Pages, NEW new \in Pages,
         NEW n \in 1 .. NPages, NEW m \in 1 .. NPages, mremap(t, old, n, new, m)
  PROVE  FramesInv'
<1>1. CallStep(t) /\ refs' = refs /\ sp[t] # NoSpace /\ sp[t] \in Spaces /\ op' = op
  BY MremapCall DEF CallStep, Ctl, Types
<1>2. PICK s, P, Q : s = sp[t] /\ P = pte[sp[t]] /\ Q = pte'[sp[t]]
  OBVIOUS
<1>3. old \in Nat /\ new \in Nat /\ n \in Nat
  BY MremapNames
<1>4. \A p \in new .. new + n - 1 : /\ p \in Pages /\ p - new + old \in old .. old + n - 1
                                    /\ p \notin old .. old + n - 1 /\ P[p] = NoPte
                                    /\ Q[p] = P[p - new + old]
  BY <1>2, MremapNames DEF Moves
<1>5. \A p \in old .. old + n - 1 : /\ p \in Pages /\ p - old + new \in new .. new + n - 1 /\ Q[p] = NoPte
                                    /\ (p - old + new) - new + old = p
  BY <1>2, MremapNames DEF Moves
<1>6. \A p \in Pages : p \notin new .. new + n - 1 /\ p \notin old .. old + n - 1 => Q[p] = P[p]
  BY <1>2, MremapNames DEF Moves
<1>7. \A x \in Spaces \ {s} : pte'[x] = pte[x]
  BY <1>1, <1>2 DEF CallStep, Within
<1>8. ASSUME NEW f \in Frames
       PROVE  Cardinality(NamesIn(pte', f)) = Cardinality(NamesIn(pte, f))
  <2> DEFINE Moved(x) == x[1] = s /\ x[2] \in new .. new + n - 1
             From(x) == IF Moved(x) THEN <<s, x[2] - new + old>> ELSE x
  <2>1. PICK S, T : S = NamesIn(pte', f) /\ T = NamesIn(pte, f)
    OBVIOUS
  <2>2. /\ S \subseteq Spaces \X Pages /\ T \subseteq Spaces \X Pages
        /\ \A x \in Spaces, q \in Pages : <<x, q>> \in S <=> pte'[x][q] # NoPte /\ pte'[x][q].frame = f
        /\ \A x \in Spaces, q \in Pages : <<x, q>> \in T <=> pte[x][q] # NoPte /\ pte[x][q].frame = f
    BY <2>1 DEF NamesIn
  <2>3. /\ \A q \in Pages : <<s, q>> \in S <=> Q[q] # NoPte /\ Q[q].frame = f
        /\ \A q \in Pages : <<s, q>> \in T <=> P[q] # NoPte /\ P[q].frame = f
        /\ \A x \in Spaces \ {s}, q \in Pages : <<x, q>> \in S <=> <<x, q>> \in T
        /\ s \in Spaces
    BY <1>1, <1>2, <1>7, <2>2
  <2>4. \A x \in S : /\ From(x) \in T
                     /\ ~Moved(x) => From(x) = x /\ ~(x[1] = s /\ x[2] \in old .. old + n - 1)
                     /\ Moved(x) => /\ From(x) = <<s, x[2] - new + old>> /\ x = <<s, x[2]>>
                                    /\ x[2] - new + old \in old .. old + n - 1
    <3> TAKE x \in S
    <3>1. PICK z \in Spaces, q \in Pages : x = <<z, q>>
      BY <2>2
    <3>2. CASE Moved(x)
      <4>1. z = s /\ q \in new .. new + n - 1 /\ From(x) = <<s, q - new + old>>
        BY <3>1, <3>2
      <4>2. q - new + old \in Pages /\ Q[q] = P[q - new + old] /\ q - new + old \in old .. old + n - 1
        BY <1>4, <1>5, <4>1
      <4>3. <<s, q - new + old>> \in T
        BY <2>3, <3>1, <4>1, <4>2
      <4> QED  BY <3>1, <3>2, <4>1, <4>2, <4>3
    <3>3. CASE ~Moved(x) /\ z = s
      <4>1. q \notin old .. old + n - 1
        BY <1>5, <2>3, <3>1, <3>3
      <4>2. Q[q] = P[q]
        BY <1>6, <3>1, <3>3, <4>1
      <4> QED  BY <2>3, <3>1, <3>3, <4>1, <4>2
    <3>4. CASE z # s
      BY <2>3, <3>1, <3>4
    <3> QED  BY <3>2, <3>3, <3>4
  <2>5. \A x, y \in S : From(x) = From(y) => x = y
    <3> SUFFICES ASSUME NEW x \in S, NEW y \in S, From(x) = From(y) PROVE x = y
      OBVIOUS
    <3>1. x[2] \in Int /\ y[2] \in Int
      BY <2>2 DEF Pages
    <3>2. CASE Moved(x) /\ Moved(y)
      <4>1. <<s, x[2] - new + old>> = <<s, y[2] - new + old>> /\ x = <<s, x[2]>> /\ y = <<s, y[2]>>
        BY <2>4, <3>2
      <4>2. x[2] - new + old = y[2] - new + old
        BY <4>1
      <4>3. x[2] = y[2]
        BY <1>3, <3>1, <4>2
      <4> QED  BY <4>1, <4>3
    <3>3. CASE Moved(x) /\ ~Moved(y)
      <4>1. y = <<s, x[2] - new + old>> /\ x[2] - new + old \in old .. old + n - 1
            /\ ~(y[1] = s /\ y[2] \in old .. old + n - 1)
        BY <2>4, <3>3
      <4> QED  BY <4>1
    <3>4. CASE ~Moved(x) /\ Moved(y)
      <4>1. x = <<s, y[2] - new + old>> /\ y[2] - new + old \in old .. old + n - 1
            /\ ~(x[1] = s /\ x[2] \in old .. old + n - 1)
        BY <2>4, <3>4
      <4> QED  BY <4>1
    <3>5. CASE ~Moved(x) /\ ~Moved(y)
      BY <2>4, <3>5
    <3> QED  BY <3>2, <3>3, <3>4, <3>5
  <2>6. \A y \in T : \E x \in S : From(x) = y
    <3> TAKE y \in T
    <3>1. PICK z \in Spaces, q \in Pages : y = <<z, q>>
      BY <2>2
    <3>2. CASE z = s /\ q \in old .. old + n - 1
      <4>1. PICK r : r = q - old + new
        OBVIOUS
      <4>2. r \in new .. new + n - 1 /\ r - new + old = q /\ r \in Pages /\ Q[r] = P[q]
        BY <1>4, <1>5, <3>2, <4>1
      <4>3. <<s, r>> \in S
        BY <2>3, <3>1, <3>2, <4>2
      <4>4. Moved(<<s, r>>) /\ From(<<s, r>>) = y
        BY <3>1, <3>2, <4>2
      <4> QED  BY <4>3, <4>4
    <3>3. CASE z = s /\ q \notin old .. old + n - 1
      <4>1. q \notin new .. new + n - 1
        BY <1>4, <2>3, <3>1, <3>3
      <4>2. y \in S /\ ~Moved(y)
        BY <1>6, <2>3, <3>1, <3>3, <4>1
      <4> QED  BY <4>2
    <3>4. CASE z # s
      <4>1. y \in S /\ ~Moved(y)
        BY <2>3, <3>1, <3>4
      <4> QED  BY <4>1
    <3> QED  BY <3>2, <3>3, <3>4
  <2>7. PICK g : g = [x \in S |-> From(x)]
    OBVIOUS
  <2>8. g \in [S -> T] /\ \A x \in S : g[x] = From(x)
    BY <2>4, <2>7
  <2> HIDE DEF From
  <2>9. g \in Injection(S, T)
    BY <2>5, <2>8 DEF Injection, IsInjective
  <2>10. g \in Surjection(S, T)
    BY <2>6, <2>8 DEF Surjection
  <2>11. ExistsBijection(S, T) /\ IsFiniteSet(S)
    BY <2>1, <2>9, <2>10, CountsType DEF ExistsBijection, Bijection
  <2>12. Cardinality(T) = Cardinality(S)
    BY <2>11, FS_Bijection
  <2> QED  BY <2>1, <2>12
<1>9. \A u \in Threads : Held(u)' = Held(u)
  BY <1>1, SameHeld
<1>10. \A f \in Frames : refs'[f] = Cardinality(NamesIn(pte', f)) + Cardinality(Holders(f))
  BY <1>1, <1>8 DEF FramesInv
<1>11. \A f \in Frames : NamesIn(pte, f) = {} /\ Holders(f) # {} => NamesIn(pte', f) = {}
  <2> SUFFICES ASSUME NEW f \in Frames, NamesIn(pte, f) = {} PROVE NamesIn(pte', f) = {}
    OBVIOUS
  <2>1. Cardinality(NamesIn(pte, f)) = 0
    BY FS_EmptySet
  <2>2. Cardinality(NamesIn(pte', f)) = 0
    BY <1>8, <2>1
  <2> QED  BY <2>2, CountsType, FS_EmptySet
<1> QED  BY <1>9, <1>10, <1>11, HoldersStay

\* mmap, munmap and madvise.
LEMMA RangeFrames ==
  ASSUME Ctl, FramesInv, NEW t \in Threads, NEW ps \in Ranges,
         (\E a \in Areas : mmap(t, ps, a)) \/ munmap(t, ps) \/ discard(t, ps)
  PROVE  FramesInv'
<1>1. CallStep(t)
  BY MmapCall, MunmapCall, DiscardCall
<1>2. sp[t] \in Spaces /\ ps \in SUBSET Pages /\ \A u \in Threads : Held(u)' = Held(u)
  BY <1>1, PagesFinite, SameHeld DEF CallStep, Ctl, Types
<1>3. unmap_range(sp[t], ps) \/ UNCHANGED <<pte, refs>>
  BY MmapCall, MunmapCall, DiscardCall
<1>4. CASE UNCHANGED <<pte, refs>>
  BY <1>2, <1>4, KeepFrames DEF SameNames
<1> QED  BY <1>2, <1>3, <1>4, UnmapFrames

\* FramesInv through every step on a whole space.
LEMMA SpaceFrames ==
  ASSUME Ctl, FramesInv, NEW s \in Spaces,
         \/ exit(s)
         \/ \E t \in Threads : fork_failed(t)
         \/ \E t, u \in Threads : clone_space(t, u)
  PROVE  FramesInv'
<1>1. CASE exit(s)
  <2>1. unmap_range(s, Pages) /\ \A t \in Threads : Held(t)' = Held(t)
    BY <1>1, ExitCtl, SameHeld
  <2> QED  BY <2>1, UnmapFrames
<1>2. ASSUME NEW t \in Threads, fork_failed(t)
      PROVE  FramesInv'
  <2>1. /\ op[t].pc = "fork" /\ op[t].child \in Spaces /\ unmap_range(op[t].child, Pages)
        /\ op' = [op EXCEPT ![t] = User]
    BY <1>2, ForkFailedCtl
  <2>2. op'[t] = User /\ \A u \in Threads \ {t} : op'[u] = op[u]
    BY <2>1 DEF Ctl, Types
  <2>3. \A u \in Threads : Held(u)' = Held(u)
    BY <2>1, <2>2, UserOk, SameHeld
  <2>4. PICK c : c = op[t].child
    OBVIOUS
  <2> QED  BY <2>1, <2>3, <2>4, UnmapFrames
<1>3. ASSUME NEW t \in Threads, NEW u \in Threads, clone_space(t, u)
      PROVE  FramesInv'
  <2>1. op[t].pc = "fork" /\ op' = [op EXCEPT ![t] = User] /\ UNCHANGED <<pte, refs>>
    BY <1>3, StartIs DEF StartShape
  <2>2. op'[t] = User /\ \A w \in Threads \ {t} : op'[w] = op[w]
    BY <2>1 DEF Ctl, Types
  <2>3. \A w \in Threads : Held(w)' = Held(w)
    BY <2>1, <2>2, UserOk, SameHeld
  <2> QED  BY <2>1, <2>3, KeepFrames DEF SameNames
<1> QED  BY <1>1, <1>2, <1>3

\* The steps of a fault that only look: what the thread does next holds no frames.
LEMMA LookOp ==
  ASSUME Ctl, NEW t \in Threads,
         \/ \E p \in Pages, access \in {"read", "write"} : touch(t, p, access)
         \/ fault_denied(t) \/ fault_mapped(t) \/ fault_file(t) \/ fault_count(t) \/ fault_read_failed(t)
  PROVE  /\ UNCHANGED <<pte, refs, origin>> /\ op[t].pc # "map"
         /\ \E o : OpStep(t, o) /\ o.pc # "map"
<1>1. UNCHANGED <<pte, refs, origin>>
  BY DEF touch, fault_denied, fault_mapped, fault_file, fault_count, fault_read_failed
<1>2. op[t].pc # "map"
  BY UserOk DEF touch, fault_denied, fault_mapped, fault_file, fault_count, fault_read_failed, Faulting
<1>3. \E o : OpStep(t, o) /\ o.pc # "map"
  <2>1. CASE \E p \in Pages, access \in {"read", "write"} : touch(t, p, access)
    <3>1. PICK p \in Pages, access \in {"read", "write"} : touch(t, p, access)
      BY <2>1
    <3> DEFINE o == [pc |-> "fault", page |-> p, access |-> access]
    <3>2. OpStep(t, o) /\ o.pc = "fault"
      BY <3>1, TouchOp
    <3> HIDE DEF o
    <3> QED  BY <3>2
  <2>2. CASE fault_denied(t) \/ fault_read_failed(t)
    BY <2>2, DeniedOp, FailedOp, UserOk
  <2>3. CASE fault_mapped(t)
    <3>1. PICK pc \in {"count", "protect"} : OpStep(t, [pc |-> pc, page |-> op[t].page])
      BY <2>3, MappedOp
    <3> DEFINE o == [pc |-> pc, page |-> op[t].page]
    <3>2. OpStep(t, o) /\ o.pc = pc
      BY <3>1
    <3> HIDE DEF o
    <3> QED  BY <3>2
  <2>4. CASE fault_file(t)
    <3>1. PICK n \in Nat : OpStep(t, [pc |-> "read", page |-> op[t].page, v |-> area[sp[t]][op[t].page], n |-> n])
      BY <2>4, FileOp
    <3> DEFINE o == [pc |-> "read", page |-> op[t].page, v |-> area[sp[t]][op[t].page], n |-> n]
    <3>2. OpStep(t, o) /\ o.pc = "read"
      BY <3>1
    <3> HIDE DEF o
    <3> QED  BY <3>2
  <2>5. CASE fault_count(t)
    <3> DEFINE c == [pc |-> "copy", page |-> op[t].page, frame |-> pte[sp[t]][op[t].page].frame]
               d == [pc |-> "protect", page |-> op[t].page]
    <3>1. OpStep(t, c) \/ OpStep(t, d)
      BY <2>5, CountOp
    <3>2. c.pc = "copy" /\ d.pc = "protect"
      OBVIOUS
    <3> HIDE DEF c, d
    <3> QED  BY <3>1, <3>2
  <2> QED  BY <2>1, <2>2, <2>3, <2>4, <2>5
<1> QED  BY <1>1, <1>2, <1>3

\* Steps that count nothing.
LEMMA LookFrames ==
  ASSUME Ctl, FramesInv, NEW t \in Threads,
         \/ \E p \in Pages, access \in {"read", "write"} : touch(t, p, access)
         \/ fault_denied(t) \/ fault_mapped(t) \/ fault_file(t) \/ fault_count(t) \/ fault_read_failed(t)
  PROVE  FramesInv'
BY LookOp, QuietFrames DEF SameNames

\* Where a process of several threads does not both fork and move pages, and
\* there is memory for tables.
CountedCalls == ~TablesFail /\ ("mremap" \in Calls => Calm)

\* Every step keeps FramesInv.
LEMMA FramesAlways ==
  ASSUME CountedCalls, Ctl, "mremap" \in Calls => AreaInv, FramesInv, [Next]_vars
  PROVE  FramesInv'
<1>1. CASE UNCHANGED vars
  <2>1. UNCHANGED <<pte, refs, op>>
    BY <1>1 DEF vars
  <2>2. \A t \in Threads : Held(t)' = Held(t)
    BY <2>1, SameHeld
  <2> QED  BY <2>1, <2>2, KeepFrames DEF SameNames
<1>2. ASSUME NEW t \in Threads, NEW p \in Pages, NEW access \in {"read", "write"}, touch(t, p, access)
      PROVE  FramesInv'
  BY <1>2, LookFrames
<1>3. ASSUME NEW t \in Threads, fault(t)
      PROVE  FramesInv'
  BY <1>3, LookFrames, NewFrameFrames, ProtectFrames, ReadFrames, GoneFrames, MapFrames DEF fault, CountedCalls
<1>4. ASSUME NEW t \in Threads, NEW ps \in Ranges,
             \/ \E a \in Areas : mmap(t, ps, a)
             \/ munmap(t, ps) \/ discard(t, ps)
             \/ \E prot \in Prots : mprotect(t, ps, prot)
      PROVE  FramesInv'
  BY <1>4, RangeFrames, MprotectFrames
<1>5. ASSUME NEW t \in Threads, NEW old \in Pages, NEW new \in Pages,
             NEW n \in 1 .. NPages, NEW m \in 1 .. NPages, mremap(t, old, n, new, m)
      PROVE  FramesInv'
  BY <1>5, MremapCall, MremapFrames
<1>6. ASSUME NEW t \in Threads, NEW c \in Spaces, clone_user_space(t, c)
      PROVE  FramesInv'
  BY <1>6, CloneIs, CloneFrames
<1>7. ASSUME NEW t \in Threads, fork_failed(t) \/ \E u \in Threads : clone_space(t, u)
      PROVE  FramesInv'
  <2>1. PICK s : s \in Spaces
    BY <1>7, ForkFailedCtl, StartIs DEF StartShape
  <2> QED  BY <1>7, <2>1, SpaceFrames
<1>8. ASSUME NEW s \in Spaces, exit(s)
      PROVE  FramesInv'
  BY <1>8, SpaceFrames
<1> QED  BY <1>1, <1>2, <1>3, <1>4, <1>5, <1>6, <1>7, <1>8 DEF Next

\* Initially no frame has a name or a holder.
LEMMA InitFrames == Init => FramesInv
<1> SUFFICES ASSUME Init PROVE FramesInv
  OBVIOUS
<1>1. \A t \in Threads : Held(t) = {}
  BY UserOk DEF Init, Held
<1>2. \A f : Holders(f) = {}
  BY <1>1 DEF Holders
<1>3. \A f : NamesIn(pte, f) = {}
  BY DEF Init, NamesIn
<1>4. \A f : Cardinality(NamesIn(pte, f)) = 0 /\ Cardinality(Holders(f)) = 0
  BY <1>2, <1>3, FS_EmptySet
<1>5. \A f \in Frames : refs[f] = 0
  BY DEF Init
<1> QED  BY <1>1, <1>4, <1>5 DEF FramesInv

\* FramesInv is an invariant.
LEMMA FramesHold ==
  ASSUME CountedCalls
  PROVE  Spec => []FramesInv
<1>1. Ctl /\ FramesInv /\ [Next]_vars /\ ("mremap" \in Calls => AreaInv) => FramesInv'
  BY FramesAlways
<1>2. CASE "mremap" \in Calls
  <2>1. Spec => []AreaInv
    BY <1>2, AreaHolds DEF CountedCalls
  <2>2. Ctl /\ AreaInv /\ FramesInv /\ [Next]_vars => FramesInv'
    BY <1>1
  <2> QED  BY <2>1, <2>2, CtlHolds, InitFrames, PTL DEF Spec
<1>3. CASE "mremap" \notin Calls
  <2>1. Ctl /\ FramesInv /\ [Next]_vars => FramesInv'
    BY <1>1, <1>3
  <2> QED  BY <2>1, CtlHolds, InitFrames, PTL DEF Spec
<1> QED  BY <1>2, <1>3

\* REFCOUNT of a frame is the number of entries that name it and of faults that
\* hold it (frame_allocator.rs: ref_count, inc_ref, free_frame): no frame is freed under a page and none is lost, for any number of
\* threads, spaces, pages and frames, whatever areas change while a file is read.
THEOREM VmFramesExact ==
  ASSUME CountedCalls
  PROVE  Spec => []FramesExact
<1>1. Spec => []FramesInv
  BY FramesHold
<1>2. FramesInv => FramesExact
  BY FramesInvExact
<1> QED  BY <1>1, <1>2, PTL

-----------------------------------------------------------------------------
(* What pages show: every entry in an area names a frame that was filled   *)
(* for that page, and so was every frame that a fault has read for a page. *)

Shows(o, e, a, p) == e # NoPte /\ a # NoArea => o[e.frame] = Content(a, p)
Filled(o, x)      == x.pc = "map" => \A i \in DOMAIN x.frames : o[x.frames[i]] = Content(x.v, x.page + i - 1)

Right ==
    /\ \A s \in Spaces, p \in Pages : Shows(origin, pte[s][p], area[s][p], p)
    /\ \A t \in Threads : Filled(origin, op[t])

\* Files are mapped at one offset: a new area shows what the old one did.
OneOffset == \A x, y \in Shifts : x = y

\* An entry is gone, or names the frame it named and lies in an area like its
\* area.
Kept(s, p) ==
    \/ pte'[s][p] = NoPte
    \/ area'[s][p] = NoArea
    \/ /\ pte[s][p] # NoPte /\ area[s][p] # NoArea
       /\ pte'[s][p].frame = pte[s][p].frame
       /\ Content(area'[s][p], p) = Content(area[s][p], p)

\* Steps that fill nothing and map nothing new.
LEMMA KeepRight ==
  ASSUME Right, origin' = origin, \A s \in Spaces, p \in Pages : Kept(s, p),
         \A t \in Threads : op'[t] = op[t] \/ op'[t].pc # "map"
  PROVE  Right'
<1>1. ASSUME NEW s \in Spaces, NEW p \in Pages
      PROVE  Shows(origin', pte'[s][p], area'[s][p], p)
  <2>1. Shows(origin, pte[s][p], area[s][p], p) /\ Kept(s, p)
    BY DEF Right
  <2> QED  BY <2>1 DEF Shows, Kept
<1>2. ASSUME NEW t \in Threads
      PROVE  Filled(origin', op'[t])
  BY <1>2 DEF Right, Filled
<1> QED  BY <1>1, <1>2 DEF Right

\* One thread takes a step in its space.
LEMMA OpRight ==
  ASSUME Ctl, Right, NEW t, NEW o, OpStep(t, o), origin' = origin, o.pc # "map",
         \A p \in Pages : Kept(sp[t], p)
  PROVE  Right'
<1>1. /\ sp[t] \in Spaces /\ op'[t] = o /\ \A u \in Threads \ {t} : op'[u] = op[u]
      /\ \A x \in Spaces \ {sp[t]} : pte'[x] = pte[x] /\ area'[x] = area[x]
  BY DEF OpStep, Within, Ctl, Types
<1>2. \A s \in Spaces, p \in Pages : Kept(s, p)
  BY <1>1 DEF Kept
<1> QED  BY <1>1, <1>2, KeepRight

\* A call of one thread, in its space.
LEMMA CallRight ==
  ASSUME Ctl, Right, NEW t, CallStep(t), \A p \in Pages : Kept(sp[t], p)
  PROVE  Right'
<1>1. /\ sp[t] \in Spaces /\ op' = op /\ origin' = origin
      /\ \A x \in Spaces \ {sp[t]} : pte'[x] = pte[x] /\ area'[x] = area[x]
  BY DEF CallStep, Within, Ctl, Types
<1>2. \A s \in Spaces, p \in Pages : Kept(s, p)
  BY <1>1 DEF Kept
<1> QED  BY <1>1, <1>2, KeepRight

\* Steps of a fault that map no frame.
LEMMA LookRight ==
  ASSUME Ctl, Right, NEW t \in Threads,
         \/ \E p \in Pages, access \in {"read", "write"} : touch(t, p, access)
         \/ fault_denied(t) \/ fault_mapped(t) \/ fault_file(t) \/ fault_count(t) \/ fault_read_failed(t)
         \/ fault_gone(t) \/ fault_protect(t)
  PROVE  Right'
<1>1. CASE fault_protect(t)
  <2>1. OpStep(t, User) /\ origin' = origin /\ area' = area /\ sp[t] \in Spaces
    BY <1>1, ProtectOp DEF OpStep, Ctl, Types
  <2>2. ASSUME NEW p \in Pages
        PROVE  Kept(sp[t], p)
    <3>1. CASE pte'[sp[t]][p] = pte[sp[t]][p]
      BY <2>1, <3>1 DEF Kept
    <3>2. CASE pte'[sp[t]][p] # pte[sp[t]][p]
      <4>1. p = op[t].page /\ pte'[sp[t]][p] = [pte[sp[t]][p] EXCEPT !.prot = area[sp[t]][op[t].page].prot]
        BY <1>1, <3>2, ProtectOp
      <4>2. op[t].pc = "protect"
        BY <1>1 DEF fault_protect
      <4>3. pte[sp[t]][p] # NoPte
        BY <4>1, <4>2 DEF Ctl, Control, InVm
      <4>4. pte[sp[t]][p] \in Entries
        BY <2>1, <4>3, NamedFrame
      <4>5. \A e \in Entries : \A prot : [e EXCEPT !.prot = prot].frame = e.frame
        BY DEF Entries
      <4>6. pte'[sp[t]][p].frame = pte[sp[t]][p].frame
        BY <4>1, <4>4, <4>5
      <4> QED  BY <2>1, <4>3, <4>6 DEF Kept
    <3> QED  BY <3>1, <3>2
  <2> QED  BY <2>1, <2>2, UserOk, OpRight
<1>2. CASE fault_gone(t)
  BY <1>2, GoneOp, UserOk, OpRight DEF OpStep, Kept
<1>3. CASE ~fault_gone(t) /\ ~fault_protect(t)
  <2>1. UNCHANGED <<pte, origin>> /\ \E o : OpStep(t, o) /\ o.pc # "map"
    BY <1>3, LookOp
  <2>2. PICK o : OpStep(t, o) /\ o.pc # "map"
    BY <2>1
  <2>3. \A p \in Pages : Kept(sp[t], p)
    BY <2>1, <2>2 DEF OpStep, Kept
  <2> QED  BY <2>1, <2>2, <2>3, OpRight
<1> QED  BY <1>1, <1>2, <1>3

\* Frames that are filled are nobody's.
LEMMA FreshRight ==
  ASSUME Ctl, FramesInv, Right, NEW F \in SUBSET FreeFrames,
         \A f \in Frames \ F : origin'[f] = origin[f]
  PROVE  /\ \A s \in Spaces, p \in Pages : Shows(origin', pte[s][p], area[s][p], p)
         /\ \A t \in Threads : Filled(origin', op[t])
<1>1. ASSUME NEW s \in Spaces, NEW p \in Pages
      PROVE  Shows(origin', pte[s][p], area[s][p], p)
  <2>1. CASE pte[s][p] = NoPte
    BY <2>1 DEF Shows
  <2>2. CASE pte[s][p] # NoPte
    <3>1. PICK f : f = pte[s][p].frame
      OBVIOUS
    <3>2. f \in Frames /\ NamesIn(pte, f) # {}
      BY <2>2, <3>1, NamedFrame
    <3>3. f \notin F
      BY <3>2, FreeFrame
    <3> QED  BY <3>1, <3>2, <3>3 DEF Right, Shows
  <2> QED  BY <2>1, <2>2
<1>2. ASSUME NEW t \in Threads, op[t].pc = "map", NEW i \in DOMAIN op[t].frames
      PROVE  origin'[op[t].frames[i]] = Content(op[t].v, op[t].page + i - 1)
  <2>1. PICK f : f = op[t].frames[i]
    OBVIOUS
  <2>2. f \in Held(t)
    BY <1>2, <2>1 DEF Held, Range
  <2>3. f \in Frames /\ Holders(f) = {t}
    BY <2>2, HeldFrame
  <2>4. f \notin F
    BY <2>3, FreeFrame
  <2> QED  BY <1>2, <2>1, <2>3, <2>4 DEF Right, Filled
<1> QED  BY <1>1, <1>2 DEF Filled

\* A fault that maps a frame of zeros, or a copy of the frame its page had.
LEMMA NewFrameRight ==
  ASSUME Ctl, FramesInv, Right, NEW t \in Threads, fault_anon(t) \/ fault_copy(t)
  PROVE  Right'
<1>1. OpStep(t, User)
  BY AnonOp, CopyOp
<1>2. CASE UNCHANGED <<pte, origin>>
  BY <1>1, <1>2, UserOk, OpRight DEF OpStep, Kept
<1>3. CASE \E f \in FreeFrames : NewAt(t, f)
  <2>1. PICK f \in FreeFrames : NewAt(t, f)
    BY <1>3
  <2>2. PICK s, r : s = sp[t] /\ r = op[t].page
    OBVIOUS
  <2>3. /\ s \in Spaces /\ r \in Pages /\ area' = area /\ op'[t] = User
        /\ \A u \in Threads \ {t} : op'[u] = op[u]
        /\ area[s][r] # NoArea /\ op[t].pc \in {"fault", "copy"}
        /\ op[t].pc = "fault" => area[s][r].back = Anon
    BY <1>1, <2>2, NewFrame DEF OpStep, Ctl, Types
  <2>4. /\ \A x \in Spaces, q \in Pages : ~(x = s /\ q = r) => pte'[x][q] = pte[x][q]
        /\ pte'[s][r] = [frame |-> f, prot |-> area[s][r].prot]
        /\ origin' = [origin EXCEPT ![f] = IF op[t].pc = "copy" THEN origin[op[t].frame] ELSE Zeros]
    BY <2>1, <2>2, <2>3 DEF NewAt
  <2>5. f \in Frames /\ origin = [g \in Frames |-> origin[g]]
    BY FreeFrame DEF Ctl, Types
  <2>6. /\ \A x \in Spaces, q \in Pages : Shows(origin', pte[x][q], area[x][q], q)
        /\ \A u \in Threads : Filled(origin', op[u])
    <3>1. \A g \in Frames \ {f} : origin'[g] = origin[g]
      BY <2>4, <2>5
    <3>2. {f} \in SUBSET FreeFrames
      OBVIOUS
    <3> QED  BY <3>1, <3>2, FreshRight
  <2>7. origin'[f] = Content(area[s][r], r)
    <3>1. CASE op[t].pc = "fault"
      BY <2>3, <2>4, <2>5, <3>1 DEF Content
    <3>2. CASE op[t].pc = "copy"
      <4>1. pte[s][r] # NoPte /\ pte[s][r].frame = op[t].frame
        BY <2>2, <3>2 DEF Ctl, Control, InVm
      <4>2. origin[op[t].frame] = Content(area[s][r], r)
        BY <2>3, <4>1 DEF Right, Shows
      <4> QED  BY <2>4, <2>5, <3>2, <4>2
    <3> QED  BY <2>3, <3>1, <3>2
  <2>8. ASSUME NEW x \in Spaces, NEW q \in Pages
        PROVE  Shows(origin', pte'[x][q], area'[x][q], q)
    <3>1. CASE x = s /\ q = r
      <4>1. pte'[s][r].frame = f
        BY <2>4
      <4> QED  BY <2>3, <2>7, <3>1, <4>1 DEF Shows
    <3>2. CASE ~(x = s /\ q = r)
      BY <2>3, <2>4, <2>6, <3>2
    <3> QED  BY <3>1, <3>2
  <2>9. \A u \in Threads : Filled(origin', op'[u])
    BY <2>3, <2>6, UserOk DEF Filled
  <2> QED  BY <2>8, <2>9 DEF Right
<1> QED  BY <1>2, <1>3, NewFrame

\* Frames are filled from the file, each for its page.
LEMMA ReadRight ==
  ASSUME Ctl, FramesInv, Right, NEW t \in Threads, fault_read(t)
  PROVE  Right'
<1>1. PICK k, fs : ReadShape(t, k, fs)
  BY ReadOp
<1>2. /\ fs \in Injection(1 .. k, FreeFrames) /\ OpStep(t, Reading(t, fs)) /\ pte' = pte
      /\ \A f \in Frames : f \notin Range(fs) => origin'[f] = origin[f]
      /\ \A i \in 1 .. k : origin'[fs[i]] = Content(op[t].v, op[t].page + i - 1)
  BY <1>1 DEF ReadShape
<1> DEFINE o == Reading(t, fs)
<1>3. DOMAIN fs = 1 .. k /\ Range(fs) \in SUBSET FreeFrames
  BY <1>2 DEF Injection, Range
<1>4. /\ \A s \in Spaces, p \in Pages : Shows(origin', pte[s][p], area[s][p], p)
      /\ \A u \in Threads : Filled(origin', op[u])
  BY <1>2, <1>3, FreshRight
<1>5. area' = area /\ op'[t] = o /\ \A u \in Threads \ {t} : op'[u] = op[u]
  BY <1>2 DEF OpStep, Ctl, Types
<1>6. Filled(origin', o)
  BY <1>2, <1>3 DEF Filled, Reading
<1> HIDE DEF o
<1>7. \A u \in Threads : Filled(origin', op'[u])
  BY <1>4, <1>5, <1>6
<1> QED  BY <1>2, <1>4, <1>5, <1>7 DEF Right

\* The pages read go into an area of the same file at the same offset.
LEMMA MapRightStep ==
  ASSUME OneOffset, Ctl, Right, NEW t \in Threads, fault_map(t)
  PROVE  Right'
<1>1. /\ OpStep(t, User) /\ origin' = origin /\ op[t].pc = "map"
      /\ area[sp[t]][op[t].page] # NoArea
  BY MapOp
<1>2. PICK end \in AreaOf(sp[t], op[t].page) : \E mapped, back : MapShape(t, Fitting(t, end), mapped, back)
  BY MapOp
<1>3. PICK mapped, back : MapShape(t, Fitting(t, end), mapped, back)
  BY <1>2
<1>4. PICK s, r, v, fs, cur : /\ s = sp[t] /\ r = op[t].page /\ v = op[t].v /\ fs = op[t].frames
                              /\ cur = area[sp[t]][op[t].page]
  OBVIOUS
<1>5. /\ s \in Spaces /\ r \in Pages /\ r \in Nat /\ v \in Areas /\ v.back = File /\ cur \in Areas /\ area' = area
      /\ op'[t] = User /\ \A u \in Threads \ {t} : op'[u] = op[u]
      /\ \A x \in Spaces \ {s} : pte'[x] = pte[x]
  <2>1. s \in Spaces /\ r \in Pages /\ r \in Nat /\ OpOk(op[t]) /\ cur \in Areas
    <3>1. OpOk(op[t]) /\ sp[t] \in Spaces /\ op[t].page \in Pages
      BY <1>1, OpHas
    <3>2. \A q \in Pages : q \in Nat
      BY DEF Pages
    <3>3. area[sp[t]][op[t].page] \in Areas
      BY <1>1, <3>1, FaultArea
    <3> QED  BY <1>4, <3>1, <3>2, <3>3
  <2>2. v \in Areas /\ v.back = File
    BY <1>1, <1>4, <2>1 DEF OpOk
  <2>3. area' = area /\ \A x \in Spaces \ {s} : pte'[x] = pte[x]
    BY <1>1, <1>4 DEF OpStep, Within
  <2>4. op'[t] = User /\ \A u \in Threads \ {t} : op'[u] = op[u]
    BY <1>1 DEF OpStep, Ctl, Types
  <2> QED  BY <2>1, <2>2, <2>3, <2>4
<1>6. \A i \in mapped : /\ i \in DOMAIN fs /\ i \in Nat /\ i > 0 /\ r + i - 1 <= end /\ cur.back = v.back
  <2>1. \A i \in DOMAIN op[t].frames : i \in Nat /\ i > 0
    BY <1>1, OpHas DEF OpOk, Injection
  <2> QED  BY <1>3, <1>4, <2>1 DEF MapShape, Fitting, Fits
<1>7. ASSUME NEW q \in Pages
      PROVE  Shows(origin', pte'[s][q], area'[s][q], q)
  <2>1. Shows(origin, pte[s][q], area[s][q], q)
    BY <1>5 DEF Right
  <2>2. CASE q - r + 1 \in mapped
    <3>1. PICK i : i = q - r + 1
      OBVIOUS
    <3>2. q \in Nat /\ i \in mapped /\ i \in Nat /\ i > 0 /\ q = r + i - 1 /\ q >= r /\ q <= end
      BY <1>5, <1>6, <2>2, <3>1 DEF Pages
    <3>3. area[s][q] = cur
      BY <1>4, <3>2 DEF AreaOf, Pages
    <3>4. pte'[s][q] = [frame |-> fs[i], prot |-> cur.prot]
      BY <1>3, <1>4, <2>2, <3>1 DEF MapShape
    <3>5. pte'[s][q].frame = fs[i]
      BY <3>4
    <3>6. origin[fs[i]] = Content(v, q)
      BY <1>1, <1>4, <1>6, <3>2 DEF Right, Filled
    <3>7. Content(v, q) = Content(cur, q)
      <4>1. cur.back = File /\ File # Anon
        BY <1>5, <1>6, <3>2, VmAssumption
      <4>2. v.shift = cur.shift
        BY <1>5, <4>1 DEF Areas, OneOffset
      <4> QED  BY <1>5, <4>1, <4>2 DEF Content
    <3> QED  BY <1>1, <1>5, <3>3, <3>5, <3>6, <3>7 DEF Shows
  <2>3. CASE q - r + 1 \notin mapped
    <3>1. CASE pte'[s][q] = pte[s][q]
      BY <1>1, <1>5, <2>1, <3>1
    <3>2. CASE pte'[s][q] # pte[s][q]
      <4>1. pte[s][q] # NoPte /\ pte'[s][q] = [pte[s][q] EXCEPT !.prot = cur.prot]
        BY <1>3, <1>4, <2>3, <3>2 DEF MapShape
      <4>2. pte[s][q] \in Entries
        BY <1>5, <4>1, NamedFrame
      <4>3. \A e \in Entries : \A prot : [e EXCEPT !.prot = prot].frame = e.frame
        BY DEF Entries
      <4>4. pte'[s][q].frame = pte[s][q].frame
        BY <4>1, <4>2, <4>3
      <4> QED  BY <1>1, <1>5, <2>1, <4>1, <4>4 DEF Shows
    <3> QED  BY <3>1, <3>2
  <2> QED  BY <2>2, <2>3
<1>8. \A x \in Spaces, q \in Pages : Shows(origin', pte'[x][q], area'[x][q], q)
  BY <1>1, <1>5, <1>7 DEF Right
<1>9. \A u \in Threads : Filled(origin', op'[u])
  BY <1>1, <1>5, UserOk DEF Right, Filled
<1> QED  BY <1>8, <1>9 DEF Right

\* Calls that take entries away leave the others what they show.
LEMMA UnmapRight ==
  ASSUME Ctl, AreaInv, Right, NEW t \in Threads, NEW ps \in Ranges,
         \/ \E a \in Areas : mmap(t, ps, a)
         \/ munmap(t, ps) \/ discard(t, ps)
  PROVE  Right'
<1>1. CallStep(t) /\ sp[t] \in Spaces /\ ps \in SUBSET Pages
  BY MmapCall, MunmapCall, DiscardCall, PagesFinite DEF CallStep, Ctl, Types
<1>2. \A p \in Pages : pte'[sp[t]][p] = IF p \in ps THEN NoPte ELSE pte[sp[t]][p]
  <2>1. CASE \E a \in Areas : mmap(t, ps, a)
    BY <2>1, MmapArea
  <2>2. CASE munmap(t, ps) \/ discard(t, ps)
    BY <1>1, <2>2, MunmapCall, DiscardCall, UnmapWithin DEF Ctl
  <2> QED  BY <2>1, <2>2
<1>3. \A p \in Pages : p \notin ps => area'[sp[t]][p] = area[sp[t]][p]
  BY MmapCall, MunmapCall, DiscardCall
<1>4. \A p \in Pages : Kept(sp[t], p)
  <2> TAKE p \in Pages
  <2>1. pte'[sp[t]][p] = NoPte \/ (pte'[sp[t]][p] = pte[sp[t]][p] /\ area'[sp[t]][p] = area[sp[t]][p])
    BY <1>2, <1>3
  <2> QED  BY <2>1 DEF Kept
<1> QED  BY <1>1, <1>4, CallRight

\* mprotect changes no frame and nothing an area shows.
LEMMA MprotectRight ==
  ASSUME Ctl, AreaInv, Right, NEW t \in Threads, NEW ps \in Ranges, NEW prot \in Prots, mprotect(t, ps, prot)
  PROVE  Right'
<1>1. CallStep(t) /\ sp[t] # NoSpace /\ sp[t] \in Spaces
  BY MprotectCall DEF CallStep, Ctl, Types
<1>2. ASSUME NEW p \in Pages
      PROVE  Kept(sp[t], p)
  <2>1. CASE p \notin ps
    BY <2>1, MprotectCall DEF Kept
  <2>2. CASE p \in ps /\ pte[sp[t]][p] = NoPte
    BY <2>2, MprotectCall DEF Kept
  <2>3. CASE p \in ps /\ pte[sp[t]][p] # NoPte
    <3>1. PICK e, a : e = pte[sp[t]][p] /\ a = area[sp[t]][p]
      OBVIOUS
    <3>2. e \in Entries /\ a \in Areas
      BY <1>1, <2>3, <3>1, NamedFrame, MprotectCall
    <3>3. pte'[sp[t]][p] = [e EXCEPT !.prot = prot] /\ area'[sp[t]][p] = [a EXCEPT !.prot = prot]
      BY <2>3, <3>1, MprotectCall
    <3>4. [e EXCEPT !.prot = prot].frame = e.frame
      BY <3>2 DEF Entries
    <3>5. Content([a EXCEPT !.prot = prot], p) = Content(a, p)
      BY <3>2 DEF Areas, Content
    <3> QED  BY <2>3, <3>1, <3>2, <3>3, <3>4, <3>5, Nones DEF Kept
  <2> QED  BY <2>1, <2>2, <2>3
<1> QED  BY <1>1, <1>2, CallRight

\* Only anonymous memory moves: zeros at every page.
LEMMA MremapRight ==
  ASSUME Ctl, AreaInv, Right, NEW t \in Threads, NEW old \in Pages, NEW new \in Pages,
         NEW n \in 1 .. NPages, NEW m \in 1 .. NPages, mremap(t, old, n, new, m)
  PROVE  Right'
<1>1. CallStep(t) /\ sp[t] # NoSpace /\ sp[t] \in Spaces
  BY MremapCall DEF CallStep, Ctl, Types
<1>2. PICK s, P, A, Q, B : s = sp[t] /\ P = pte[sp[t]] /\ A = area[sp[t]] /\ Q = pte'[sp[t]] /\ B = area'[sp[t]]
  OBVIOUS
<1>3. /\ n < m /\ A[old] \in Areas /\ A[old].back = Anon
      /\ \A p \in old .. old + n - 1 : p \in Pages /\ A[p] = A[old]
      /\ \A p \in new .. new + m - 1 : p \in Pages /\ A[p] = NoArea
      /\ \A p \in Pages :
            /\ B[p] = IF p \in new .. new + m - 1 THEN A[old]
                      ELSE IF p \in old .. old + n - 1 THEN NoArea ELSE A[p]
            /\ Q[p] = IF p \in new .. new + n - 1 /\ P[p - new + old] # NoPte
                      THEN P[p - new + old]
                      ELSE IF p \in old .. old + n - 1 THEN NoPte ELSE P[p]
  BY <1>2, MremapCall
<1>4. A[old] # NoArea /\ old \in Nat /\ new \in Nat /\ n \in Nat /\ m \in Nat
  BY <1>3, Nones DEF Pages
<1>5. \A p \in Pages : P[p] # NoPte => A[p] # NoArea
  BY <1>1, <1>2, EntryInArea
<1>6. ASSUME NEW p \in Pages
      PROVE  Shows(origin, Q[p], B[p], p)
  <2>1. CASE p \in new .. new + n - 1 /\ P[p - new + old] # NoPte
    <3>1. PICK q : q = p - new + old
      OBVIOUS
    <3>2. q \in old .. old + n - 1 /\ p \in new .. new + m - 1
      BY <1>3, <1>4, <2>1, <3>1
    <3>3. Q[p] = P[q] /\ B[p] = A[q] /\ q \in Pages /\ A[q] = A[old]
      BY <1>3, <2>1, <3>1, <3>2
    <3>4. Shows(origin, P[q], A[q], q)
      BY <1>1, <1>2, <3>3 DEF Right
    <3> QED  BY <1>3, <3>3, <3>4 DEF Shows, Content
  <2>2. CASE p \in new .. new + m - 1 /\ ~(p \in new .. new + n - 1 /\ P[p - new + old] # NoPte)
    <3>1. P[p] = NoPte
      BY <1>3, <1>5, <2>2
    <3>2. Q[p] = NoPte
      BY <1>3, <2>2, <3>1
    <3> QED  BY <3>2 DEF Shows
  <2>3. CASE p \notin new .. new + m - 1 /\ p \in old .. old + n - 1
    <3>1. B[p] = NoArea
      BY <1>3, <2>3
    <3> QED  BY <3>1 DEF Shows
  <2>4. CASE p \notin new .. new + m - 1 /\ p \notin old .. old + n - 1
    <3>1. p \notin new .. new + n - 1
      BY <1>3, <1>4, <2>4
    <3>2. B[p] = A[p] /\ Q[p] = P[p]
      BY <1>3, <2>4, <3>1
    <3> QED  BY <1>1, <1>2, <3>2 DEF Right
  <2> QED  BY <2>1, <2>2, <2>3, <2>4
<1>7. /\ origin' = origin /\ op' = op
      /\ \A x \in Spaces \ {s} : pte'[x] = pte[x] /\ area'[x] = area[x]
  BY <1>1, <1>2 DEF CallStep, Within
<1>8. \A x \in Spaces, p \in Pages : Shows(origin', pte'[x][p], area'[x][p], p)
  BY <1>2, <1>6, <1>7 DEF Right
<1> QED  BY <1>7, <1>8 DEF Right

\* The clone of a space names the same frames; it has no areas yet.
LEMMA CloneRight ==
  ASSUME Ctl, Right, NEW t \in Threads, NEW c \in Spaces, CloneShape(t, c)
  PROVE  Right'
<1>1. /\ sp[t] \in Spaces /\ c \in Unused /\ area' = area /\ origin' = origin
      /\ op'[t] = [pc |-> "fork", child |-> c] /\ \A u \in Threads \ {t} : op'[u] = op[u]
      /\ \A p \in Pages : pte'[sp[t]][p] = NoWrite(pte[sp[t]][p])
      /\ \A x \in Spaces \ {sp[t], c} : pte'[x] = pte[x]
  BY DEF CloneShape, Ctl, Types
<1>2. \A p \in Pages : area'[c][p] = NoArea
  BY <1>1 DEF Ctl, Empty
<1>3. ASSUME NEW p \in Pages
      PROVE  Kept(sp[t], p)
  <2>1. PICK e : e = pte[sp[t]][p]
    OBVIOUS
  <2>2. CASE e = NoPte
    BY <1>1, <2>1, <2>2 DEF NoWrite, Kept
  <2>3. CASE e # NoPte
    <3>1. e \in Entries
      BY <1>1, <2>1, <2>3, NamedFrame
    <3>2. NoWrite(e).frame = e.frame
      BY <3>1 DEF NoWrite, Entries
    <3> QED  BY <1>1, <2>1, <2>3, <3>2 DEF Kept
  <2> QED  BY <2>2, <2>3
<1>4. \A x \in Spaces, p \in Pages : Kept(x, p)
  BY <1>1, <1>2, <1>3 DEF Kept
<1>5. op'[t].pc = "fork"
  BY <1>1
<1> QED  BY <1>1, <1>4, <1>5, KeepRight

\* The child of a fork gets the areas of its parent, and has its entries.
LEMMA StartRight ==
  ASSUME ~TablesFail, Ctl, AreaInv, Right, NEW t \in Threads, NEW u \in Threads, StartShape(t, u)
  PROVE  Right'
<1>1. PICK c : c = op[t].child
  OBVIOUS
<1>2. /\ op[t].pc = "fork" /\ c \in Spaces /\ origin' = origin
      /\ op'[t] = User /\ \A w \in Threads \ {t} : op'[w] = op[w]
      /\ pte' = pte /\ area'[c] = area[sp[t]] /\ \A x \in Spaces \ {c} : area'[x] = area[x]
  BY <1>1 DEF StartShape, Ctl, Types
<1>3. sp[t] \in Spaces /\ \A p \in Pages : pte[c][p] = pte[sp[t]][p]
  <2>1. op[t].pc # "user" /\ Forks
    BY <1>2, UserOk DEF AreaInv
  <2> QED  BY <1>1, <1>2, <2>1 DEF AreaInv, Solo, Ctl, Control, Types
<1>4. \A x \in Spaces, p \in Pages : Shows(origin', pte'[x][p], area'[x][p], p)
  BY <1>2, <1>3 DEF Right
<1>5. \A w \in Threads : Filled(origin', op'[w])
  BY <1>2, UserOk DEF Right, Filled
<1> QED  BY <1>4, <1>5 DEF Right

\* A space given back shows nothing.
LEMMA BackRight ==
  ASSUME Ctl, Right, (\E t \in Threads : fork_failed(t)) \/ (\E s \in Spaces : exit(s))
  PROVE  Right'
<1>1. PICK s \in Spaces : /\ unmap_range(s, Pages) /\ origin' = origin
                          /\ \A x \in Spaces \ {s} : area'[x] = area[x]
                          /\ \A t \in Threads : op'[t] = op[t] \/ op'[t] = User
  <2>1. ASSUME NEW t \in Threads, fork_failed(t)
        PROVE  /\ op[t].child \in Spaces /\ unmap_range(op[t].child, Pages)
               /\ UNCHANGED <<area, origin>> /\ \A u \in Threads : op'[u] = op[u] \/ op'[u] = User
    BY <2>1, ForkFailedCtl DEF Ctl, Types
  <2> QED  BY <2>1, ExitCtl
<1>2. /\ \A p \in Pages : pte'[s][p] = NoPte
      /\ \A x \in Spaces \ {s} : pte'[x] = pte[x]
  BY <1>1, UnmapWithin DEF Ctl
<1>3. \A x \in Spaces, p \in Pages : Kept(x, p)
  BY <1>1, <1>2 DEF Kept
<1>4. \A t \in Threads : op'[t] = op[t] \/ op'[t].pc # "map"
  BY <1>1, UserOk
<1> QED  BY <1>1, <1>3, <1>4, KeepRight

\* Every step keeps Right.
LEMMA RightAlways ==
  ASSUME Calm, OneOffset, Ctl, AreaInv, FramesInv, Right, [Next]_vars
  PROVE  Right'
<1>1. CASE UNCHANGED vars
  BY <1>1 DEF vars, Right, Shows, Filled
<1>2. ASSUME NEW t \in Threads, NEW p \in Pages, NEW access \in {"read", "write"}, touch(t, p, access)
      PROVE  Right'
  BY <1>2, LookRight
<1>3. ASSUME NEW t \in Threads, fault(t)
      PROVE  Right'
  BY <1>3, LookRight, NewFrameRight, ReadRight, MapRightStep DEF fault
<1>4. ASSUME NEW t \in Threads, NEW ps \in Ranges,
             \/ \E a \in Areas : mmap(t, ps, a)
             \/ munmap(t, ps) \/ discard(t, ps)
             \/ \E prot \in Prots : mprotect(t, ps, prot)
      PROVE  Right'
  BY <1>4, UnmapRight, MprotectRight
<1>5. ASSUME NEW t \in Threads, NEW c \in Spaces, clone_user_space(t, c)
      PROVE  Right'
  BY <1>5, CloneIs, CloneRight
<1>6. ASSUME NEW t \in Threads, NEW u \in Threads, clone_space(t, u)
      PROVE  Right'
  BY <1>6, StartIs, StartRight DEF Calm
<1> QED  BY <1>1, <1>2, <1>3, <1>4, <1>5, <1>6, MremapRight, BackRight DEF Next

\* What PageRight says of permissions follows from AreaInv.
LEMMA PteAllowedHolds ==
  ASSUME Ctl, AreaInv
  PROVE  PteAllowed
<1> SUFFICES ASSUME NEW t \in Threads, sp[t] # NoSpace, NEW p \in Pages, pte[sp[t]][p] # NoPte
             PROVE  /\ area[sp[t]][p] # NoArea
                    /\ \A access \in {"read", "write"} :
                          Permits(pte[sp[t]][p].prot, access) => Permits(area[sp[t]][p].prot, access)
  BY DEF PteAllowed
<1>1. Allowed(pte[sp[t]][p], area[sp[t]][p])
  BY DEF AreaInv
<1> QED  BY <1>1 DEF Allowed, Permits

\* A page in the tables shows zeros or its own page of the file, as its area
\* promises, and allows no more than its area (vm.rs: handle_fault, mprotect,
\* munmap, mremap), for any number of threads, spaces, pages and frames, whatever
\* other threads unmap, protect and map while a file is read without VM
\* (vm.rs:446-509). Hypotheses: memory for tables, one thread where programs fork,
\* and files mapped at one offset (OneOffset): a fault that finds another area of a
\* file at another offset maps the pages it read for the old one.
THEOREM VmPageRight ==
  ASSUME Calm, OneOffset
  PROVE  Spec => []PageRight
<1>1. Init => Right
  BY UserOk DEF Init, Right, Shows, Filled
<1>2. Ctl /\ AreaInv /\ FramesInv /\ Right /\ [Next]_vars => Right'
  BY RightAlways
<1>3. Ctl /\ AreaInv /\ Right => PageRight
  BY PteAllowedHolds DEF PageRight, Right, Shows
<1>4. CountedCalls
  BY DEF CountedCalls, Calm
<1>5. Spec => []FramesInv
  BY <1>4, FramesHold
<1> QED  BY <1>1, <1>2, <1>3, <1>5, CtlHolds, AreaHolds, PTL DEF Spec

-----------------------------------------------------------------------------
(* Copy on write: two entries that name one frame are both without the     *)
(* right to write, and a fault that is about to give that right back has   *)
(* seen that nobody else names the frame.                                  *)

\* Two entries of tables P name one frame.
Twins(P, s, p, x, q) ==
    /\ <<s, p>> # <<x, q>>
    /\ P[s][p] # NoPte /\ P[x][q] # NoPte
    /\ P[s][p].frame = P[x][q].frame

NoTwin(P, s, p) == \A x \in Spaces, q \in Pages : ~Twins(P, s, p, x, q)

CowInv ==
    /\ \A s, x \in Spaces, p, q \in Pages : Twins(pte, s, p, x, q) => Forks /\ pte[s][p].prot # "rw"
    /\ \A t \in Threads : op[t].pc = "protect" => NoTwin(pte, sp[t], op[t].page)

\* An entry is gone, or names what it named and may write no more than it did,
\* or its frame is its own.
Meek(s, p) ==
    \/ pte'[s][p] = NoPte
    \/ /\ pte[s][p] # NoPte /\ pte'[s][p].frame = pte[s][p].frame
       /\ pte'[s][p].prot = "rw" => pte[s][p].prot = "rw"
    \/ NoTwin(pte', s, p)

\* Steps that give no frame a second name.
LEMMA KeepCow ==
  ASSUME CowInv, \A s \in Spaces, p \in Pages : Meek(s, p),
         \A t \in Threads : op'[t].pc = "protect" => NoTwin(pte', sp'[t], op'[t].page)
  PROVE  CowInv'
<1>1. ASSUME NEW s \in Spaces, NEW x \in Spaces, NEW p \in Pages, NEW q \in Pages, Twins(pte', s, p, x, q)
      PROVE  Forks /\ pte'[s][p].prot # "rw"
  <2>1. Twins(pte', x, q, s, p)
    BY <1>1 DEF Twins
  <2>2. ~NoTwin(pte', s, p) /\ ~NoTwin(pte', x, q)
    BY <1>1, <2>1 DEF NoTwin
  <2>3. pte'[s][p] # NoPte /\ pte'[x][q] # NoPte
    BY <1>1 DEF Twins
  <2>4. /\ pte[s][p] # NoPte /\ pte'[s][p].frame = pte[s][p].frame
        /\ pte'[s][p].prot = "rw" => pte[s][p].prot = "rw"
        /\ pte[x][q] # NoPte /\ pte'[x][q].frame = pte[x][q].frame
    BY <2>2, <2>3 DEF Meek
  <2>5. Twins(pte, s, p, x, q)
    BY <1>1, <2>4 DEF Twins
  <2> QED  BY <2>4, <2>5 DEF CowInv
<1> QED  BY <1>1 DEF CowInv, Forks

\* Entries that are gone or name what they named make no twins.
LEMMA StillAlone ==
  ASSUME NEW s \in Spaces, NEW p \in Pages, NoTwin(pte, s, p),
         \A x \in Spaces, q \in Pages :
            pte'[x][q] = NoPte \/ (pte[x][q] # NoPte /\ pte'[x][q].frame = pte[x][q].frame)
  PROVE  NoTwin(pte', s, p)
<1>1. ASSUME NEW x \in Spaces, NEW q \in Pages, Twins(pte', s, p, x, q)
      PROVE  FALSE
  <2>1. Twins(pte, s, p, x, q)
    BY <1>1 DEF Twins
  <2> QED  BY <2>1 DEF NoTwin
<1> QED  BY <1>1 DEF NoTwin

\* Entries go, or stay as they are.
Thinned == \A s \in Spaces, p \in Pages : pte'[s][p] = NoPte \/ pte'[s][p] = pte[s][p]

\* Steps that only take entries away.
LEMMA ThinnedCow ==
  ASSUME CowInv, Thinned,
         \A t \in Threads : op'[t].pc = "protect" =>
            /\ sp'[t] \in Spaces /\ op'[t].page \in Pages
            /\ NoTwin(pte, sp'[t], op'[t].page)
  PROVE  CowInv'
<1>1. \A s \in Spaces, p \in Pages : pte'[s][p] = NoPte \/ (pte[s][p] # NoPte /\ pte'[s][p] = pte[s][p])
  BY DEF Thinned
<1>2. \A s \in Spaces, p \in Pages : Meek(s, p)
  BY <1>1 DEF Meek
<1>3. \A t \in Threads : op'[t].pc = "protect" => NoTwin(pte', sp'[t], op'[t].page)
  BY <1>1, StillAlone
<1> QED  BY <1>2, <1>3, KeepCow

\* Who was about to give a right to write back still is.
LEMMA ProtectKnows ==
  ASSUME Ctl, CowInv, NEW t \in Threads, op[t].pc = "protect"
  PROVE  sp[t] \in Spaces /\ op[t].page \in Pages /\ NoTwin(pte, sp[t], op[t].page)
BY OpHas DEF CowInv

\* One thread takes a step of a fault that takes no entry and gives none.
LEMMA OpCow ==
  ASSUME Ctl, CowInv, NEW t, NEW o, OpStep(t, o), pte' = pte,
         o.pc = "protect" => NoTwin(pte, sp[t], o.page)
  PROVE  CowInv'
<1>1. /\ sp[t] \in Spaces /\ op'[t] = o /\ \A u \in Threads \ {t} : op'[u] = op[u]
      /\ sp' = sp /\ (o.pc = "protect" => o.page \in Pages)
  BY DEF OpStep, OpOk, InVm, Ctl, Types
<1>2. ASSUME NEW u \in Threads, op'[u].pc = "protect"
      PROVE  sp'[u] \in Spaces /\ op'[u].page \in Pages /\ NoTwin(pte, sp'[u], op'[u].page)
  <2>1. CASE u = t
    BY <1>1, <1>2, <2>1
  <2>2. CASE u # t
    BY <1>1, <1>2, <2>2, ProtectKnows
  <2> QED  BY <2>1, <2>2
<1>3. Thinned
  BY DEF Thinned
<1> QED  BY <1>2, <1>3, ThinnedCow

\* A frame that is counted once has one name.
LEMMA CountedOnce ==
  ASSUME Ctl, FramesInv, NEW s \in Spaces, NEW p \in Pages, pte[s][p] # NoPte, ~(refs[pte[s][p].frame] > 1)
  PROVE  NoTwin(pte, s, p)
<1> SUFFICES ASSUME NEW x \in Spaces, NEW q \in Pages, Twins(pte, s, p, x, q)
             PROVE  FALSE
  BY DEF NoTwin
<1>1. PICK f : f = pte[s][p].frame
  OBVIOUS
<1>2. f \in Frames /\ pte[x][q] # NoPte /\ pte[x][q].frame = f /\ <<s, p>> # <<x, q>>
  BY <1>1, NamedFrame DEF Twins
<1>3. PICK T : T = NamesIn(pte, f)
  OBVIOUS
<1>4. <<s, p>> \in T /\ <<x, q>> \in T
  BY <1>1, <1>2, <1>3, NamedFrame
<1>5. IsFiniteSet(T)
  BY <1>2, <1>3, CountsType
<1>6. PICK D : D = {<<s, p>>, <<x, q>>}
  OBVIOUS
<1>7. D \subseteq T /\ Cardinality(D) = 2
  <2>1. <<s, p>> \notin {<<x, q>>} /\ IsFiniteSet({<<x, q>>}) /\ Cardinality({<<x, q>>}) = 1
    BY <1>2, FS_Singleton
  <2>2. Cardinality({<<x, q>>} \cup {<<s, p>>}) = Cardinality({<<x, q>>}) + 1
    BY <2>1, FS_AddElement
  <2>3. D = {<<x, q>>} \cup {<<s, p>>}
    BY <1>6
  <2> QED  BY <1>4, <1>6, <2>1, <2>2, <2>3
<1>8. Cardinality(D) <= Cardinality(T) /\ Cardinality(T) \in Nat
  BY <1>5, <1>7, FS_Subset, FS_CardinalityType
<1>9. refs[f] = Cardinality(T) + Cardinality(Holders(f)) /\ Cardinality(Holders(f)) \in Nat
  BY <1>2, <1>3, CountsType DEF FramesInv
<1> QED  BY <1>1, <1>7, <1>8, <1>9

\* Programs that do not fork have no twins.
LEMMA NoForkAlone ==
  ASSUME CowInv, ~Forks, NEW s \in Spaces, NEW p \in Pages
  PROVE  NoTwin(pte, s, p)
BY DEF CowInv, NoTwin

\* The faults that look, and the ones that read: what is learnt about the frame.
LEMMA LookCow ==
  ASSUME Ctl, AreaInv, FramesInv, CowInv, NEW t \in Threads,
         \/ \E p \in Pages, access \in {"read", "write"} : touch(t, p, access)
         \/ fault_denied(t) \/ fault_mapped(t) \/ fault_file(t) \/ fault_count(t) \/ fault_read_failed(t)
         \/ fault_gone(t) \/ fault_read(t)
  PROVE  CowInv'
<1>1. CASE \E p \in Pages, access \in {"read", "write"} : touch(t, p, access)
  <2>1. PICK p \in Pages, access \in {"read", "write"} : touch(t, p, access)
    BY <1>1
  <2> DEFINE o == [pc |-> "fault", page |-> p, access |-> access]
  <2>2. OpStep(t, o) /\ o.pc = "fault" /\ pte' = pte
    BY <2>1, TouchOp DEF touch
  <2> HIDE DEF o
  <2> QED  BY <2>2, OpCow
<1>2. CASE fault_denied(t) \/ fault_read_failed(t) \/ fault_gone(t)
  BY <1>2, DeniedOp, FailedOp, GoneOp, UserOk, OpCow
<1>3. CASE fault_file(t)
  <2>1. PICK n \in Nat : OpStep(t, [pc |-> "read", page |-> op[t].page, v |-> area[sp[t]][op[t].page], n |-> n])
    BY <1>3, FileOp
  <2> DEFINE o == [pc |-> "read", page |-> op[t].page, v |-> area[sp[t]][op[t].page], n |-> n]
  <2>2. OpStep(t, o) /\ o.pc = "read" /\ pte' = pte
    BY <1>3, <2>1 DEF fault_file
  <2> HIDE DEF o
  <2> QED  BY <2>2, OpCow
<1>4. CASE fault_read(t)
  <2>1. PICK k, fs : ReadShape(t, k, fs)
    BY <1>4, ReadOp
  <2> DEFINE o == Reading(t, fs)
  <2>2. OpStep(t, o) /\ o.pc = "map" /\ pte' = pte
    BY <2>1 DEF ReadShape, Reading
  <2> HIDE DEF o
  <2> QED  BY <2>2, OpCow
<1>5. CASE fault_mapped(t)
  <2>1. PICK pc \in {"count", "protect"} : /\ OpStep(t, [pc |-> pc, page |-> op[t].page])
                                           /\ pc = IF op[t].access = "write" THEN "count" ELSE "protect"
    BY <1>5, MappedOp
  <2> DEFINE o == [pc |-> pc, page |-> op[t].page]
  <2>2. OpStep(t, o) /\ o.pc = pc /\ o.page = op[t].page /\ pte' = pte
    BY <1>5, <2>1 DEF fault_mapped
  <2> HIDE DEF o
  <2>3. /\ op[t].pc = "fault" /\ pte[sp[t]][op[t].page] # NoPte
        /\ Permits(area[sp[t]][op[t].page].prot, op[t].access)
    BY <1>5 DEF fault_mapped, Faulting
  <2>4. /\ sp[t] \in Spaces /\ sp[t] # NoSpace /\ op[t].page \in Pages
        /\ op[t].access \in {"read", "write"}
    BY <2>3, OpHas DEF OpOk
  <2>5. pc = "protect" => NoTwin(pte, sp[t], op[t].page)
    <3>1. CASE ~Forks
      BY <2>4, <3>1, NoForkAlone
    <3>2. CASE Forks /\ pc = "protect"
      <4>1. op[t].access = "read"
        BY <2>1, <2>4, <3>2
      <4>2. PICK e, a : e = pte[sp[t]][op[t].page] /\ a = area[sp[t]][op[t].page]
        OBVIOUS
      <4>3. Allowed(e, a) /\ ~Permits(e.prot, "read") /\ e # NoPte /\ Permits(a.prot, "read")
        BY <2>3, <2>4, <3>2, <4>1, <4>2 DEF AreaInv, Solo, SoloOp
      <4> QED  BY <4>3 DEF Allowed, Permits
    <3> QED  BY <3>1, <3>2
  <2> QED  BY <2>2, <2>5, OpCow
<1>6. CASE fault_count(t)
  <2>1. PICK e, a : e = pte[sp[t]][op[t].page] /\ a = area[sp[t]][op[t].page]
    OBVIOUS
  <2> DEFINE c == [pc |-> "copy", page |-> op[t].page, frame |-> e.frame]
             d == [pc |-> "protect", page |-> op[t].page]
  <2>2. OpStep(t, c) \/ (OpStep(t, d) /\ ~(Permits(e.prot, "read") /\ refs[e.frame] > 1))
    BY <1>6, <2>1, CountOp
  <2>3. c.pc = "copy" /\ d.pc = "protect" /\ d.page = op[t].page /\ pte' = pte
    BY <1>6 DEF fault_count
  <2> HIDE DEF c, d
  <2>4. op[t].pc = "count"
    BY <1>6 DEF fault_count
  <2>5. /\ sp[t] \in Spaces /\ sp[t] # NoSpace /\ op[t].page \in Pages /\ e # NoPte
    BY <2>1, <2>4, OpHas DEF Ctl, Control, InVm
  <2>6. ~(Permits(e.prot, "read") /\ refs[e.frame] > 1) => NoTwin(pte, sp[t], op[t].page)
    <3>1. CASE ~Forks
      BY <2>5, <3>1, NoForkAlone
    <3>2. CASE Forks
      <4>1. Allowed(e, a) /\ a.prot = "rw"
        BY <2>1, <2>4, <2>5, <3>2 DEF AreaInv, Solo, SoloOp, InVm
      <4>2. Permits(e.prot, "read")
        BY <2>5, <4>1 DEF Allowed, Permits
      <4> QED  BY <2>1, <2>5, <4>2, CountedOnce
    <3> QED  BY <3>1, <3>2
  <2> QED  BY <2>2, <2>3, <2>6, OpCow
<1> QED  BY <1>1, <1>2, <1>3, <1>4, <1>5, <1>6

\* A step under VM by which a thread goes back to its program: nobody is about
\* to give a right back.
LEMMA NobodyProtects ==
  ASSUME Ctl, NEW t, OpStep(t, User), VmFree \/ op[t].pc \in InVm
  PROVE  \A u \in Threads : op'[u].pc # "protect"
<1>1. op'[t] = User /\ \A u \in Threads \ {t} : op'[u] = op[u]
  BY DEF OpStep, Ctl, Types
<1>2. \A u \in Threads \ {t} : op[u].pc # "protect"
  BY DEF VmFree, Ctl, Control, InVm, OpStep
<1> QED  BY <1>1, <1>2, UserOk

\* A right to write comes back to a page whose frame is its own.
LEMMA ProtectCow ==
  ASSUME Ctl, CowInv, NEW t \in Threads, fault_protect(t)
  PROVE  CowInv'
<1>1. op[t].pc = "protect" /\ OpStep(t, User)
  BY ProtectOp DEF fault_protect
<1>2. PICK s, r : s = sp[t] /\ r = op[t].page
  OBVIOUS
<1>3. /\ s \in Spaces /\ r \in Pages /\ NoTwin(pte, s, r) /\ pte[s][r] # NoPte
  BY <1>1, <1>2, ProtectKnows DEF Ctl, Control, InVm
<1>4. /\ \A x \in Spaces, q \in Pages : ~(x = s /\ q = r) => pte'[x][q] = pte[x][q]
      /\ pte'[s][r].frame = pte[s][r].frame
  <2>1. pte[s][r] \in Entries
    BY <1>3, NamedFrame
  <2>2. \A e \in Entries : \A prot : [e EXCEPT !.prot = prot].frame = e.frame
    BY DEF Entries
  <2>3. pte'[s][r] = [pte[s][r] EXCEPT !.prot = area[s][r].prot]
    BY <1>2, <1>3, ProtectOp
  <2>4. \A q \in Pages : q # r => pte'[s][q] = pte[s][q]
    BY <1>2, ProtectOp
  <2>5. \A x \in Spaces \ {s} : pte'[x] = pte[x]
    BY <1>1, <1>2 DEF OpStep, Within
  <2> QED  BY <2>1, <2>2, <2>3, <2>4, <2>5
<1>5. \A x \in Spaces, q \in Pages :
         pte'[x][q] = NoPte \/ (pte[x][q] # NoPte /\ pte'[x][q].frame = pte[x][q].frame)
  BY <1>3, <1>4
<1>6. NoTwin(pte', s, r)
  BY <1>3, <1>5, StillAlone
<1>7. \A x \in Spaces, q \in Pages : Meek(x, q)
  BY <1>4, <1>6 DEF Meek
<1>8. \A u \in Threads : op'[u].pc # "protect"
  BY <1>1, NobodyProtects DEF InVm
<1> QED  BY <1>7, <1>8, KeepCow

\* A new frame is its page's own.
LEMMA NewFrameCow ==
  ASSUME Ctl, FramesInv, CowInv, NEW t \in Threads, fault_anon(t) \/ fault_copy(t)
  PROVE  CowInv'
<1>1. OpStep(t, User) /\ (VmFree \/ op[t].pc \in InVm)
  BY AnonOp, CopyOp DEF fault_anon, Faulting, fault_copy, InVm
<1>2. CASE UNCHANGED pte
  BY <1>1, <1>2, UserOk, OpCow
<1>3. CASE \E f \in FreeFrames : NewAt(t, f)
  <2>1. PICK f \in FreeFrames : NewAt(t, f)
    BY <1>3
  <2>2. PICK s, r : s = sp[t] /\ r = op[t].page
    OBVIOUS
  <2>3. /\ s \in Spaces /\ r \in Pages
        /\ \A x \in Spaces, q \in Pages : ~(x = s /\ q = r) => pte'[x][q] = pte[x][q]
        /\ pte'[s][r] = [frame |-> f, prot |-> area[s][r].prot]
    <3>1. s \in Spaces /\ r \in Pages
      BY <2>2, NewFrame
    <3>2. \A x \in Spaces, q \in Pages :
             pte'[x][q] = IF x = s /\ q = r THEN [frame |-> f, prot |-> area[s][r].prot] ELSE pte[x][q]
      BY <2>1, <2>2 DEF NewAt
    <3> QED  BY <3>1, <3>2
  <2>4. pte'[s][r].frame = f
    BY <2>3
  <2>5. NoTwin(pte', s, r)
    <3> SUFFICES ASSUME NEW x \in Spaces, NEW q \in Pages, Twins(pte', s, r, x, q)
                 PROVE  FALSE
      BY DEF NoTwin
    <3>1. ~(x = s /\ q = r) /\ pte'[x][q] # NoPte /\ pte'[x][q].frame = f
      BY <2>4 DEF Twins
    <3>2. pte[x][q] # NoPte /\ pte[x][q].frame = f
      BY <2>3, <3>1
    <3>3. <<x, q>> \in NamesIn(pte, f)
      BY <3>2, NamedFrame
    <3> QED  BY <3>3, FreeFrame
  <2>6. \A x \in Spaces, q \in Pages : Meek(x, q)
    BY <2>3, <2>5 DEF Meek
  <2>7. \A u \in Threads : op'[u].pc # "protect"
    BY <1>1, NobodyProtects
  <2> QED  BY <2>6, <2>7, KeepCow
<1> QED  BY <1>2, <1>3, NewFrame

\* The frames a fault has read are named by nobody, and each goes to one page.
LEMMA MapCow ==
  ASSUME Ctl, AreaInv, FramesInv, CowInv, NEW t \in Threads, fault_map(t)
  PROVE  CowInv'
<1>1. OpStep(t, User) /\ op[t].pc = "map" /\ area[sp[t]][op[t].page] # NoArea /\ VmFree
  BY MapOp
<1>2. PICK end \in AreaOf(sp[t], op[t].page) : \E mapped, back : MapShape(t, Fitting(t, end), mapped, back)
  BY MapOp
<1>3. PICK mapped, back : MapShape(t, Fitting(t, end), mapped, back)
  BY <1>2
<1>4. PICK s, r, fs : s = sp[t] /\ r = op[t].page /\ fs = op[t].frames
  OBVIOUS
<1>5. s \in Spaces /\ s # NoSpace /\ r \in Pages /\ r \in Int
  BY <1>1, <1>4, OpHas DEF Pages
<1>6. \A i, j \in mapped : /\ i \in Int /\ (fs[i] = fs[j] => i = j)
                           /\ fs[i] \in Frames /\ NamesIn(pte, fs[i]) = {}
  <2>1. PICK k \in 1 .. NPages : fs \in Injection(1 .. k, Frames)
    BY <1>1, <1>4, OpHas DEF OpOk
  <2>2. \A i \in mapped : i \in DOMAIN fs
    BY <1>3, <1>4 DEF MapShape, Fitting
  <2>3. \A i \in mapped : fs[i] \in Held(t)
    BY <1>1, <1>4, <2>2 DEF Held, Range
  <2>4. \A i, j \in DOMAIN fs : i \in Int /\ (fs[i] = fs[j] => i = j)
    BY <2>1 DEF Injection, IsInjective
  <2> QED  BY <2>2, <2>3, <2>4, HeldFrame
<1>7. \A x \in Spaces \ {s} : pte'[x] = pte[x]
  BY <1>1, <1>4 DEF OpStep, Within
<1>8. ASSUME NEW q \in Pages, q - r + 1 \in mapped
      PROVE  pte'[s][q].frame = fs[q - r + 1]
  <2>1. pte'[s][q] = [frame |-> fs[q - r + 1], prot |-> area[s][r].prot]
    BY <1>3, <1>4, <1>8 DEF MapShape
  <2> QED  BY <2>1
<1>9. ASSUME NEW q \in Pages, q - r + 1 \notin mapped
      PROVE  \/ pte'[s][q] = pte[s][q]
             \/ pte[s][q] # NoPte /\ pte'[s][q].frame = pte[s][q].frame /\ ~Forks
  <2>1. CASE pte'[s][q] # pte[s][q]
    <3>1. q = r /\ pte[s][q] # NoPte /\ pte'[s][q] = [pte[s][q] EXCEPT !.prot = area[s][r].prot]
      BY <1>3, <1>4, <1>9, <2>1 DEF MapShape
    <3>2. pte[s][q] \in Entries
      BY <1>5, <3>1, NamedFrame
    <3>3. \A e \in Entries : \A prot : [e EXCEPT !.prot = prot].frame = e.frame
      BY DEF Entries
    <3>4. ~Forks
      BY <1>1, <1>4, <1>5, <3>1 DEF AreaInv, Solo, SoloOp
    <3> QED  BY <3>1, <3>2, <3>3, <3>4
  <2> QED  BY <2>1
<1>10. ASSUME NEW x \in Spaces, NEW q \in Pages, pte'[x][q] # NoPte
       PROVE  \/ x = s /\ q - r + 1 \in mapped /\ pte'[x][q].frame = fs[q - r + 1]
              \/ pte[x][q] # NoPte /\ pte'[x][q].frame = pte[x][q].frame
  BY <1>5, <1>7, <1>8, <1>9, <1>10
<1>11. ASSUME NEW q \in Pages, q - r + 1 \in mapped
       PROVE  NoTwin(pte', s, q)
  <2> SUFFICES ASSUME NEW x \in Spaces, NEW z \in Pages, Twins(pte', s, q, x, z)
               PROVE  FALSE
    BY DEF NoTwin
  <2>1. PICK i, f : i = q - r + 1 /\ f = fs[i]
    OBVIOUS
  <2>2. i \in mapped /\ f \in Frames /\ NamesIn(pte, f) = {} /\ pte'[s][q].frame = f
    BY <1>6, <1>8, <1>11, <2>1
  <2>3. pte'[x][z] # NoPte /\ pte'[x][z].frame = f /\ <<s, q>> # <<x, z>>
    BY <2>2 DEF Twins
  <2>4. CASE x = s /\ z - r + 1 \in mapped
    <3>1. pte'[x][z].frame = fs[z - r + 1]
      BY <1>8, <2>4
    <3>2. z - r + 1 = q - r + 1
      BY <1>6, <1>11, <2>1, <2>3, <2>4, <3>1
    <3>3. z = q
      BY <1>5, <3>2 DEF Pages
    <3> QED  BY <2>3, <2>4, <3>3
  <2>5. CASE pte[x][z] # NoPte /\ pte'[x][z].frame = pte[x][z].frame
    <3>1. <<x, z>> \in NamesIn(pte, f)
      BY <2>3, <2>5, NamedFrame
    <3> QED  BY <2>2, <3>1
  <2> QED  BY <1>10, <2>3, <2>4, <2>5
<1>12. ASSUME NEW q \in Pages, q - r + 1 \notin mapped, pte[s][q] # NoPte, ~Forks,
              pte'[s][q].frame = pte[s][q].frame
       PROVE  NoTwin(pte', s, q)
  <2> SUFFICES ASSUME NEW x \in Spaces, NEW z \in Pages, Twins(pte', s, q, x, z)
               PROVE  FALSE
    BY DEF NoTwin
  <2>1. PICK f : f = pte[s][q].frame
    OBVIOUS
  <2>2. pte'[x][z] # NoPte /\ pte'[x][z].frame = f /\ <<s, q>> # <<x, z>>
    BY <1>12, <2>1 DEF Twins
  <2>3. CASE x = s /\ z - r + 1 \in mapped
    <3>1. fs[z - r + 1] = f
      BY <1>8, <2>2, <2>3
    <3>2. NamesIn(pte, f) = {}
      BY <1>6, <2>3, <3>1
    <3>3. <<s, q>> \in NamesIn(pte, f)
      BY <1>5, <1>12, <2>1, NamedFrame
    <3> QED  BY <3>2, <3>3
  <2>4. CASE pte[x][z] # NoPte /\ pte'[x][z].frame = pte[x][z].frame
    <3>1. Twins(pte, s, q, x, z)
      BY <1>12, <2>1, <2>2, <2>4 DEF Twins
    <3> QED  BY <1>5, <1>12, <3>1 DEF CowInv
  <2> QED  BY <1>10, <2>2, <2>3, <2>4
<1>13. \A x \in Spaces, q \in Pages : Meek(x, q)
  <2> TAKE x \in Spaces, q \in Pages
  <2>1. CASE x # s
    BY <1>7, <2>1 DEF Meek
  <2>2. CASE x = s /\ q - r + 1 \in mapped
    BY <1>11, <2>2 DEF Meek
  <2>3. CASE x = s /\ q - r + 1 \notin mapped
    BY <1>9, <1>12, <2>3 DEF Meek
  <2> QED  BY <2>1, <2>2, <2>3
<1>14. \A u \in Threads : op'[u].pc # "protect"
  BY <1>1, NobodyProtects
<1> QED  BY <1>13, <1>14, KeepCow

\* mmap, munmap and madvise take entries away.
LEMMA UnmapCow ==
  ASSUME Ctl, AreaInv, CowInv, NEW t \in Threads, NEW ps \in Ranges,
         \/ \E a \in Areas : mmap(t, ps, a)
         \/ munmap(t, ps) \/ discard(t, ps)
  PROVE  CowInv'
<1>1. CallStep(t) /\ sp[t] \in Spaces /\ ps \in SUBSET Pages
  BY MmapCall, MunmapCall, DiscardCall, PagesFinite DEF CallStep, Ctl, Types
<1>2. \A p \in Pages : pte'[sp[t]][p] = IF p \in ps THEN NoPte ELSE pte[sp[t]][p]
  <2>1. CASE \E a \in Areas : mmap(t, ps, a)
    BY <2>1, MmapArea
  <2>2. CASE munmap(t, ps) \/ discard(t, ps)
    BY <1>1, <2>2, MunmapCall, DiscardCall, UnmapWithin DEF Ctl
  <2> QED  BY <2>1, <2>2
<1>3. Thinned
  BY <1>1, <1>2 DEF Thinned, CallStep, Within
<1>4. \A u \in Threads : op'[u].pc # "protect"
  BY <1>1 DEF CallStep, VmFree
<1> QED  BY <1>3, <1>4, ThinnedCow

\* mremap moves entries: twins were twins where they came from.
LEMMA MremapCow ==
  ASSUME Ctl, AreaInv, CowInv, NEW t \in Threads, NEW old \in Pages, NEW new \in Pages,
         NEW n \in 1 .. NPages, NEW m \in 1 .. NPages, mremap(t, old, n, new, m)
  PROVE  CowInv'
<1>1. CallStep(t) /\ sp[t] \in Spaces
  BY MremapCall DEF CallStep, Ctl, Types
<1>2. PICK s : s = sp[t]
  OBVIOUS
<1> DEFINE From(x, q) == IF x = s /\ q \in new .. new + n - 1 THEN q - new + old ELSE q
<1>3. old \in Nat /\ new \in Nat /\ n \in Nat
  BY MremapNames
<1>4. ASSUME NEW x \in Spaces, NEW q \in Pages, pte'[x][q] # NoPte
      PROVE  /\ From(x, q) \in Pages /\ pte'[x][q] = pte[x][From(x, q)]
             /\ x = s /\ q \notin new .. new + n - 1 => q \notin old .. old + n - 1
             /\ x = s /\ q \in new .. new + n - 1 => From(x, q) \in old .. old + n - 1
  <2>1. CASE x # s
    BY <1>1, <1>2, <2>1 DEF CallStep, Within
  <2>2. CASE x = s /\ q \in new .. new + n - 1
    BY <1>2, <2>2, MremapNames DEF Moves
  <2>3. CASE x = s /\ q \notin new .. new + n - 1
    BY <1>2, <1>4, <2>3, MremapNames DEF Moves
  <2> QED  BY <2>1, <2>2, <2>3
<1>5. ASSUME NEW x \in Spaces, NEW q \in Pages, pte'[x][q] # NoPte,
             NEW z \in Pages, pte'[x][z] # NoPte, From(x, q) = From(x, z)
      PROVE  q = z
  <2>1. q \in Int /\ z \in Int
    BY DEF Pages
  <2>2. CASE x = s /\ q \in new .. new + n - 1 /\ z \in new .. new + n - 1
    <3>1. q - new + old = z - new + old
      BY <1>5, <2>2
    <3> QED  BY <1>3, <2>1, <3>1
  <2>3. CASE x = s /\ q \in new .. new + n - 1 /\ z \notin new .. new + n - 1
    BY <1>4, <1>5, <2>3
  <2>4. CASE x = s /\ q \notin new .. new + n - 1 /\ z \in new .. new + n - 1
    BY <1>4, <1>5, <2>4
  <2>5. CASE x # s \/ (q \notin new .. new + n - 1 /\ z \notin new .. new + n - 1)
    BY <1>5, <2>5
  <2> QED  BY <2>2, <2>3, <2>4, <2>5
<1>6. ASSUME NEW x \in Spaces, NEW q \in Pages, NEW y \in Spaces, NEW z \in Pages,
             Twins(pte', x, q, y, z)
      PROVE  Forks /\ pte'[x][q].prot # "rw"
  <2>1. PICK a, b : a = From(x, q) /\ b = From(y, z)
    OBVIOUS
  <2>2. pte'[x][q] # NoPte /\ pte'[y][z] # NoPte /\ pte'[x][q].frame = pte'[y][z].frame /\ <<x, q>> # <<y, z>>
    BY <1>6 DEF Twins
  <2>3. a \in Pages /\ b \in Pages /\ pte'[x][q] = pte[x][a] /\ pte'[y][z] = pte[y][b]
    BY <1>4, <2>1, <2>2
  <2>4. <<x, a>> # <<y, b>>
    <3>1. CASE x = y
      <4>1. q # z /\ pte'[x][z] # NoPte
        BY <2>2, <3>1
      <4>2. From(x, q) # From(x, z)
        BY <1>5, <2>2, <4>1
      <4> QED  BY <2>1, <3>1, <4>2
    <3> QED  BY <3>1
  <2>5. Twins(pte, x, a, y, b)
    BY <2>2, <2>3, <2>4 DEF Twins
  <2> QED  BY <2>3, <2>5 DEF CowInv
<1>7. \A u \in Threads : op'[u].pc # "protect"
  BY <1>1 DEF CallStep, VmFree
<1> QED  BY <1>6, <1>7 DEF CowInv, Forks

\* The clone of a space: every name gets a twin, and neither may write.
LEMMA CloneCow ==
  ASSUME Ctl, AreaInv, CowInv, NEW t \in Threads, NEW c \in Spaces, CloneShape(t, c)
  PROVE  CowInv'
<1>1. PICK s : s = sp[t]
  OBVIOUS
<1>2. /\ s \in Spaces /\ s # NoSpace /\ Forks /\ Alone /\ c \in Unused /\ sp' = sp
      /\ op'[t].pc = "fork" /\ \A u \in Threads \ {t} : op'[u] = op[u]
      /\ \A p \in Pages : /\ pte'[s][p] = NoWrite(pte[s][p])
                          /\ pte'[c][p] = NoWrite(pte[s][p])
      /\ \A x \in Spaces \ {s, c} : pte'[x] = pte[x]
  <2>1. op'[t] = [pc |-> "fork", child |-> c] /\ \A u \in Threads \ {t} : op'[u] = op[u]
    BY DEF CloneShape, Ctl, Types
  <2>2. op'[t].pc = "fork"
    BY <2>1
  <2> QED  BY <1>1, <2>1, <2>2, VmAssumption DEF CloneShape, AreaInv, Forks
<1> DEFINE Of(x) == IF x = c THEN s ELSE x
<1>3. ASSUME NEW x \in Spaces, NEW q \in Pages, pte'[x][q] # NoPte
      PROVE  /\ Of(x) \in Spaces
             /\ pte[Of(x)][q] # NoPte /\ pte'[x][q].frame = pte[Of(x)][q].frame
             /\ IF x \in {s, c} THEN pte'[x][q].prot # "rw" ELSE pte'[x][q] = pte[x][q]
  <2>1. CASE x \in {s, c}
    <3>1. PICK e : e = pte[s][q]
      OBVIOUS
    <3>2. pte'[x][q] = NoWrite(e) /\ Of(x) = s
      BY <1>2, <2>1, <3>1
    <3>3. e # NoPte
      BY <1>3, <3>2 DEF NoWrite
    <3>4. e \in Entries
      BY <1>2, <3>1, <3>3, NamedFrame
    <3>5. NoWrite(e).frame = e.frame /\ NoWrite(e).prot # "rw"
      BY <3>3, <3>4 DEF NoWrite, Entries
    <3> QED  BY <1>2, <2>1, <3>1, <3>2, <3>3, <3>5
  <2>2. CASE x \notin {s, c}
    BY <1>2, <1>3, <2>2
  <2> QED  BY <2>1, <2>2
<1>4. ASSUME NEW x \in Spaces, NEW q \in Pages, NEW y \in Spaces, NEW z \in Pages,
             Twins(pte', x, q, y, z)
      PROVE  Forks /\ pte'[x][q].prot # "rw"
  <2>1. /\ pte'[x][q] # NoPte /\ pte'[y][z] # NoPte /\ pte'[x][q].frame = pte'[y][z].frame
        /\ <<x, q>> # <<y, z>>
    BY <1>4 DEF Twins
  <2>2. CASE x \in {s, c}
    BY <1>2, <1>3, <2>1, <2>2
  <2>3. CASE x \notin {s, c}
    <3>1. PICK w : w = Of(y)
      OBVIOUS
    <3>2. w \in Spaces /\ pte[w][z] # NoPte /\ pte'[y][z].frame = pte[w][z].frame
      BY <1>3, <2>1, <3>1
    <3>3. pte'[x][q] = pte[x][q]
      BY <1>3, <2>1, <2>3
    <3>4. <<x, q>> # <<w, z>>
      <4>1. w = y \/ w = s
        BY <3>1
      <4> QED  BY <2>1, <2>3, <4>1
    <3>5. Twins(pte, x, q, w, z)
      BY <2>1, <3>2, <3>3, <3>4 DEF Twins
    <3> QED  BY <3>2, <3>3, <3>5 DEF CowInv
  <2> QED  BY <2>2, <2>3
<1>5. ASSUME NEW u \in Threads, op'[u].pc = "protect"
      PROVE  NoTwin(pte', sp'[u], op'[u].page)
  <2>1. PICK x, q : x = sp[u] /\ q = op[u].page
    OBVIOUS
  <2>2. u # t /\ op'[u] = op[u] /\ sp'[u] = x /\ op'[u].page = q
    BY <1>2, <1>5, <2>1
  <2>3. x \in Spaces /\ q \in Pages /\ NoTwin(pte, x, q)
    BY <1>5, <2>1, <2>2, ProtectKnows
  <2>4. x # s /\ x # c
    BY <1>1, <1>2, <2>1, <2>2, <2>3, VmAssumption DEF Alone, Unused
  <2> SUFFICES ASSUME NEW y \in Spaces, NEW z \in Pages, Twins(pte', x, q, y, z)
               PROVE  FALSE
    BY <2>2 DEF NoTwin
  <2>5. /\ pte'[x][q] # NoPte /\ pte'[y][z] # NoPte /\ pte'[x][q].frame = pte'[y][z].frame
        /\ <<x, q>> # <<y, z>>
    BY DEF Twins
  <2>6. PICK w : w = Of(y)
    OBVIOUS
  <2>7. w \in Spaces /\ pte[w][z] # NoPte /\ pte'[y][z].frame = pte[w][z].frame
    BY <1>3, <2>5, <2>6
  <2>8. pte'[x][q] = pte[x][q]
    BY <1>3, <2>3, <2>4, <2>5
  <2>9. <<x, q>> # <<w, z>>
    <3>1. w = y \/ w = s
      BY <2>6
    <3> QED  BY <2>4, <2>5, <3>1
  <2>10. Twins(pte, x, q, w, z)
    BY <2>5, <2>7, <2>8, <2>9 DEF Twins
  <2> QED  BY <2>3, <2>7, <2>10 DEF NoTwin
<1> QED  BY <1>4, <1>5 DEF CowInv, Forks

\* The child of a fork gets its areas, and names what it named.
LEMMA StartCow ==
  ASSUME Ctl, CowInv, NEW t \in Threads, NEW u \in Threads, StartShape(t, u)
  PROVE  CowInv'
<1>1. /\ VmFree /\ pte' = pte /\ op'[t] = User /\ \A w \in Threads \ {t} : op'[w] = op[w]
  BY DEF StartShape, Ctl, Types
<1>2. \A w \in Threads : op'[w].pc # "protect"
  BY <1>1, UserOk DEF VmFree
<1>3. Thinned
  BY <1>1 DEF Thinned
<1> QED  BY <1>2, <1>3, ThinnedCow

\* A space given back names nothing.
LEMMA BackCow ==
  ASSUME Ctl, CowInv, (\E t \in Threads : fork_failed(t)) \/ (\E s \in Spaces : exit(s))
  PROVE  CowInv'
<1>1. PICK s \in Spaces : /\ unmap_range(s, Pages)
                          /\ \A t \in Threads : op'[t] = User \/ (op'[t] = op[t] /\ sp'[t] = sp[t])
  <2>1. ASSUME NEW t \in Threads, fork_failed(t)
        PROVE  /\ op[t].child \in Spaces /\ unmap_range(op[t].child, Pages)
               /\ \A u \in Threads : op'[u] = User \/ (op'[u] = op[u] /\ sp'[u] = sp[u])
    BY <2>1, ForkFailedCtl DEF Ctl, Types
  <2>2. ASSUME NEW s \in Spaces, exit(s)
        PROVE  /\ unmap_range(s, Pages)
               /\ \A u \in Threads : op'[u] = User \/ (op'[u] = op[u] /\ sp'[u] = sp[u])
    BY <2>2, ExitCtl
  <2> QED  BY <2>1, <2>2
<1>2. Thinned
  BY <1>1, UnmapWithin DEF Ctl, Thinned
<1>3. ASSUME NEW t \in Threads, op'[t].pc = "protect"
      PROVE  sp'[t] \in Spaces /\ op'[t].page \in Pages /\ NoTwin(pte, sp'[t], op'[t].page)
  BY <1>1, <1>3, UserOk, ProtectKnows
<1> QED  BY <1>2, <1>3, ThinnedCow

\* Every step keeps CowInv.
LEMMA CowAlways ==
  ASSUME "mprotect" \notin Calls, Calm, Ctl, AreaInv, FramesInv, CowInv, [Next]_vars
  PROVE  CowInv'
<1>1. CASE UNCHANGED vars
  <2>1. UNCHANGED <<pte, op, sp>>
    BY <1>1 DEF vars
  <2> QED  BY <2>1 DEF CowInv, Forks
<1>2. ASSUME NEW t \in Threads, NEW p \in Pages, NEW access \in {"read", "write"}, touch(t, p, access)
      PROVE  CowInv'
  BY <1>2, LookCow
<1>3. ASSUME NEW t \in Threads, fault(t)
      PROVE  CowInv'
  BY <1>3, LookCow, NewFrameCow, ProtectCow, MapCow DEF fault
<1>4. ASSUME NEW t \in Threads, NEW ps \in Ranges,
             \/ \E a \in Areas : mmap(t, ps, a)
             \/ munmap(t, ps) \/ discard(t, ps)
             \/ \E prot \in Prots : mprotect(t, ps, prot)
      PROVE  CowInv'
  BY <1>4, UnmapCow, MprotectCall
<1>5. ASSUME NEW t \in Threads, NEW c \in Spaces, clone_user_space(t, c)
      PROVE  CowInv'
  BY <1>5, CloneIs, CloneCow
<1>6. ASSUME NEW t \in Threads, NEW u \in Threads, clone_space(t, u)
      PROVE  CowInv'
  BY <1>6, StartIs, StartCow
<1> QED  BY <1>1, <1>2, <1>3, <1>4, <1>5, <1>6, MremapCow, BackCow DEF Next

\* fork gives the child a copy: a frame that two entries name can be written
\* through neither (mmu.rs: clone_user_space; vm.rs: handle_fault, which gives the
\* right to write back only for a count of 1), for any number of processes, pages
\* and frames, with faults, forks and exits between each other's steps.
\* Hypotheses: memory for tables, one thread where programs fork, and no mprotect,
\* which hands the right to write to shared frames.
THEOREM VmCowIsolated ==
  ASSUME Calm, "mprotect" \notin Calls
  PROVE  Spec => []CowIsolated
<1>1. Init => CowInv
  BY UserOk DEF Init, CowInv, Twins
<1>2. Ctl /\ AreaInv /\ FramesInv /\ CowInv /\ [Next]_vars => CowInv'
  BY CowAlways
<1>3. CowInv => CowIsolated
  <2> SUFFICES ASSUME CowInv, NEW x \in Spaces \X Pages, NEW y \in Spaces \X Pages, x # y,
                      pte[x[1]][x[2]] # NoPte, pte[y[1]][y[2]] # NoPte,
                      pte[x[1]][x[2]].frame = pte[y[1]][y[2]].frame
               PROVE  pte[x[1]][x[2]].prot # "rw"
    BY DEF CowIsolated
  <2>1. PICK a \in Spaces, p \in Pages : x = <<a, p>>
    OBVIOUS
  <2>2. PICK b \in Spaces, q \in Pages : y = <<b, q>>
    OBVIOUS
  <2>3. Twins(pte, a, p, b, q)
    BY <2>1, <2>2 DEF Twins
  <2> QED  BY <2>1, <2>3 DEF CowInv
<1>4. CountedCalls
  BY DEF CountedCalls, Calm
<1>5. Spec => []FramesInv
  BY <1>4, FramesHold
<1> QED  BY <1>1, <1>2, <1>3, <1>5, CtlHolds, AreaHolds, PTL DEF Spec

=============================================================================
