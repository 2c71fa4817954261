----------------------------- MODULE ShmProofs -----------------------------
(***************************************************************************)
(* Proofs about Shm, for any number of processes, objects, frames and      *)
(* descriptors: the counters of an object are its references, and a page   *)
(* that is mapped is the page of its object and of no other.               *)
(***************************************************************************)
EXTENDS Shm, FiniteSetTheorems, WellFoundedInduction, TLAPS

\* A set of numbers that is not empty has a least one, and it is Min.
LEMMA MinIsIn ==
  ASSUME NEW T, T \subseteq Nat, T # {}
  PROVE  Min(T) \in T
<1>1. IsWellFoundedOn(OpToRel(<, Nat), Nat)
  BY NatLessThanWellFounded
<1>2. PICK k \in T : \A j \in T : ~(<<j, k>> \in OpToRel(<, Nat))
  BY <1>1, WFMin
<1>3. \A j \in T : ~(j < k)
  BY <1>2 DEF OpToRel
<1>4. \E x \in T : \A y \in T : x =< y
  BY <1>3
<1> QED  BY <1>4 DEF Min

\* The object that nobody's call is about.
LEMMA MinObj == Min(Objs) \in Objs
<1>1. Objs \subseteq Nat /\ 1 \in Objs
  BY ShmAssumption DEF Objs
<1> QED  BY <1>1, MinIsIn

\* The object a name finds is one that has the name.
LEMMA MinNamed ==
  ASSUME NEW n, Named(n) # {}
  PROVE  Min(Named(n)) \in Objs /\ used[Min(Named(n))] /\ name[Min(Named(n))] = n
<1>1. Named(n) \subseteq Nat
  BY DEF Named, Objs
<1>2. Min(Named(n)) \in Named(n)
  BY <1>1, MinIsIn
<1> QED  BY <1>2 DEF Named

-----------------------------------------------------------------------------
(* The invariant.                                                          *)

ObjTypes ==
    /\ used \in [Objs -> BOOLEAN]
    /\ fd_refs \in [Objs -> Nat] /\ map_refs \in [Objs -> Nat]
    /\ name \in [Objs -> Names \cup {NoName}]
    /\ size \in [Objs -> 0 .. 1]
    /\ page \in [Objs -> Frames \cup {NoFrame}]

ProcTypes ==
    /\ fds \in [Procs -> [Objs -> 0 .. MaxFds]]
    /\ maps \in [Procs -> SUBSET Objs]
    /\ pte \in [Procs -> [Objs -> Frames \cup {NoFrame}]]
    /\ pc \in [Procs -> PCs]
    /\ obj \in [Procs -> Objs \cup Names]
    /\ \A p \in Procs : IF pc[p] = "create" THEN obj[p] \in Names ELSE obj[p] \in Objs
    /\ calls \in Programs

Types == ObjTypes /\ ProcTypes

\* The program opens objects by name.
Opened == "open" \in calls

\* A count that is never too high, and exact for programs that use no names.
Counts(n, c) == n <= c /\ (~Opened => n = c)

Mmapping(p, o) == pc[p] \in {"mmap", "fixed"} /\ obj[p] = o

\* A free entry of the table is empty.
FreeEmpty ==
    \A o \in Objs : ~used[o] =>
        fd_refs[o] = 0 /\ map_refs[o] = 0 /\ name[o] = NoName /\ page[o] = NoFrame

\* An object that exists has a reference, or mmap will give it one or drop it.
UsedHeld ==
    \A o \in Objs : used[o] =>
        \/ name[o] # NoName \/ fd_refs[o] > 0 \/ map_refs[o] > 0
        \/ \E p \in Procs : Mmapping(p, o)

\* The dead have nothing; pages are mapped in areas, but between carve and
\* unmap_range; an object is mapped once at most; programs without names are never
\* between the steps of shm_open.
ProcOk(p) ==
    /\ pc[p] = "dead" => maps[p] = {} /\ \A o \in Objs : fds[p][o] = 0
    /\ \A o \in Objs : pte[p][o] # NoFrame => o \in maps[p] \/ pc[p] \in {"unmap", "fixed"}
    /\ ~Opened => pc[p] \in {"user", "install", "mmap", "unmap", "fixed", "dead"}
    /\ "mmap" \notin calls => pc[p] \notin {"mmap", "unmap", "fixed"} /\ maps[p] = {}
    /\ pc[p] \in {"mmap", "fixed"} => obj[p] \notin maps[p]

CountsOk ==
    \A o \in Objs : /\ Counts(fd_refs[o], Cardinality(FdRefs(o)))
                    /\ Counts(map_refs[o], Cardinality(Mappers(o)))

\* An object on its way into an area has a descriptor of the same process, or it
\* is new and nobody else's.
New(p, o) ==
    /\ fd_refs[o] = 0 /\ map_refs[o] = 0
    /\ \A q \in Procs \ {p} : ~Mmapping(q, o)
MmapHolds(p) ==
    \A o \in Objs : Mmapping(p, o) => used[o] /\ (fds[p][o] > 0 \/ New(p, o))

\* Programs that use no names have none.
NoNames == \A o \in Objs : name[o] = NoName

ShmInv ==
    /\ Types /\ FreeEmpty /\ UsedHeld /\ CountsOk
    /\ \A p \in Procs : ProcOk(p)
    /\ ~Opened => NoNames /\ \A p \in Procs : MmapHolds(p)

-----------------------------------------------------------------------------
(* Counting references.                                                    *)

\* The references of processes that have f[p] descriptors, and take one if g[p].
RefSet(f, g) ==
    {x \in Procs \X (0 .. MaxFds) : IF x[2] = 0 THEN g[x[1]] ELSE x[2] <= f[x[1]]}
Take(b) == IF b THEN 1 ELSE 0

\* Those of p, that has n descriptors, and takes one if b.
OwnRefs(p, n, b) == {x \in {p} \X (0 .. MaxFds) : IF x[2] = 0 THEN b ELSE x[2] <= n}

\* Pairs that start with p are as many as they have ends.
LEMMA PairsCount ==
  ASSUME NEW p, NEW S, IsFiniteSet(S)
  PROVE  IsFiniteSet({p} \X S) /\ Cardinality({p} \X S) = Cardinality(S)
<1>1. IsFiniteSet({p}) /\ Cardinality({p}) = 1
  BY FS_Singleton
<1>2. IsFiniteSet({p} \X S) /\ Cardinality({p} \X S) = Cardinality({p}) * Cardinality(S)
  BY <1>1, FS_Product
<1>3. PICK k \in Nat : Cardinality(S) = k
  BY FS_CardinalityType
<1> QED  BY <1>1, <1>2, <1>3

\* Sets that share nothing are as many together as one after the other.
LEMMA ApartCount ==
  ASSUME NEW S, NEW T, IsFiniteSet(S), IsFiniteSet(T), S \cap T = {}
  PROVE  Cardinality(S \cup T) = Cardinality(S) + Cardinality(T)
<1>1. Cardinality(S \cup T) = Cardinality(S) + Cardinality(T) - Cardinality(S \cap T)
  BY FS_Union
<1>2. Cardinality(S \cap T) = 0
  BY FS_EmptySet
<1>3. PICK k, l \in Nat : Cardinality(S) = k /\ Cardinality(T) = l
  BY FS_CardinalityType
<1> QED  BY <1>1, <1>2, <1>3

\* Those of one process are as many as it has and takes.
LEMMA OwnCount ==
  ASSUME NEW p, NEW n \in 0 .. MaxFds, NEW b \in BOOLEAN
  PROVE  IsFiniteSet(OwnRefs(p, n, b)) /\ Cardinality(OwnRefs(p, n, b)) = n + Take(b)
<1> DEFINE have == {p} \X (1 .. n)
<1>0. MaxFds \in Nat /\ n \in Nat
  BY ShmAssumption
<1>1. IsFiniteSet(1 .. n) /\ Cardinality(1 .. n) = n
  BY <1>0, FS_Interval
<1>2. IsFiniteSet({p}) /\ Cardinality({p}) = 1
  BY FS_Singleton
<1>3. IsFiniteSet(have) /\ Cardinality(have) = n
  BY <1>0, <1>1, PairsCount
<1>4. <<p, 0>> \notin have
  BY <1>0
<1>5. CASE b
  <2>1. OwnRefs(p, n, b) = have \cup {<<p, 0>>}
    BY <1>0, <1>5 DEF OwnRefs
  <2> HIDE DEF have
  <2>2. IsFiniteSet(have \cup {<<p, 0>>}) /\ Cardinality(have \cup {<<p, 0>>}) = n + 1
    BY <1>3, <1>4, FS_AddElement
  <2> QED  BY <1>5, <2>1, <2>2 DEF Take
<1>6. CASE ~b
  <2>1. ASSUME NEW k \in 0 .. MaxFds
        PROVE  (IF k = 0 THEN b ELSE k <= n) <=> k \in 1 .. n
    BY <1>0, <1>6
  <2>2. OwnRefs(p, n, b) = {x \in {p} \X (0 .. MaxFds) : x[2] \in 1 .. n}
    BY <2>1 DEF OwnRefs
  <2>3. 1 .. n \subseteq 0 .. MaxFds
    BY <1>0
  <2>4. OwnRefs(p, n, b) = have
    BY <2>2, <2>3
  <2> QED  BY <1>0, <1>3, <1>6, <2>4 DEF Take
<1> QED  BY <1>5, <1>6

\* When one process changes, the references change by what is its own.
LEMMA RefSetChange ==
  ASSUME NEW p \in Procs,
         NEW f \in [Procs -> 0 .. MaxFds], NEW g \in [Procs -> BOOLEAN],
         NEW f2 \in [Procs -> 0 .. MaxFds], NEW g2 \in [Procs -> BOOLEAN],
         \A q \in Procs \ {p} : f2[q] = f[q] /\ g2[q] = g[q]
  PROVE  /\ Cardinality(RefSet(f, g)) \in Nat /\ Cardinality(RefSet(f2, g2)) \in Nat
         /\ f[p] + Take(g[p]) <= Cardinality(RefSet(f, g))
         /\ Cardinality(RefSet(f2, g2)) + f[p] + Take(g[p])
                = Cardinality(RefSet(f, g)) + f2[p] + Take(g2[p])
<1> DEFINE others == {x \in RefSet(f, g) : x[1] # p}
<1>0. IsFiniteSet(Procs) /\ IsFiniteSet(0 .. MaxFds)
  BY ShmAssumption, FS_Interval
<1>1. IsFiniteSet(Procs \X (0 .. MaxFds))
  BY <1>0, FS_Product
<1>2. others \subseteq Procs \X (0 .. MaxFds)
  BY DEF RefSet
<1>3. IsFiniteSet(others) /\ Cardinality(others) \in Nat
  BY <1>1, <1>2, FS_Subset, FS_CardinalityType
<1>4. RefSet(f, g) = others \cup OwnRefs(p, f[p], g[p])
  BY DEF RefSet, OwnRefs
<1>5. RefSet(f2, g2) = others \cup OwnRefs(p, f2[p], g2[p])
  <2>1. {x \in RefSet(f2, g2) : x[1] # p} = others
    BY DEF RefSet
  <2>2. RefSet(f2, g2) = {x \in RefSet(f2, g2) : x[1] # p} \cup OwnRefs(p, f2[p], g2[p])
    BY DEF RefSet, OwnRefs
  <2> QED  BY <2>1, <2>2
<1>6. /\ f[p] \in 0 .. MaxFds /\ f2[p] \in 0 .. MaxFds
      /\ g[p] \in BOOLEAN /\ g2[p] \in BOOLEAN
  OBVIOUS
<1>7. ASSUME NEW n \in 0 .. MaxFds, NEW b \in BOOLEAN
      PROVE  IsFiniteSet(OwnRefs(p, n, b)) /\ Cardinality(OwnRefs(p, n, b)) = n + Take(b)
  BY OwnCount
<1>8. ASSUME NEW n, NEW b
      PROVE  others \cap OwnRefs(p, n, b) = {}
  BY DEF OwnRefs
<1>9. Take(g[p]) \in Nat /\ Take(g2[p]) \in Nat
  BY DEF Take
<1> HIDE DEF others
<1>10. Cardinality(RefSet(f, g)) = Cardinality(others) + f[p] + Take(g[p])
  <2>1. /\ IsFiniteSet(OwnRefs(p, f[p], g[p])) /\ Cardinality(OwnRefs(p, f[p], g[p])) = f[p] + Take(g[p])
        /\ others \cap OwnRefs(p, f[p], g[p]) = {}
    BY <1>6, <1>7, <1>8
  <2>2. Cardinality(RefSet(f, g)) = Cardinality(others) + Cardinality(OwnRefs(p, f[p], g[p]))
    BY <1>3, <1>4, <2>1, ApartCount
  <2> QED  BY <1>3, <1>6, <1>9, <2>1, <2>2, ShmAssumption
<1>11. Cardinality(RefSet(f2, g2)) = Cardinality(others) + f2[p] + Take(g2[p])
  <2>1. /\ IsFiniteSet(OwnRefs(p, f2[p], g2[p])) /\ Cardinality(OwnRefs(p, f2[p], g2[p])) = f2[p] + Take(g2[p])
        /\ others \cap OwnRefs(p, f2[p], g2[p]) = {}
    BY <1>6, <1>7, <1>8
  <2>2. Cardinality(RefSet(f2, g2)) = Cardinality(others) + Cardinality(OwnRefs(p, f2[p], g2[p]))
    BY <1>3, <1>5, <2>1, ApartCount
  <2> QED  BY <1>3, <1>6, <1>9, <2>1, <2>2, ShmAssumption
<1> QED  BY <1>3, <1>6, <1>9, <1>10, <1>11, ShmAssumption

Own(p, o) == fds[p][o] + Take(Taking(p, o))
Maps(p, o) == Take(o \in maps[p])

\* Everybody but p stays where they are.
Alone(p) ==
    \A q \in Procs \ {p} :
        /\ fds'[q] = fds[q] /\ maps'[q] = maps[q] /\ pte'[q] = pte[q]
        /\ pc'[q] = pc[q] /\ obj'[q] = obj[q]

\* The same for the references of an object.
LEMMA FdRefsChange ==
  ASSUME Types, Types', NEW p \in Procs, NEW o \in Objs, Alone(p)
  PROVE  /\ Cardinality(FdRefs(o)) \in Nat /\ Cardinality(FdRefs(o))' \in Nat
         /\ Own(p, o) \in Nat /\ Own(p, o)' \in Nat
         /\ Own(p, o) <= Cardinality(FdRefs(o))
         /\ Cardinality(FdRefs(o))' + Own(p, o) = Cardinality(FdRefs(o)) + Own(p, o)'
<1> DEFINE f == [q \in Procs |-> fds[q][o]]
           g == [q \in Procs |-> Taking(q, o)]
           f2 == [q \in Procs |-> fds'[q][o]]
           g2 == [q \in Procs |-> Taking(q, o)']
<1>1. f \in [Procs -> 0 .. MaxFds] /\ f2 \in [Procs -> 0 .. MaxFds]
  BY DEF Types, ProcTypes
<1>2. g \in [Procs -> BOOLEAN] /\ g2 \in [Procs -> BOOLEAN]
  BY DEF Taking
<1>3. \A q \in Procs \ {p} : f2[q] = f[q] /\ g2[q] = g[q]
  BY DEF Alone, Taking
<1>4. FdRefs(o) = RefSet(f, g)
  BY DEF FdRefs, RefSet
<1>5. FdRefs(o)' = RefSet(f2, g2)
  BY DEF FdRefs, RefSet
<1>6. Own(p, o) = f[p] + Take(g[p]) /\ Own(p, o)' = f2[p] + Take(g2[p])
  BY DEF Own, Take
<1>7. Take(g[p]) \in Nat /\ Take(g2[p]) \in Nat /\ f[p] \in Nat /\ f2[p] \in Nat
  BY <1>1, ShmAssumption DEF Take
<1> HIDE DEF f, g, f2, g2
<1> QED  BY <1>1, <1>2, <1>3, <1>4, <1>5, <1>6, <1>7, RefSetChange

\* The same for the mappings of an object.
LEMMA MappersChange ==
  ASSUME Types, Types', NEW p \in Procs, NEW o \in Objs, Alone(p)
  PROVE  /\ Cardinality(Mappers(o)) \in Nat /\ Cardinality(Mappers(o))' \in Nat
         /\ Maps(p, o) \in Nat /\ Maps(p, o)' \in Nat
         /\ Maps(p, o) <= Cardinality(Mappers(o))
         /\ Cardinality(Mappers(o))' + Maps(p, o) = Cardinality(Mappers(o)) + Maps(p, o)'
<1> DEFINE rest == Mappers(o) \ {p}
<1>1. IsFiniteSet(Mappers(o)) /\ IsFiniteSet(Mappers(o)')
  BY ShmAssumption, FS_Subset DEF Mappers
<1>2. IsFiniteSet(rest) /\ Cardinality(rest) \in Nat /\ p \notin rest
  BY <1>1, FS_RemoveElement, FS_CardinalityType
<1>3. Cardinality(Mappers(o)) = Cardinality(rest) + Maps(p, o)
  <2>1. Mappers(o) = IF o \in maps[p] THEN rest \cup {p} ELSE rest
    BY DEF Mappers
  <2> HIDE DEF rest
  <2>2. Cardinality(rest \cup {p}) = Cardinality(rest) + 1
    BY <1>2, FS_AddElement
  <2> QED  BY <1>2, <2>1, <2>2 DEF Maps, Take
<1>4. Cardinality(Mappers(o))' = Cardinality(rest) + Maps(p, o)'
  <2>1. Mappers(o)' = IF o \in maps'[p] THEN rest \cup {p} ELSE rest
    BY DEF Mappers, Alone
  <2> HIDE DEF rest
  <2>2. Cardinality(rest \cup {p}) = Cardinality(rest) + 1
    BY <1>2, FS_AddElement
  <2> QED  BY <1>2, <2>1, <2>2 DEF Maps, Take
<1>5. Maps(p, o) \in Nat /\ Maps(p, o)' \in Nat
  BY DEF Maps, Take
<1> HIDE DEF rest
<1> QED  BY <1>2, <1>3, <1>4, <1>5

\* A process that may have one more descriptor has fewer than MAX_FDS of each object.
LEMMA HeldMore ==
  ASSUME Types, NEW p \in Procs, NEW o \in Objs, Cardinality(Held(p)) < MaxFds
  PROVE  fds[p][o] + 1 \in 0 .. MaxFds
<1> DEFINE mine == {o} \X (1 .. fds[p][o])
<1>1. fds[p][o] \in 0 .. MaxFds /\ MaxFds \in Nat /\ fds[p][o] \in Nat
  BY ShmAssumption DEF Types, ProcTypes
<1>2. PICK n \in Nat : fds[p][o] = n
  BY <1>1
<1>3. IsFiniteSet(1 .. n) /\ Cardinality(1 .. n) = n
  BY FS_Interval
<1>4. Cardinality(mine) = fds[p][o]
  BY <1>2, <1>3, PairsCount
<1>5. IsFiniteSet(Held(p)) /\ Cardinality(Held(p)) \in Nat
  <2>1. IsFiniteSet(Objs) /\ IsFiniteSet(1 .. MaxFds)
    BY <1>1, ShmAssumption, FS_Interval DEF Objs
  <2>2. IsFiniteSet(Objs \X (1 .. MaxFds))
    BY <2>1, FS_Product
  <2> QED  BY <2>2, FS_Subset, FS_CardinalityType DEF Held
<1>6. mine \subseteq Held(p)
  BY <1>1 DEF Held
<1>7. Cardinality(mine) <= Cardinality(Held(p))
  BY <1>5, <1>6, FS_Subset
<1> QED  BY <1>1, <1>4, <1>5, <1>7

-----------------------------------------------------------------------------
(* What a step does to the objects and to one process, and that it keeps   *)
(* the invariant.                                                          *)

\* A counter follows what a process has: never above it, and exactly.
CountStep(n, w, n2, w2) ==
    /\ n2 = 0 \/ n2 + w <= n + w2
    /\ ~Opened /\ w <= n => n2 + w = n + w2

RefsFollow(p) ==
    \A o \in Objs :
        /\ CountStep(fd_refs[o], Own(p, o), fd_refs'[o], Own(p, o)')
        /\ CountStep(map_refs[o], Maps(p, o), map_refs'[o], Maps(p, o)')

\* A process has nothing to do with an object.
Nothing(p, o) == fds[p][o] = 0 /\ o \notin maps[p] /\ ~Taking(p, o) /\ ~Mmapping(p, o)

\* An object that is new and of another process stays so.
Leaves(p) ==
    \A o \in Objs :
        used[o] /\ fd_refs[o] = 0 /\ map_refs[o] = 0 /\ name[o] = NoName /\ Nothing(p, o)
            => used'[o] /\ Nothing(p, o)'

\* Who goes to map an object has it, or made it.
Comes(p) ==
    \A o \in Objs : Mmapping(p, o)' => (fds'[p][o] > 0 \/ (used'[o] /\ New(p, o)'))

\* A step of p.
Step(p) ==
    /\ UNCHANGED calls
    /\ Alone(p)
    /\ Types' /\ FreeEmpty' /\ UsedHeld' /\ RefsFollow(p)
    /\ ProcOk(p)'
    /\ ~Opened => NoNames' /\ Comes(p) /\ Leaves(p)

\* A count that follows stays a count.
LEMMA CountsFollow ==
  ASSUME NEW n \in Nat, NEW n2 \in Nat, NEW w \in Nat, NEW w2 \in Nat,
         NEW c \in Nat, NEW c2 \in Nat,
         Counts(n, c), CountStep(n, w, n2, w2), w <= c, c2 + w = c + w2
  PROVE  n2 <= c2 /\ (~Opened => n2 = c2)
BY DEF Counts, CountStep

\* Who has a descriptor of an object, or maps it, is counted.
HasCounted ==
    Types /\ CountsOk /\ ~Opened => \A p \in Procs, o \in Objs :
        /\ fds[p][o] > 0 \/ Taking(p, o) => fd_refs[o] > 0
        /\ o \in maps[p] => map_refs[o] > 0
\* What a process has open or mapped is counted, once the counts are right and nothing is half opened.
LEMMA HasIsCounted == HasCounted
<1> SUFFICES ASSUME Types, CountsOk, ~Opened, NEW p \in Procs, NEW o \in Objs
             PROVE  /\ fds[p][o] > 0 \/ Taking(p, o) => fd_refs[o] > 0
                    /\ o \in maps[p] => map_refs[o] > 0
  BY DEF HasCounted
<1>1. /\ fd_refs[o] = Cardinality(FdRefs(o)) /\ fd_refs[o] \in Nat
      /\ map_refs[o] = Cardinality(Mappers(o)) /\ map_refs[o] \in Nat
  BY DEF CountsOk, Counts, Types, ObjTypes
<1>2. IsFiniteSet(Procs) /\ IsFiniteSet(0 .. MaxFds) /\ MaxFds \in Nat
  BY ShmAssumption, FS_Interval
<1>3. IsFiniteSet(FdRefs(o))
  <2>1. IsFiniteSet(Procs \X (0 .. MaxFds))
    BY <1>2, FS_Product
  <2> QED  BY <2>1, FS_Subset DEF FdRefs
<1>4. IsFiniteSet(Mappers(o))
  BY <1>2, FS_Subset DEF Mappers
<1>5. ASSUME fds[p][o] > 0  PROVE  <<p, 1>> \in FdRefs(o)
  BY <1>2, <1>5 DEF FdRefs, Types, ProcTypes
<1>6. ASSUME Taking(p, o)  PROVE  <<p, 0>> \in FdRefs(o)
  BY <1>2, <1>6 DEF FdRefs
<1>7. ASSUME o \in maps[p]  PROVE  p \in Mappers(o)
  BY <1>7 DEF Mappers
<1>8. FdRefs(o) # {} => Cardinality(FdRefs(o)) # 0
  BY <1>3, FS_EmptySet
<1>9. Mappers(o) # {} => Cardinality(Mappers(o)) # 0
  BY <1>4, FS_EmptySet
<1> QED  BY <1>1, <1>5, <1>6, <1>7, <1>8, <1>9

\* A step of a process keeps the invariant.
LEMMA StepKeeps ==
  ASSUME ShmInv, NEW p \in Procs, Step(p)
  PROVE  ShmInv'
<1>1. Types /\ Types' /\ Alone(p) /\ UNCHANGED calls /\ Opened' = Opened /\ FreeEmpty'
  BY DEF ShmInv, Step, Opened
<1>2. CountsOk'
  <2> SUFFICES ASSUME NEW o \in Objs
               PROVE  /\ Counts(fd_refs[o], Cardinality(FdRefs(o)))'
                      /\ Counts(map_refs[o], Cardinality(Mappers(o)))'
    BY DEF CountsOk
  <2>1. /\ fd_refs[o] \in Nat /\ fd_refs'[o] \in Nat
        /\ map_refs[o] \in Nat /\ map_refs'[o] \in Nat
    BY <1>1 DEF Types, ObjTypes
  <2>2. Counts(fd_refs[o], Cardinality(FdRefs(o))) /\ Counts(map_refs[o], Cardinality(Mappers(o)))
    BY DEF ShmInv, CountsOk
  <2>3. /\ CountStep(fd_refs[o], Own(p, o), fd_refs'[o], Own(p, o)')
        /\ CountStep(map_refs[o], Maps(p, o), map_refs'[o], Maps(p, o)')
    BY DEF Step, RefsFollow
  <2>4. fd_refs'[o] <= Cardinality(FdRefs(o))' /\ (~Opened => fd_refs'[o] = Cardinality(FdRefs(o))')
    <3>1. /\ Cardinality(FdRefs(o)) \in Nat /\ Cardinality(FdRefs(o))' \in Nat
          /\ Own(p, o) \in Nat /\ Own(p, o)' \in Nat
          /\ Own(p, o) <= Cardinality(FdRefs(o))
          /\ Cardinality(FdRefs(o))' + Own(p, o) = Cardinality(FdRefs(o)) + Own(p, o)'
      BY <1>1, FdRefsChange
    <3> DEFINE c == Cardinality(FdRefs(o))
               c2 == Cardinality(FdRefs(o))'
               w == Own(p, o)
               w2 == Own(p, o)'
    <3>2. /\ c \in Nat /\ c2 \in Nat /\ w \in Nat /\ w2 \in Nat /\ w <= c /\ c2 + w = c + w2
          /\ Counts(fd_refs[o], c) /\ CountStep(fd_refs[o], w, fd_refs'[o], w2)
      BY <2>2, <2>3, <3>1
    <3> HIDE DEF c, c2, w, w2
    <3>3. fd_refs'[o] <= c2 /\ (~Opened => fd_refs'[o] = c2)
      BY <2>1, <3>2, CountsFollow
    <3> QED  BY <3>3 DEF c2
  <2>5. map_refs'[o] <= Cardinality(Mappers(o))' /\ (~Opened => map_refs'[o] = Cardinality(Mappers(o))')
    <3>1. /\ Cardinality(Mappers(o)) \in Nat /\ Cardinality(Mappers(o))' \in Nat
          /\ Maps(p, o) \in Nat /\ Maps(p, o)' \in Nat
          /\ Maps(p, o) <= Cardinality(Mappers(o))
          /\ Cardinality(Mappers(o))' + Maps(p, o) = Cardinality(Mappers(o)) + Maps(p, o)'
      BY <1>1, MappersChange
    <3> DEFINE c == Cardinality(Mappers(o))
               c2 == Cardinality(Mappers(o))'
               w == Maps(p, o)
               w2 == Maps(p, o)'
    <3>2. /\ c \in Nat /\ c2 \in Nat /\ w \in Nat /\ w2 \in Nat /\ w <= c /\ c2 + w = c + w2
          /\ Counts(map_refs[o], c) /\ CountStep(map_refs[o], w, map_refs'[o], w2)
      BY <2>2, <2>3, <3>1
    <3> HIDE DEF c, c2, w, w2
    <3>3. map_refs'[o] <= c2 /\ (~Opened => map_refs'[o] = c2)
      BY <2>1, <3>2, CountsFollow
    <3> QED  BY <3>3 DEF c2
  <2> QED  BY <1>1, <2>4, <2>5 DEF Counts
<1>3. ASSUME NEW q \in Procs  PROVE  ProcOk(q)'
  <2>1. CASE q = p
    BY <2>1 DEF Step
  <2>2. CASE q # p
    BY <1>1, <2>2 DEF ProcOk, ShmInv, Alone, Opened
  <2> QED  BY <2>1, <2>2
<1>4. ASSUME ~Opened, NEW q \in Procs  PROVE  MmapHolds(q)'
  <2> SUFFICES ASSUME NEW o \in Objs, Mmapping(q, o)'
               PROVE  used'[o] /\ (fds'[q][o] > 0 \/ New(q, o)')
    BY DEF MmapHolds
  <2>1. ASSUME fds'[q][o] > 0  PROVE  used'[o]
    <3>1. fd_refs'[o] > 0
      <4>1. HasCounted'
        BY HasIsCounted, PTL
      <4> QED  BY <1>1, <1>2, <1>4, <2>1, <4>1 DEF HasCounted
    <3> QED  BY <1>1, <3>1 DEF FreeEmpty
  <2>2. CASE q = p
    BY <1>4, <2>1, <2>2 DEF Step, Comes
  <2>3. CASE q # p
    <3>1. Mmapping(q, o) /\ fds'[q][o] = fds[q][o]
      BY <1>1, <2>3 DEF Alone, Mmapping
    <3>2. used[o] /\ (fds[q][o] > 0 \/ New(q, o))
      BY <1>4, <3>1 DEF ShmInv, MmapHolds
    <3>3. CASE fds[q][o] > 0
      BY <2>1, <3>1, <3>3
    <3>4. CASE New(q, o)
      <4>1. fd_refs[o] = 0 /\ map_refs[o] = 0 /\ ~Mmapping(p, o) /\ name[o] = NoName
        BY <1>4, <2>3, <3>4 DEF New, ShmInv, NoNames
      <4>2. Nothing(p, o)
        <5>1. ~(fds[p][o] > 0) /\ ~Taking(p, o) /\ o \notin maps[p]
          BY <1>1, <1>4, <4>1, HasIsCounted DEF HasCounted, ShmInv
        <5>2. fds[p][o] \in Nat
          BY <1>1, ShmAssumption DEF Types, ProcTypes
        <5> QED  BY <4>1, <5>1, <5>2 DEF Nothing
      <4>3. used'[o] /\ Nothing(p, o)'
        BY <1>4, <3>2, <4>1, <4>2 DEF Step, Leaves
      <4>4. Own(p, o) = 0 /\ Own(p, o)' = 0 /\ Maps(p, o) = 0 /\ Maps(p, o)' = 0
        BY <4>2, <4>3 DEF Nothing, Own, Maps, Take
      <4>5. /\ CountStep(0, 0, fd_refs'[o], 0)
            /\ CountStep(0, 0, map_refs'[o], 0)
        BY <4>1, <4>4 DEF Step, RefsFollow
      <4>6. fd_refs'[o] = 0 /\ map_refs'[o] = 0
        BY <1>1, <1>4, <4>5 DEF CountStep, Types, ObjTypes
      <4>7. \A r \in Procs \ {q} : ~Mmapping(r, o)'
        BY <1>1, <3>4, <4>3 DEF New, Nothing, Mmapping, Alone
      <4> QED  BY <4>3, <4>6, <4>7 DEF New
    <3> QED  BY <3>2, <3>3, <3>4
  <2> QED  BY <2>2, <2>3
<1> QED  BY <1>1, <1>2, <1>3, <1>4 DEF ShmInv, Step

-----------------------------------------------------------------------------
(* What the functions under SHM do to the objects.                         *)

\* Of T the objects without a reference and without a name go, with their page.
Freeing(T) ==
    /\ ObjTypes' /\ FreeEmpty'
    /\ \A o \in Objs :
        /\ used'[o] <=> used[o] /\ ~(o \in T /\ fd_refs'[o] = 0 /\ map_refs'[o] = 0
                                    /\ name'[o] = NoName)
        /\ page'[o] = IF used'[o] THEN page[o] ELSE NoFrame

\* What maybe_free does, if it is given the objects that may have gone idle.
LEMMA MaybeFree ==
  ASSUME ObjTypes, FreeEmpty, NEW T, NEW f \in [Objs -> Nat], NEW m \in [Objs -> Nat],
         NEW nm \in [Objs -> Names \cup {NoName}],
         \A o \in Objs : ~used[o] => f[o] = 0 /\ m[o] = 0 /\ nm[o] = NoName,
         T \subseteq Objs, maybe_free(T, f, m, nm)
  PROVE  fd_refs' = f /\ map_refs' = m /\ name' = nm /\ Freeing(T)
<1> DEFINE gone == Gone(T, f, m, nm)
<1>1. /\ used' = [o \in Objs |-> used[o] /\ o \notin gone]
      /\ fd_refs' = f /\ map_refs' = m /\ name' = nm
      /\ size' = [o \in Objs |-> IF o \in gone THEN 0 ELSE size[o]]
      /\ page' = [o \in Objs |-> IF o \in gone THEN NoFrame ELSE page[o]]
  BY DEF maybe_free
<1>2. \A o \in Objs : o \in gone <=>
          o \in T /\ used[o] /\ f[o] = 0 /\ m[o] = 0 /\ nm[o] = NoName
  BY DEF Gone
<1> HIDE DEF gone
<1>3. ObjTypes'
  BY <1>1 DEF ObjTypes
<1>4. FreeEmpty'
  BY <1>1, <1>2 DEF FreeEmpty, ObjTypes
<1>5. ASSUME NEW o \in Objs
      PROVE  /\ used'[o] <=> used[o] /\ ~(o \in T /\ f[o] = 0 /\ m[o] = 0 /\ nm[o] = NoName)
             /\ page'[o] = IF used'[o] THEN page[o] ELSE NoFrame
  BY <1>1, <1>2 DEF FreeEmpty, ObjTypes
<1> QED  BY <1>1, <1>3, <1>4, <1>5 DEF Freeing

\* A counter of an object that is used goes up by one, or down to 0 at least.
Up(n, o) == IF used[o] THEN n + 1 ELSE n
Down(n) == IF n = 0 THEN 0 ELSE n - 1

\* A reference taken or dropped moves the count as Plus says.
LEMMA PlusIs ==
  ASSUME ObjTypes, FreeEmpty, NEW refs \in [Objs -> Nat], NEW o \in Objs,
         \A x \in Objs : ~used[x] => refs[x] = 0
  PROVE  /\ Plus(refs, o, 1) \in [Objs -> Nat]
         /\ Plus(refs, o, -1) \in [Objs -> Nat]
         /\ Plus(refs, o, 1)[o] = Up(refs[o], o)
         /\ Plus(refs, o, -1)[o] = Down(refs[o])
         /\ \A x \in Objs \ {o} : /\ Plus(refs, o, 1)[x] = refs[x]
                                 /\ Plus(refs, o, -1)[x] = refs[x]
         /\ \A x \in Objs : ~used[x] => Plus(refs, o, 1)[x] = 0 /\ Plus(refs, o, -1)[x] = 0
<1>1. refs[o] \in Nat /\ refs[o] + 1 \in Nat /\ (refs[o] # 0 => refs[o] - 1 \in Nat)
  OBVIOUS
<1>2. Plus(refs, o, 1) = [refs EXCEPT ![o] = Up(refs[o], o)]
  <2>1. (IF ~used[o] THEN refs[o] ELSE IF refs[o] + 1 < 0 THEN 0 ELSE refs[o] + 1)
            = Up(refs[o], o)
    BY <1>1 DEF Up
  <2> QED  BY <2>1 DEF Plus
<1>3. Plus(refs, o, -1) = [refs EXCEPT ![o] = Down(refs[o])]
  <2>1. (IF ~used[o] THEN refs[o] ELSE IF refs[o] + (-1) < 0 THEN 0 ELSE refs[o] + (-1))
            = Down(refs[o])
    BY <1>1 DEF Down
  <2> QED  BY <2>1 DEF Plus
<1>4. Up(refs[o], o) \in Nat /\ Down(refs[o]) \in Nat
  BY <1>1 DEF Up, Down
<1>5. ~used[o] => Up(refs[o], o) = 0 /\ Down(refs[o]) = 0
  BY DEF Up, Down
<1> QED  BY <1>2, <1>3, <1>4, <1>5

\* fd_ref and map_ref.
LEMMA FdUp ==
  ASSUME ObjTypes, FreeEmpty, NEW o \in Objs, fd_ref(o, 1)
  PROVE  /\ Freeing({}) /\ map_refs' = map_refs /\ name' = name
         /\ fd_refs'[o] = Up(fd_refs[o], o) /\ \A x \in Objs \ {o} : fd_refs'[x] = fd_refs[x]
<1>1. maybe_free({}, Plus(fd_refs, o, 1), map_refs, name)
  BY DEF fd_ref
<1> DEFINE n == Plus(fd_refs, o, 1)
<1>2. fd_refs \in [Objs -> Nat] /\ \A x \in Objs : ~used[x] => fd_refs[x] = 0
  BY DEF ObjTypes, FreeEmpty
<1>3. /\ n \in [Objs -> Nat] /\ n[o] = Up(fd_refs[o], o)
      /\ \A x \in Objs \ {o} : n[x] = fd_refs[x]
      /\ \A x \in Objs : ~used[x] => n[x] = 0
  BY <1>2, PlusIs
<1> HIDE DEF n
<1>4. maybe_free({}, n, map_refs, name)
  BY <1>1 DEF n
<1>4a. /\ map_refs \in [Objs -> Nat] /\ name \in [Objs -> Names \cup {NoName}] /\ {} \subseteq Objs
       /\ \A x \in Objs : ~used[x] => n[x] = 0 /\ map_refs[x] = 0 /\ name[x] = NoName
  BY <1>3 DEF ObjTypes, FreeEmpty
<1>5. fd_refs' = n /\ map_refs' = map_refs /\ name' = name /\ Freeing({})
  BY <1>3, <1>4, <1>4a, MaybeFree
<1> QED  BY <1>3, <1>5

\* One descriptor less, one count less.
LEMMA FdDown ==
  ASSUME ObjTypes, FreeEmpty, NEW o \in Objs, fd_ref(o, -1)
  PROVE  /\ Freeing({o}) /\ map_refs' = map_refs /\ name' = name
         /\ fd_refs'[o] = Down(fd_refs[o]) /\ \A x \in Objs \ {o} : fd_refs'[x] = fd_refs[x]
<1>1. maybe_free({o}, Plus(fd_refs, o, -1), map_refs, name)
  BY DEF fd_ref
<1> DEFINE n == Plus(fd_refs, o, -1)
<1>2. fd_refs \in [Objs -> Nat] /\ \A x \in Objs : ~used[x] => fd_refs[x] = 0
  BY DEF ObjTypes, FreeEmpty
<1>3. /\ n \in [Objs -> Nat] /\ n[o] = Down(fd_refs[o])
      /\ \A x \in Objs \ {o} : n[x] = fd_refs[x]
      /\ \A x \in Objs : ~used[x] => n[x] = 0
  BY <1>2, PlusIs
<1> HIDE DEF n
<1>4. maybe_free({o}, n, map_refs, name)
  BY <1>1 DEF n
<1>4a. /\ map_refs \in [Objs -> Nat] /\ name \in [Objs -> Names \cup {NoName}] /\ {o} \subseteq Objs
       /\ \A x \in Objs : ~used[x] => n[x] = 0 /\ map_refs[x] = 0 /\ name[x] = NoName
  BY <1>3 DEF ObjTypes, FreeEmpty
<1>5. fd_refs' = n /\ map_refs' = map_refs /\ name' = name /\ Freeing({o})
  BY <1>3, <1>4, <1>4a, MaybeFree
<1> QED  BY <1>3, <1>5

\* One mapping more, one count more.
LEMMA MapUp ==
  ASSUME ObjTypes, FreeEmpty, NEW o \in Objs, map_ref(o, 1)
  PROVE  /\ Freeing({}) /\ fd_refs' = fd_refs /\ name' = name
         /\ map_refs'[o] = Up(map_refs[o], o) /\ \A x \in Objs \ {o} : map_refs'[x] = map_refs[x]
<1>1. maybe_free({}, fd_refs, Plus(map_refs, o, 1), name)
  BY DEF map_ref
<1> DEFINE n == Plus(map_refs, o, 1)
<1>2. map_refs \in [Objs -> Nat] /\ \A x \in Objs : ~used[x] => map_refs[x] = 0
  BY DEF ObjTypes, FreeEmpty
<1>3. /\ n \in [Objs -> Nat] /\ n[o] = Up(map_refs[o], o)
      /\ \A x \in Objs \ {o} : n[x] = map_refs[x]
      /\ \A x \in Objs : ~used[x] => n[x] = 0
  BY <1>2, PlusIs
<1> HIDE DEF n
<1>4. maybe_free({}, fd_refs, n, name)
  BY <1>1 DEF n
<1>4a. /\ fd_refs \in [Objs -> Nat] /\ name \in [Objs -> Names \cup {NoName}] /\ {} \subseteq Objs
       /\ \A x \in Objs : ~used[x] => n[x] = 0 /\ fd_refs[x] = 0 /\ name[x] = NoName
  BY <1>3 DEF ObjTypes, FreeEmpty
<1>4b. PICK T \in SUBSET Objs : T = {}
  OBVIOUS
<1>4c. maybe_free(T, fd_refs, n, name)
  BY <1>4, <1>4b
<1>5. map_refs' = n /\ fd_refs' = fd_refs /\ name' = name /\ Freeing({})
  BY <1>3, <1>4a, <1>4b, <1>4c, MaybeFree
<1> QED  BY <1>3, <1>5

\* One mapping less, one count less.
LEMMA MapDown ==
  ASSUME ObjTypes, FreeEmpty, NEW o \in Objs, map_ref(o, -1)
  PROVE  /\ Freeing({o}) /\ fd_refs' = fd_refs /\ name' = name
         /\ map_refs'[o] = Down(map_refs[o]) /\ \A x \in Objs \ {o} : map_refs'[x] = map_refs[x]
<1>1. maybe_free({o}, fd_refs, Plus(map_refs, o, -1), name)
  BY DEF map_ref
<1> DEFINE n == Plus(map_refs, o, -1)
<1>2. map_refs \in [Objs -> Nat] /\ \A x \in Objs : ~used[x] => map_refs[x] = 0
  BY DEF ObjTypes, FreeEmpty
<1>3. /\ n \in [Objs -> Nat] /\ n[o] = Down(map_refs[o])
      /\ \A x \in Objs \ {o} : n[x] = map_refs[x]
      /\ \A x \in Objs : ~used[x] => n[x] = 0
  BY <1>2, PlusIs
<1> HIDE DEF n
<1>4. maybe_free({o}, fd_refs, n, name)
  BY <1>1 DEF n
<1>4a. /\ fd_refs \in [Objs -> Nat] /\ name \in [Objs -> Names \cup {NoName}] /\ {o} \subseteq Objs
       /\ \A x \in Objs : ~used[x] => n[x] = 0 /\ fd_refs[x] = 0 /\ name[x] = NoName
  BY <1>3 DEF ObjTypes, FreeEmpty
<1>5. map_refs' = n /\ fd_refs' = fd_refs /\ name' = name /\ Freeing({o})
  BY <1>3, <1>4, <1>4a, MaybeFree
<1> QED  BY <1>3, <1>5

\* create takes an entry that is free.
LEMMA Created ==
  ASSUME ObjTypes, FreeEmpty, NEW o \in Objs, NEW n \in Names \cup {NoName},
         NEW refs \in Nat, NEW pages \in 0 .. 1, create(o, n, refs, pages)
  PROVE  /\ ObjTypes' /\ FreeEmpty'
         /\ ~used[o] /\ used'[o] /\ fd_refs[o] = 0 /\ map_refs[o] = 0
         /\ fd_refs'[o] = refs /\ map_refs'[o] = 0 /\ name'[o] = n
         /\ page'[o] = NoFrame /\ page[o] = NoFrame
         /\ \A x \in Objs \ {o} :
                /\ used'[x] = used[x] /\ fd_refs'[x] = fd_refs[x] /\ map_refs'[x] = map_refs[x]
                /\ name'[x] = name[x] /\ page'[x] = page[x]
<1>1. ObjTypes'
  BY DEF create, ObjTypes
<1>2. ~used[o] /\ fd_refs[o] = 0 /\ map_refs[o] = 0 /\ page[o] = NoFrame
  BY DEF create, FreeObj, FreeEmpty
<1>3. /\ used'[o] /\ fd_refs'[o] = refs /\ map_refs'[o] = 0 /\ name'[o] = n
      /\ page'[o] = NoFrame
      /\ \A x \in Objs \ {o} :
                /\ used'[x] = used[x] /\ fd_refs'[x] = fd_refs[x] /\ map_refs'[x] = map_refs[x]
                /\ name'[x] = name[x] /\ page'[x] = page[x]
  BY DEF create, ObjTypes
<1>4. FreeEmpty'
  BY <1>3 DEF FreeEmpty
<1> QED  BY <1>1, <1>2, <1>3, <1>4

-----------------------------------------------------------------------------
(* The steps.                                                              *)

\* What an object that is left after maybe_free has.
LEMMA StillHeld ==
  ASSUME ShmInv, NEW T, Freeing(T), NEW o \in Objs, used'[o],
         o \notin T => \/ name'[o] = name[o] /\ fd_refs'[o] >= fd_refs[o]
                          /\ map_refs'[o] >= map_refs[o]
                          /\ \A q \in Procs : Mmapping(q, o) => Mmapping(q, o)'
                       \/ fd_refs'[o] > 0 \/ map_refs'[o] > 0
  PROVE  \/ name'[o] # NoName \/ fd_refs'[o] > 0 \/ map_refs'[o] > 0
         \/ \E q \in Procs : Mmapping(q, o)'
<1>1. /\ fd_refs[o] \in Nat /\ map_refs[o] \in Nat /\ fd_refs'[o] \in Nat /\ map_refs'[o] \in Nat
      /\ used[o] /\ (o \in T => ~(fd_refs'[o] = 0 /\ map_refs'[o] = 0 /\ name'[o] = NoName))
  BY DEF ShmInv, Types, ObjTypes, Freeing
<1>2. CASE o \in T
  BY <1>1, <1>2
<1>3. CASE o \notin T
  BY <1>1, <1>3 DEF ShmInv, UsedHeld
<1> QED  BY <1>2, <1>3

\* close: a descriptor goes, and with it a count.
LEMMA CloseStep ==
  ASSUME ShmInv, NEW p \in Procs, NEW o \in Objs, close(p, o), UNCHANGED calls
  PROVE  Step(p)
<1>1. ObjTypes /\ ProcTypes /\ FreeEmpty /\ fds[p][o] \in Nat /\ fds[p][o] > 0 /\ MaxFds \in Nat
  BY ShmAssumption DEF ShmInv, Types, ProcTypes, close
<1>2. /\ Freeing({o}) /\ map_refs' = map_refs /\ name' = name
      /\ fd_refs'[o] = Down(fd_refs[o]) /\ \A x \in Objs \ {o} : fd_refs'[x] = fd_refs[x]
  BY <1>1, FdDown DEF close
<1>3. /\ fds' = [fds EXCEPT ![p][o] = fds[p][o] - 1]
      /\ UNCHANGED <<maps, pte, pc, obj>> /\ pc[p] = "user"
  BY DEF close, May
<1>4. ProcTypes' /\ Alone(p)
  BY <1>1, <1>3 DEF ProcTypes, Alone
<1>5. UsedHeld'
  BY <1>1, <1>2, <1>3, StillHeld DEF UsedHeld, Mmapping, ObjTypes
<1>6. RefsFollow(p)
  BY <1>1, <1>2, <1>3 DEF RefsFollow, CountStep, Own, Maps, Taking, Take, Down, ObjTypes, ProcTypes
<1>7. ProcOk(p)'
  BY <1>1, <1>3 DEF ShmInv, ProcOk, Opened
<1>8. ~Opened => NoNames' /\ Comes(p) /\ Leaves(p)
  BY <1>1, <1>2, <1>3 DEF ShmInv, NoNames, Comes, Leaves, Nothing, Mmapping, Taking, Freeing, ProcTypes
<1> QED  BY <1>2, <1>4, <1>5, <1>6, <1>7, <1>8 DEF Step, Types, Freeing

\* dup, fork: a descriptor comes, and with it a count.
LEMMA DupStep ==
  ASSUME ShmInv, NEW p \in Procs, NEW o \in Objs, dup(p, o), UNCHANGED calls
  PROVE  Step(p)
<1>1. /\ ObjTypes /\ ProcTypes /\ FreeEmpty /\ fds[p][o] \in Nat /\ fds[p][o] > 0
      /\ fds[p][o] + 1 \in 0 .. MaxFds
  BY ShmAssumption, HeldMore DEF ShmInv, Types, ProcTypes, dup
<1>2. /\ Freeing({}) /\ map_refs' = map_refs /\ name' = name
      /\ fd_refs'[o] = Up(fd_refs[o], o) /\ \A x \in Objs \ {o} : fd_refs'[x] = fd_refs[x]
  BY <1>1, FdUp DEF dup
<1>3. /\ fds' = [fds EXCEPT ![p][o] = fds[p][o] + 1]
      /\ UNCHANGED <<maps, pte, pc, obj>> /\ pc[p] = "user"
  BY DEF dup, May
<1>4. ProcTypes' /\ Alone(p)
  BY <1>1, <1>3 DEF ProcTypes, Alone
<1>5. UsedHeld'
  BY <1>1, <1>2, <1>3, StillHeld DEF UsedHeld, Mmapping, ObjTypes, Up
<1>6. RefsFollow(p)
  <2> SUFFICES ASSUME NEW x \in Objs
               PROVE  /\ CountStep(fd_refs[x], Own(p, x), fd_refs'[x], Own(p, x)')
                      /\ CountStep(map_refs[x], Maps(p, x), map_refs'[x], Maps(p, x)')
    BY DEF RefsFollow
  <2>1. /\ fd_refs[x] \in Nat /\ fds[p][x] \in Nat /\ (~used[x] => fd_refs[x] = 0)
        /\ map_refs[x] \in Nat
    BY <1>1, ShmAssumption DEF ObjTypes, ProcTypes, FreeEmpty
  <2>2. Own(p, x) = fds[p][x] /\ Own(p, x)' = fds'[p][x] /\ Maps(p, x)' = Maps(p, x)
    BY <1>1, <1>3, <2>1, ShmAssumption DEF Own, Take, Taking, Maps, ProcTypes
  <2>3. fds'[p][x] = IF x = o THEN fds[p][x] + 1 ELSE fds[p][x]
    BY <1>1, <1>3 DEF ProcTypes
  <2>4. Maps(p, x) \in Nat
    BY DEF Maps, Take
  <2>5. CASE x = o
    BY <1>1, <1>2, <2>1, <2>2, <2>3, <2>4, <2>5 DEF CountStep, Up
  <2>6. CASE x # o
    BY <1>1, <1>2, <2>1, <2>2, <2>3, <2>4, <2>6 DEF CountStep
  <2> QED  BY <2>5, <2>6
<1>7. ProcOk(p)'
  BY <1>1, <1>3 DEF ShmInv, ProcOk, Opened
<1>8. ~Opened => NoNames' /\ Comes(p) /\ Leaves(p)
  BY <1>1, <1>2, <1>3 DEF ShmInv, NoNames, Comes, Leaves, Nothing, Mmapping, Taking, Freeing, ProcTypes
<1> QED  BY <1>2, <1>4, <1>5, <1>6, <1>7, <1>8 DEF Step, Types, Freeing

\* shm_unlink: the name goes, the object stays while it is counted.
LEMMA UnlinkStep ==
  ASSUME ShmInv, NEW p \in Procs, NEW n \in Names, unlink(p, n), UNCHANGED calls
  PROVE  Step(p)
<1> DEFINE o == Min(Named(n))
           nm == [name EXCEPT ![o] = NoName]
<1>1. ObjTypes /\ ProcTypes /\ FreeEmpty
  BY DEF ShmInv, Types
<1>2. o \in Objs /\ used[o] /\ name[o] = n
  BY MinNamed DEF unlink
<1>3. maybe_free({o}, fd_refs, map_refs, nm) /\ UNCHANGED <<procVars, pc, obj>>
  BY DEF unlink
<1> HIDE DEF o
<1>3a. /\ fd_refs \in [Objs -> Nat] /\ map_refs \in [Objs -> Nat]
       /\ nm \in [Objs -> Names \cup {NoName}] /\ {o} \subseteq Objs
       /\ \A x \in Objs : ~used[x] => fd_refs[x] = 0 /\ map_refs[x] = 0 /\ nm[x] = NoName
  BY <1>1, <1>2 DEF ObjTypes, FreeEmpty
<1> HIDE DEF nm
<1>4. fd_refs' = fd_refs /\ map_refs' = map_refs /\ name' = nm /\ Freeing({o})
  BY <1>1, <1>3, <1>3a, MaybeFree
<1>4a. \A x \in Objs \ {o} : nm[x] = name[x]
  BY <1>1 DEF nm, ObjTypes
<1>5. ProcTypes' /\ Alone(p)
  BY <1>1, <1>3 DEF ProcTypes, Alone, procVars
<1>6. UsedHeld'
  <2> SUFFICES ASSUME NEW x \in Objs, used'[x]
               PROVE  \/ name'[x] # NoName \/ fd_refs'[x] > 0 \/ map_refs'[x] > 0
                      \/ \E q \in Procs : Mmapping(q, x)'
    BY DEF UsedHeld
  <2>1. fd_refs[x] \in Nat /\ map_refs[x] \in Nat
    BY <1>1 DEF ObjTypes
  <2>2. \A q \in Procs : Mmapping(q, x) => Mmapping(q, x)'
    BY <1>3 DEF Mmapping
  <2> QED  BY <1>4, <1>4a, <2>1, <2>2, StillHeld
<1>7. RefsFollow(p)
  BY <1>1, <1>3, <1>4 DEF RefsFollow, CountStep, Own, Maps, Taking, Take, ObjTypes, ProcTypes, procVars
<1>8. ProcOk(p)'
  BY <1>3 DEF ShmInv, ProcOk, Opened, procVars
<1>9. Opened
  BY <1>2, ShmAssumption DEF ShmInv, NoNames
<1> QED  BY <1>4, <1>5, <1>6, <1>7, <1>8, <1>9 DEF Step, Types, Freeing

\* carve, of munmap and of mmap with MAP_FIXED: a mapping goes, and with it a count.
LEMMA CarveStep ==
  ASSUME ShmInv, NEW p \in Procs, NEW o \in Objs, NEW x \in Objs, NEW l \in {"unmap", "fixed"},
         o \in maps[p], map_ref(o, -1), maps' = [maps EXCEPT ![p] = @ \ {o}],
         UNCHANGED <<fds, pte, calls>>,
         pc' = [pc EXCEPT ![p] = l], obj' = [obj EXCEPT ![p] = x],
         IF l = "unmap" THEN pc[p] = "user" ELSE pc[p] = "mmap" /\ obj[p] = x
  PROVE  Step(p)
<1>1. ObjTypes /\ ProcTypes /\ FreeEmpty
  BY DEF ShmInv, Types
<1>2. /\ Freeing({o}) /\ fd_refs' = fd_refs /\ name' = name
      /\ map_refs'[o] = Down(map_refs[o]) /\ \A y \in Objs \ {o} : map_refs'[y] = map_refs[y]
  BY <1>1, MapDown
<1>3. maps' = [maps EXCEPT ![p] = maps[p] \ {o}] /\ maps'[p] = maps[p] \ {o}
  BY <1>1 DEF ProcTypes
<1>4. ProcTypes' /\ Alone(p)
  <2>1. l \in PCs /\ l # "create"
    BY DEF PCs
  <2> QED  BY <1>1, <1>3, <2>1 DEF ProcTypes, Alone
<1>5. /\ pc'[p] = l /\ obj'[p] = x
      /\ \A q \in Procs \ {p} : pc'[q] = pc[q] /\ obj'[q] = obj[q]
  BY <1>1 DEF ProcTypes
<1>6. \A q \in Procs, y \in Objs : Mmapping(q, y)' <=> Mmapping(q, y)
  BY <1>5 DEF Mmapping
<1>7. UsedHeld'
  BY <1>1, <1>2, <1>6, StillHeld DEF UsedHeld, ObjTypes
<1>8. RefsFollow(p)
  BY <1>1, <1>2, <1>3, <1>5
     DEF RefsFollow, CountStep, Own, Maps, Taking, Take, Down, ObjTypes, ProcTypes
<1>9. "mmap" \in calls /\ (l = "fixed" => x \notin maps[p])
  BY DEF ShmInv, ProcOk
<1>10. ProcOk(p)'
  BY <1>1, <1>3, <1>5, <1>9 DEF ShmInv, ProcOk, ProcTypes, Opened
<1>11. ASSUME ~Opened  PROVE  NoNames' /\ Comes(p) /\ Leaves(p)
  <2>1. NoNames'
    BY <1>2, <1>11 DEF ShmInv, NoNames
  <2>2. Leaves(p)
    BY <1>1, <1>2, <1>3, <1>5 DEF Leaves, Nothing, Mmapping, Taking, Freeing, ProcTypes
  <2>3. Comes(p)
    <3> SUFFICES ASSUME NEW y \in Objs, Mmapping(p, y)'
                 PROVE  fds'[p][y] > 0 \/ (used'[y] /\ New(p, y)')
      BY DEF Comes
    <3>1. Mmapping(p, y) /\ y # o
      BY <1>1, <1>5, <1>6, <1>9 DEF Mmapping
    <3>2. used[y] /\ (fds[p][y] > 0 \/ New(p, y))
      BY <1>11, <3>1 DEF ShmInv, MmapHolds
    <3>3. CASE New(p, y)
      BY <1>2, <1>6, <3>1, <3>2, <3>3 DEF New, Freeing
    <3> QED  BY <3>2, <3>3
  <2> QED  BY <2>1, <2>2, <2>3
<1> QED  BY <1>2, <1>4, <1>7, <1>8, <1>10, <1>11 DEF Step, Types, Freeing

\* munmap up to the point where SHM is let go.
LEMMA MunmapStep ==
  ASSUME ShmInv, NEW p \in Procs, NEW o \in Objs, munmap(p, o), UNCHANGED calls
  PROVE  Step(p)
<1>1. /\ pc[p] = "user" /\ o \in maps[p] /\ map_ref(o, -1)
      /\ maps' = [maps EXCEPT ![p] = @ \ {o}] /\ UNCHANGED <<fds, pte, calls>>
      /\ pc' = [pc EXCEPT ![p] = "unmap"] /\ obj' = [obj EXCEPT ![p] = o]
  BY DEF munmap, May, GotoWith
<1> QED  BY <1>1, CarveStep

\* mmap with MAP_FIXED up to the same point.
LEMMA MmapOverStep ==
  ASSUME ShmInv, NEW p \in Procs, NEW x \in Objs, mmap_over(p, x), UNCHANGED calls
  PROVE  Step(p)
<1>1. ProcTypes /\ pc[p] = "mmap"
  BY DEF ShmInv, Types, mmap_over
<1>2. PICK o \in Objs : obj[p] = o
  BY <1>1 DEF ProcTypes
<1>3. /\ x \in maps[p] /\ map_ref(x, -1)
      /\ maps' = [maps EXCEPT ![p] = @ \ {x}] /\ UNCHANGED <<fds, pte, calls>>
      /\ pc' = [pc EXCEPT ![p] = "fixed"] /\ obj' = [obj EXCEPT ![p] = o]
  BY <1>2 DEF mmap_over, Goto, GotoWith
<1> QED  BY <1>1, <1>2, <1>3, CarveStep

\* Those that a process makes from user mode to user mode.
LEMMA SameStep ==
  ASSUME ShmInv, NEW p \in Procs, UNCHANGED <<used, fd_refs, map_refs, name>>,
         ObjTypes', FreeEmpty', UNCHANGED <<fds, maps, pc, obj, calls>>,
         Alone(p), ProcTypes', ProcOk(p)', pc[p] = "user"
  PROVE  Step(p)
<1>1. ObjTypes /\ ProcTypes
  BY DEF ShmInv, Types
<1>2. UsedHeld'
  BY DEF ShmInv, UsedHeld, Mmapping
<1>3. RefsFollow(p)
  BY <1>1 DEF RefsFollow, CountStep, Own, Maps, Taking, Take, ObjTypes, ProcTypes
<1>4. ~Opened => NoNames' /\ Comes(p) /\ Leaves(p)
  BY DEF ShmInv, NoNames, Comes, Leaves, Nothing, Mmapping, Taking
<1> QED  BY <1>2, <1>3, <1>4 DEF Step, Types

\* ftruncate: the size changes and, where it shrinks, a page goes.
LEMMA FtruncateStep ==
  ASSUME ShmInv, NEW p \in Procs, NEW o \in Objs, NEW pages \in 0 .. 1,
         ftruncate(p, o, pages), UNCHANGED calls
  PROVE  Step(p)
<1>1. ObjTypes /\ ProcTypes /\ FreeEmpty
  BY DEF ShmInv, Types
<1>2. /\ UNCHANGED <<used, fd_refs, map_refs, name, fds, maps, pte, pc, obj>> /\ pc[p] = "user"
      /\ size' = [size EXCEPT ![o] = pages]
      /\ page' = [page EXCEPT ![o] = IF pages = 0 THEN NoFrame ELSE page[o]]
  BY DEF ftruncate, truncate, May, procVars
<1>3. ObjTypes' /\ FreeEmpty'
  BY <1>1, <1>2 DEF ObjTypes, FreeEmpty
<1>4. ProcTypes' /\ ProcOk(p)' /\ Alone(p)
  BY <1>1, <1>2 DEF ShmInv, ProcTypes, ProcOk, Opened, Alone
<1> QED  BY <1>2, <1>3, <1>4, SameStep

\* write: the page that is written may come into being.
LEMMA WriteStep ==
  ASSUME ShmInv, NEW p \in Procs, NEW o \in Objs, write(p, o), UNCHANGED calls
  PROVE  Step(p)
<1>1. ObjTypes /\ ProcTypes /\ FreeEmpty
  BY DEF ShmInv, Types
<1>2. /\ UNCHANGED <<used, fd_refs, map_refs, name, fds, maps, pte, pc, obj>> /\ pc[p] = "user"
      /\ used[o] /\ size' = [size EXCEPT ![o] = 1]
  BY DEF write, May, procVars
<1>3. PICK f \in Frames \cup {NoFrame} : page' = [page EXCEPT ![o] = f]
  BY <1>1 DEF write, FreeFrames, ObjTypes
<1>4. ObjTypes' /\ FreeEmpty'
  BY <1>1, <1>2, <1>3 DEF ObjTypes, FreeEmpty
<1>5. ProcTypes' /\ ProcOk(p)' /\ Alone(p)
  BY <1>1, <1>2 DEF ShmInv, ProcTypes, ProcOk, Opened, Alone
<1> QED  BY <1>2, <1>4, <1>5, SameStep

\* A page fault maps the page of the object.
LEMMA FaultStep ==
  ASSUME ShmInv, NEW p \in Procs, NEW o \in Objs, fault(p, o), UNCHANGED calls
  PROVE  Step(p)
<1>1. ObjTypes /\ ProcTypes /\ FreeEmpty
  BY DEF ShmInv, Types
<1>2. /\ UNCHANGED <<used, fd_refs, map_refs, name, size, fds, maps, pc, obj>> /\ pc[p] = "user"
      /\ used[o] /\ o \in maps[p]
  BY DEF fault, May
<1>3. PICK f \in Frames \cup {NoFrame} : /\ page' = [page EXCEPT ![o] = f]
                                         /\ pte' = [pte EXCEPT ![p][o] = f]
  BY <1>1 DEF fault, FreeFrames, ObjTypes
<1>4. ObjTypes' /\ FreeEmpty'
  BY <1>1, <1>2, <1>3 DEF ObjTypes, FreeEmpty
<1>5. ProcTypes' /\ Alone(p)
  BY <1>1, <1>2, <1>3 DEF ProcTypes, Alone
<1>6. ProcOk(p)'
  BY <1>1, <1>2, <1>3 DEF ShmInv, ProcTypes, ProcOk, Opened
<1> QED  BY <1>2, <1>4, <1>5, <1>6, SameStep

\* An object made for a descriptor to come, or to be mapped.
LEMMA MakeStep ==
  ASSUME ShmInv, NEW p \in Procs, NEW o \in Objs, NEW n \in Names \cup {NoName},
         NEW refs \in 0 .. 1, NEW pages \in 0 .. 1, NEW l \in {"install", "trunc", "named", "mmap"},
         create(o, n, refs, pages), GotoWith(p, l, o), UNCHANGED procVars, UNCHANGED calls,
         pc[p] \in {"user", "create"},
         l = "mmap" <=> refs = 0, l = "mmap" => "mmap" \in calls /\ o \notin maps[p],
         ~Opened => n = NoName /\ l \in {"install", "mmap"} /\ pc[p] = "user"
  PROVE  Step(p)
<1>1. ObjTypes /\ ProcTypes /\ FreeEmpty /\ refs \in Nat
  BY DEF ShmInv, Types
<1>2. /\ ObjTypes' /\ FreeEmpty'
      /\ ~used[o] /\ used'[o] /\ fd_refs[o] = 0 /\ map_refs[o] = 0
      /\ fd_refs'[o] = refs /\ map_refs'[o] = 0 /\ name'[o] = n
      /\ \A x \in Objs \ {o} :
                /\ used'[x] = used[x] /\ fd_refs'[x] = fd_refs[x] /\ map_refs'[x] = map_refs[x]
                /\ name'[x] = name[x]
  BY <1>1, Created
<1>3. /\ pc' = [pc EXCEPT ![p] = l] /\ obj' = [obj EXCEPT ![p] = o]
      /\ fds' = fds /\ maps' = maps /\ pte' = pte
  BY DEF GotoWith, procVars
<1>4. ProcTypes' /\ Alone(p)
  <2>1. l \in PCs /\ l # "create"
    BY DEF PCs
  <2> QED  BY <1>1, <1>3, <2>1 DEF ProcTypes, Alone
<1>4a. pc'[p] = l /\ obj'[p] = o /\ (\A q \in Procs \ {p} : pc'[q] = pc[q] /\ obj'[q] = obj[q])
  BY <1>1, <1>3 DEF ProcTypes
<1>5. UsedHeld'
  <2> SUFFICES ASSUME NEW x \in Objs, used'[x]
               PROVE  \/ name'[x] # NoName \/ fd_refs'[x] > 0 \/ map_refs'[x] > 0
                      \/ \E q \in Procs : Mmapping(q, x)'
    BY DEF UsedHeld
  <2>1. CASE x = o
    BY <1>2, <1>4a, <2>1 DEF Mmapping
  <2>2. CASE x # o
    BY <1>1, <1>2, <1>4a, <2>2 DEF Mmapping, ShmInv, UsedHeld, ObjTypes
  <2> QED  BY <2>1, <2>2
<1>6. RefsFollow(p)
  <2> SUFFICES ASSUME NEW x \in Objs
               PROVE  /\ CountStep(fd_refs[x], Own(p, x), fd_refs'[x], Own(p, x)')
                      /\ CountStep(map_refs[x], Maps(p, x), map_refs'[x], Maps(p, x)')
    BY DEF RefsFollow
  <2>1. /\ fd_refs[x] \in Nat /\ fds[p][x] \in Nat /\ map_refs[x] \in Nat
    BY <1>1, ShmAssumption DEF ObjTypes, ProcTypes
  <2>2. Own(p, x) = fds[p][x] /\ Maps(p, x)' = Maps(p, x) /\ Maps(p, x) \in Nat
    BY <1>1, <1>3, <2>1 DEF Own, Take, Taking, Maps
  <2>3. Own(p, x)' = fds[p][x] + IF x = o /\ l # "mmap" THEN 1 ELSE 0
    BY <1>3, <1>4a, <2>1 DEF Own, Take, Taking
  <2>4. CASE x = o
    BY <1>1, <1>2, <2>1, <2>2, <2>3, <2>4 DEF CountStep
  <2>5. CASE x # o
    BY <1>1, <1>2, <2>1, <2>2, <2>3, <2>5 DEF CountStep
  <2> QED  BY <2>4, <2>5
<1>7. ProcOk(p)'
  BY <1>1, <1>3, <1>4a DEF ShmInv, ProcOk, Opened
<1>8. ASSUME ~Opened  PROVE  NoNames' /\ Comes(p) /\ Leaves(p)
  <2>1. NoNames'
    BY <1>2, <1>8 DEF ShmInv, NoNames
  <2>2. Comes(p)
    <3> SUFFICES ASSUME NEW x \in Objs, Mmapping(p, x)'
                 PROVE  used'[x] /\ New(p, x)'
      BY DEF Comes
    <3>1. x = o /\ l = "mmap"
      BY <1>4a DEF Mmapping
    <3>2. \A q \in Procs \ {p} : ~Mmapping(q, o)'
      BY <1>2, <1>4a, <1>8 DEF Mmapping, ShmInv, MmapHolds
    <3> QED  BY <1>2, <3>1, <3>2 DEF New
  <2>3. Leaves(p)
    BY <1>2, <1>3, <1>4a DEF Leaves, Nothing, Mmapping, Taking
  <2> QED  BY <2>1, <2>2, <2>3
<1> QED  BY <1>2, <1>4, <1>5, <1>6, <1>7, <1>8 DEF Step, Types

\* memfd_create: a slot that nobody counts gets one descriptor.
LEMMA MemfdStep ==
  ASSUME ShmInv, NEW p \in Procs, memfd(p), UNCHANGED calls
  PROVE  Step(p)
<1>1. PICK o \in Objs : create(o, NoName, 1, 0) /\ GotoWith(p, "install", o)
  BY DEF memfd
<1>2. UNCHANGED procVars /\ pc[p] = "user"
  BY DEF memfd, May
<1> QED  BY <1>1, <1>2, MakeStep

\* A shared mapping of no file: a slot gets one mapping.
LEMMA MmapAnonStep ==
  ASSUME ShmInv, NEW p \in Procs, mmap_anon(p), UNCHANGED calls
  PROVE  Step(p)
<1>1. PICK o \in Objs \ maps[p] : create(o, NoName, 0, 1) /\ GotoWith(p, "mmap", o)
  BY DEF mmap_anon
<1>2. UNCHANGED procVars /\ pc[p] = "user" /\ "mmap" \in calls
  BY DEF mmap_anon, May
<1> QED  BY <1>1, <1>2, MakeStep

\* A step that leaves everything as it is, but for where p is, where it has nothing
\* under way.
LEMMA GotoStep ==
  ASSUME ShmInv, NEW p \in Procs, NEW l \in {"user", "create"}, NEW o \in Objs \cup Names,
         UNCHANGED objVars, UNCHANGED procVars, UNCHANGED calls,
         pc[p] \in {"user", "create"}, GotoWith(p, l, o),
         IF l = "create" THEN o \in Names ELSE o \in Objs,
         l = "create" => Opened
  PROVE  Step(p)
<1>1. ObjTypes /\ ProcTypes
  BY DEF ShmInv, Types
<1>2. /\ pc' = [pc EXCEPT ![p] = l] /\ obj' = [obj EXCEPT ![p] = o]
      /\ fds' = fds /\ maps' = maps /\ pte' = pte
      /\ used' = used /\ fd_refs' = fd_refs /\ map_refs' = map_refs /\ name' = name
      /\ size' = size /\ page' = page
  BY DEF GotoWith, procVars, objVars
<1>3. ObjTypes' /\ FreeEmpty'
  BY <1>1, <1>2 DEF ShmInv, ObjTypes, FreeEmpty
<1>4. ProcTypes' /\ Alone(p)
  <2>1. l \in PCs
    BY DEF PCs
  <2> QED  BY <1>1, <1>2, <2>1 DEF ProcTypes, Alone
<1>5. pc'[p] = l /\ (\A q \in Procs \ {p} : pc'[q] = pc[q] /\ obj'[q] = obj[q])
  BY <1>1, <1>2 DEF ProcTypes
<1>6. UsedHeld'
  BY <1>2, <1>5 DEF ShmInv, UsedHeld, Mmapping
<1>7. RefsFollow(p)
  BY <1>1, <1>2, <1>5 DEF RefsFollow, CountStep, Own, Maps, Taking, Take, ObjTypes, ProcTypes
<1>8. ProcOk(p)'
  BY <1>2, <1>5 DEF ShmInv, ProcOk, Opened
<1>9. ~Opened => NoNames' /\ Comes(p) /\ Leaves(p)
  BY <1>2, <1>5 DEF ShmInv, NoNames, Comes, Leaves, Nothing, Mmapping, Taking
<1> QED  BY <1>3, <1>4, <1>6, <1>7, <1>8, <1>9 DEF Step, Types

\* shm_open makes an object with a name and a descriptor.
LEMMA OpenCreateStep ==
  ASSUME ShmInv, NEW p \in Procs, open_create(p), UNCHANGED calls
  PROVE  Step(p)
<1>1. pc[p] = "create" /\ UNCHANGED procVars /\ obj[p] \in Names
  BY DEF open_create, ShmInv, Types, ProcTypes
<1>2. Opened
  BY <1>1 DEF ShmInv, ProcOk
<1>3. CASE \E o \in Objs, l \in {"trunc", "named"} : create(o, obj[p], 1, 0) /\ GotoWith(p, l, o)
  <2>1. PICK o \in Objs, l \in {"trunc", "named"} : create(o, obj[p], 1, 0) /\ GotoWith(p, l, o)
    BY <1>3
  <2> QED  BY <1>1, <1>2, <2>1, MakeStep
<1>4. CASE UNCHANGED objVars /\ Goto(p, "user")
  <2>1. GotoWith(p, "user", Min(Objs)) /\ Min(Objs) \in Objs
    BY <1>4, MinObj DEF Goto
  <2> QED  BY <1>1, <1>4, <2>1, GotoStep
<1> QED  BY <1>3, <1>4 DEF open_create

\* A call that has done with its object.
LEMMA GotoUser ==
  ASSUME ProcTypes, NEW p \in Procs, Goto(p, "user")
  PROVE  /\ pc' = [pc EXCEPT ![p] = "user"] /\ obj' = [obj EXCEPT ![p] = Min(Objs)]
         /\ pc'[p] = "user" /\ obj'[p] \in Objs
         /\ \A q \in Procs \ {p} : pc'[q] = pc[q] /\ obj'[q] = obj[q]
BY MinObj DEF Goto, GotoWith, ProcTypes

\* install_shm, with the descriptor that it makes.
LEMMA InstallDone ==
  ASSUME ShmInv, NEW p \in Procs, NEW l \in {"user", "drop"},
         IF l = "user" THEN pc[p] = "install" ELSE pc[p] = "named",
         Cardinality(Held(p)) < MaxFds, fds' = [fds EXCEPT ![p][obj[p]] = @ + 1],
         UNCHANGED <<objVars, maps, pte>>, Goto(p, l), UNCHANGED calls
  PROVE  Step(p)
<1>1. ObjTypes /\ ProcTypes /\ FreeEmpty
  BY DEF ShmInv, Types
<1>2. PICK o \in Objs : obj[p] = o
  BY <1>1 DEF ProcTypes
<1>3. /\ used' = used /\ fd_refs' = fd_refs /\ map_refs' = map_refs /\ name' = name
      /\ size' = size /\ page' = page /\ maps' = maps /\ pte' = pte
  BY DEF objVars
<1>4. /\ pc' = [pc EXCEPT ![p] = l]
      /\ obj' = [obj EXCEPT ![p] = IF l = "user" THEN Min(Objs) ELSE o]
  BY <1>2 DEF Goto, GotoWith
<1>5. fds[p][o] + 1 \in 0 .. MaxFds /\ fds[p][o] \in Nat
  BY <1>1, HeldMore, ShmAssumption DEF ShmInv, ProcTypes
<1>6. fds' = [fds EXCEPT ![p][o] = fds[p][o] + 1]
  BY <1>2
<1>7. ObjTypes' /\ FreeEmpty'
  BY <1>1, <1>3 DEF ObjTypes, FreeEmpty
<1>8. ProcTypes' /\ Alone(p)
  <2>1. l \in PCs /\ l # "create" /\ Min(Objs) \in Objs
    BY MinObj DEF PCs
  <2>2. \A q \in Procs : IF pc'[q] = "create" THEN obj'[q] \in Names ELSE obj'[q] \in Objs
    BY <1>1, <1>2, <1>4, <2>1 DEF ProcTypes
  <2>3. pc' \in [Procs -> PCs] /\ obj' \in [Procs -> Objs \cup Names]
    BY <1>1, <1>4, <2>1 DEF ProcTypes
  <2>4. fds' \in [Procs -> [Objs -> 0 .. MaxFds]]
    BY <1>1, <1>5, <1>6 DEF ProcTypes
  <2> QED  BY <1>1, <1>3, <1>4, <1>6, <2>2, <2>3, <2>4 DEF ProcTypes, Alone
<1>9. /\ pc'[p] = l /\ (l # "user" => obj'[p] = o)
      /\ \A q \in Procs \ {p} : pc'[q] = pc[q] /\ obj'[q] = obj[q]
  BY <1>1, <1>4 DEF ProcTypes
<1>10. UsedHeld'
  BY <1>3, <1>9 DEF ShmInv, UsedHeld, Mmapping
<1>11. RefsFollow(p)
  <2> SUFFICES ASSUME NEW x \in Objs
               PROVE  /\ CountStep(fd_refs[x], Own(p, x), fd_refs'[x], Own(p, x)')
                      /\ CountStep(map_refs[x], Maps(p, x), map_refs'[x], Maps(p, x)')
    BY DEF RefsFollow
  <2>1. /\ fd_refs[x] \in Nat /\ fds[p][x] \in Nat /\ map_refs[x] \in Nat
    BY <1>1, ShmAssumption DEF ObjTypes, ProcTypes
  <2>2. Own(p, x) = fds[p][x] + IF x = o THEN 1 ELSE 0
    BY <1>2, <2>1 DEF Own, Take, Taking
  <2>3. fds'[p][x] = IF x = o THEN fds[p][x] + 1 ELSE fds[p][x]
    BY <1>1, <1>6 DEF ProcTypes
  <2>4. Own(p, x)' = fds'[p][x] + IF x = o /\ l # "user" THEN 1 ELSE 0
    BY <1>9 DEF Own, Take, Taking
  <2>5. Maps(p, x)' = Maps(p, x) /\ Maps(p, x) \in Nat
    BY <1>3 DEF Maps, Take
  <2>6. l # "user" => Opened
    BY DEF ShmInv, ProcOk
  <2>7. CASE x = o
    BY <1>3, <2>1, <2>2, <2>3, <2>4, <2>5, <2>6, <2>7 DEF CountStep
  <2>8. CASE x # o
    BY <1>3, <2>1, <2>2, <2>3, <2>4, <2>5, <2>8 DEF CountStep
  <2> QED  BY <2>7, <2>8
<1>12. ProcOk(p)'
  BY <1>3, <1>9 DEF ShmInv, ProcOk, Opened
<1>13. ASSUME ~Opened  PROVE  NoNames' /\ Comes(p) /\ Leaves(p)
  <2>1. NoNames' /\ Comes(p)
    BY <1>3, <1>9, <1>13 DEF ShmInv, NoNames, Comes, Mmapping
  <2>2. Leaves(p)
    <3> SUFFICES ASSUME NEW x \in Objs, used[x], Nothing(p, x)
                 PROVE  used'[x] /\ Nothing(p, x)'
      BY DEF Leaves
    <3>1. x # o
      BY <1>2 DEF Nothing, Taking
    <3>2. l = "user"
      BY <1>13 DEF ShmInv, ProcOk
    <3> QED  BY <1>1, <1>3, <1>6, <1>9, <3>1, <3>2 DEF Nothing, Taking, Mmapping, ProcTypes
  <2> QED  BY <2>1, <2>2
<1> QED  BY <1>7, <1>8, <1>10, <1>11, <1>12, <1>13 DEF Step, Types

\* A reference of a descriptor that is taken (open) or given back, and p on its way.
LEMMA RefStep ==
  ASSUME ShmInv, NEW p \in Procs, NEW o \in Objs, NEW x \in Objs,
         NEW l \in {"user", "trunc", "named", "drop"},
         UNCHANGED procVars, UNCHANGED calls, pc' = [pc EXCEPT ![p] = l],
         obj' = [obj EXCEPT ![p] = x], l # "user" => x = o,
         \/ fd_ref(o, 1) /\ used[o] /\ Opened /\ pc[p] = "user" /\ l # "user"
         \/ fd_ref(o, -1) /\ obj[p] = o /\ pc[p] = "install" /\ l = "user"
         \/ fd_ref(o, -1) /\ obj[p] = o /\ pc[p] = "drop" /\ l = "user"
         \/ fd_ref(o, -1) /\ obj[p] = o /\ pc[p] = "named" /\ l = "drop"
  PROVE  Step(p)
<1>1. ObjTypes /\ ProcTypes /\ FreeEmpty
  BY DEF ShmInv, Types
<1>2. PICK T \in SUBSET {o} :
         /\ Freeing(T) /\ map_refs' = map_refs /\ name' = name
         /\ \/ T = {} /\ fd_refs'[o] = Up(fd_refs[o], o)
            \/ T = {o} /\ fd_refs'[o] = Down(fd_refs[o])
         /\ \A y \in Objs \ {o} : fd_refs'[y] = fd_refs[y]
  <2>1. CASE fd_ref(o, 1)
    <3>1. {} \in SUBSET {o}
      OBVIOUS
    <3> QED  BY <1>1, <2>1, <3>1, FdUp
  <2>2. CASE fd_ref(o, -1)
    <3>1. {o} \in SUBSET {o}
      OBVIOUS
    <3> QED  BY <1>1, <2>2, <3>1, FdDown
  <2> QED  BY <2>1, <2>2
<1>2a. fd_refs'[o] = IF pc[p] = "user" THEN fd_refs[o] + 1 ELSE Down(fd_refs[o])
  <2>1. CASE fd_ref(o, 1) /\ used[o] /\ pc[p] = "user"
    BY <1>1, <2>1, FdUp DEF Up
  <2>2. CASE fd_ref(o, -1) /\ pc[p] # "user"
    BY <1>1, <2>2, FdDown
  <2> QED  BY <2>1, <2>2
<1>3. fds' = fds /\ maps' = maps /\ pte' = pte
  BY DEF procVars
<1>4. ProcTypes' /\ Alone(p)
  <2>1. l \in PCs /\ l # "create"
    BY DEF PCs
  <2> QED  BY <1>1, <1>3, <2>1 DEF ProcTypes, Alone
<1>5. /\ pc'[p] = l /\ obj'[p] = x
      /\ \A q \in Procs \ {p} : pc'[q] = pc[q] /\ obj'[q] = obj[q]
  BY <1>1 DEF ProcTypes
<1>6. \A y \in Objs, q \in Procs : Mmapping(q, y)' <=> Mmapping(q, y)
  BY <1>5 DEF Mmapping
<1>7. UsedHeld'
  <2> SUFFICES ASSUME NEW y \in Objs, used'[y]
               PROVE  \/ name'[y] # NoName \/ fd_refs'[y] > 0 \/ map_refs'[y] > 0
                      \/ \E q \in Procs : Mmapping(q, y)'
    BY DEF UsedHeld
  <2>1. fd_refs[y] \in Nat /\ map_refs[y] \in Nat
    BY <1>1 DEF ObjTypes
  <2>2. y \notin T => name'[y] = name[y] /\ fd_refs'[y] >= fd_refs[y] /\ map_refs'[y] >= map_refs[y]
    BY <1>2, <2>1 DEF Up
  <2> QED  BY <1>2, <1>6, <2>2, StillHeld
<1>8. RefsFollow(p)
  <2> SUFFICES ASSUME NEW y \in Objs
               PROVE  /\ CountStep(fd_refs[y], Own(p, y), fd_refs'[y], Own(p, y)')
                      /\ CountStep(map_refs[y], Maps(p, y), map_refs'[y], Maps(p, y)')
    BY DEF RefsFollow
  <2>1. /\ fd_refs[y] \in Nat /\ fds[p][y] \in Nat /\ map_refs[y] \in Nat
    BY <1>1, ShmAssumption DEF ObjTypes, ProcTypes
  <2>2. Own(p, y) = fds[p][y] + IF y = o /\ pc[p] # "user" THEN 1 ELSE 0
    BY <2>1 DEF Own, Take, Taking
  <2>3. Own(p, y)' = fds[p][y] + IF y = o /\ l # "user" THEN 1 ELSE 0
    BY <1>3, <1>5, <2>1 DEF Own, Take, Taking
  <2>4. Maps(p, y)' = Maps(p, y) /\ Maps(p, y) \in Nat
    BY <1>3 DEF Maps, Take
  <2>5. pc[p] = "named" \/ pc[p] = "drop" => Opened
    BY DEF ShmInv, ProcOk
  <2>6. CASE y = o
    BY <1>2, <1>2a, <2>1, <2>2, <2>3, <2>4, <2>5, <2>6 DEF CountStep, Down
  <2>7. CASE y # o
    BY <1>2, <2>1, <2>2, <2>3, <2>4, <2>7 DEF CountStep
  <2> QED  BY <2>6, <2>7
<1>9. ProcOk(p)'
  BY <1>3, <1>5 DEF ShmInv, ProcOk, Opened
<1>10. ASSUME ~Opened  PROVE  NoNames' /\ Comes(p) /\ Leaves(p)
  <2>1. NoNames' /\ Comes(p)
    BY <1>2, <1>5, <1>10 DEF ShmInv, NoNames, Comes, Mmapping
  <2>2. pc[p] = "install" /\ obj[p] = o /\ l = "user"
    BY <1>10 DEF ShmInv, ProcOk
  <2>3. Leaves(p)
    <3> SUFFICES ASSUME NEW y \in Objs, used[y], Nothing(p, y)
                 PROVE  used'[y] /\ Nothing(p, y)'
      BY DEF Leaves
    <3>1. y # o
      BY <2>2 DEF Nothing, Taking
    <3> QED  BY <1>2, <1>3, <1>5, <2>2, <3>1 DEF Nothing, Taking, Mmapping, Freeing
  <2> QED  BY <2>1, <2>3
<1> QED  BY <1>2, <1>4, <1>7, <1>8, <1>9, <1>10 DEF Step, Types, Freeing

\* install_shm, whoever calls it.
LEMMA InstallStep ==
  ASSUME ShmInv, NEW p \in Procs, memfd_install(p) \/ open_install(p), UNCHANGED calls
  PROVE  Step(p)
<1>1. PICK l \in {"user", "drop"} :
          install_shm(p, l) /\ IF l = "user" THEN pc[p] = "install" ELSE pc[p] = "named"
  BY DEF memfd_install, open_install
<1>2. obj[p] \in Objs /\ Min(Objs) \in Objs /\ ProcTypes
  BY <1>1, MinObj DEF ShmInv, Types, ProcTypes
<1>3. CASE /\ Cardinality(Held(p)) < MaxFds
           /\ fds' = [fds EXCEPT ![p][obj[p]] = @ + 1]
           /\ UNCHANGED <<objVars, maps, pte>>
           /\ Goto(p, l)
  BY <1>1, <1>3, InstallDone
<1>4. CASE fd_ref(obj[p], -1) /\ UNCHANGED procVars /\ Goto(p, l)
  <2> DEFINE x == IF l = "user" THEN Min(Objs) ELSE obj[p]
  <2>1. x \in Objs /\ (l # "user" => x = obj[p])
    BY <1>2
  <2>2. pc' = [pc EXCEPT ![p] = l] /\ obj' = [obj EXCEPT ![p] = x]
    BY <1>4 DEF Goto, GotoWith
  <2> HIDE DEF x
  <2> QED  BY <1>1, <1>2, <1>4, <2>1, <2>2, RefStep
<1> QED  BY <1>1, <1>3, <1>4 DEF install_shm

\* shm_open of an object that is there: one descriptor more.
LEMMA OpenStep ==
  ASSUME ShmInv, NEW p \in Procs, NEW n \in Names, NEW creat \in BOOLEAN, NEW excl \in BOOLEAN,
         NEW trunc \in BOOLEAN, open(p, n, creat, excl, trunc), UNCHANGED calls
  PROVE  Step(p)
<1>1. pc[p] = "user" /\ Opened /\ UNCHANGED procVars
  BY DEF open, May, Opened
<1>2. CASE GotoWith(p, "create", n) /\ UNCHANGED objVars
  BY <1>1, <1>2, GotoStep
<1>3. CASE /\ Named(n) # {}
           /\ fd_ref(Min(Named(n)), 1)
           /\ GotoWith(p, IF creat /\ excl THEN "drop" ELSE IF trunc THEN "trunc" ELSE "named",
                       Min(Named(n)))
  <2>1. PICK o \in Objs : o = Min(Named(n)) /\ used[o]
    BY <1>3, MinNamed
  <2>2. PICK l \in {"trunc", "named", "drop"} : GotoWith(p, l, o)
    BY <1>3, <2>1
  <2>3. fd_ref(o, 1) /\ pc' = [pc EXCEPT ![p] = l] /\ obj' = [obj EXCEPT ![p] = o]
    BY <1>3, <2>1, <2>2 DEF GotoWith
  <2> QED  BY <1>1, <2>1, <2>3, RefStep
<1> QED  BY <1>2, <1>3 DEF open

\* shm_open that finds no descriptor free gives back its count.
LEMMA OpenDropStep ==
  ASSUME ShmInv, NEW p \in Procs, open_drop(p), UNCHANGED calls
  PROVE  Step(p)
<1>1. obj[p] \in Objs /\ Min(Objs) \in Objs /\ ProcTypes /\ pc[p] = "drop"
  BY MinObj DEF ShmInv, Types, ProcTypes, open_drop
<1>2. /\ fd_ref(obj[p], -1) /\ UNCHANGED procVars
      /\ pc' = [pc EXCEPT ![p] = "user"] /\ obj' = [obj EXCEPT ![p] = Min(Objs)]
  BY <1>1, GotoUser DEF open_drop
<1> QED  BY <1>1, <1>2, RefStep

\* shm_open with O_TRUNC lets the page go.
LEMMA OpenTruncStep ==
  ASSUME ShmInv, NEW p \in Procs, open_trunc(p), UNCHANGED calls
  PROVE  Step(p)
<1>1. ObjTypes /\ ProcTypes /\ FreeEmpty /\ obj[p] \in Objs
  BY DEF ShmInv, Types, ProcTypes, open_trunc
<1>2. /\ pc' = [pc EXCEPT ![p] = "named"] /\ obj' = obj /\ pc[p] = "trunc"
      /\ fds' = fds /\ maps' = maps /\ pte' = pte
  BY <1>1 DEF open_trunc, Goto, GotoWith, procVars, ProcTypes
<1>3. /\ used' = used /\ fd_refs' = fd_refs /\ map_refs' = map_refs /\ name' = name
      /\ ObjTypes' /\ FreeEmpty'
  <2>1. CASE truncate(obj[p], 0)
    BY <1>1, <2>1 DEF truncate, ObjTypes, FreeEmpty
  <2>2. CASE UNCHANGED objVars
    BY <1>1, <2>2 DEF objVars, ObjTypes, FreeEmpty
  <2> QED  BY <2>1, <2>2 DEF open_trunc
<1>4. ProcTypes' /\ Alone(p)
  <2>1. "named" \in PCs
    BY DEF PCs
  <2> QED  BY <1>1, <1>2, <2>1 DEF ProcTypes, Alone
<1>5. pc'[p] = "named" /\ (\A q \in Procs \ {p} : pc'[q] = pc[q])
  BY <1>1, <1>2 DEF ProcTypes
<1>6. Opened
  BY <1>2 DEF ShmInv, ProcOk
<1>7. UsedHeld'
  BY <1>2, <1>3, <1>5 DEF ShmInv, UsedHeld, Mmapping
<1>8. RefsFollow(p)
  BY <1>1, <1>2, <1>3, <1>5 DEF RefsFollow, CountStep, Own, Maps, Taking, Take, ObjTypes, ProcTypes
<1>9. ProcOk(p)'
  BY <1>2, <1>5, <1>6 DEF ShmInv, ProcOk, Opened
<1> QED  BY <1>3, <1>4, <1>6, <1>7, <1>8, <1>9 DEF Step, Types

\* mmap of a descriptor: one mapping more.
LEMMA MmapStep ==
  ASSUME ShmInv, NEW p \in Procs, NEW o \in Objs, mmap(p, o), UNCHANGED calls
  PROVE  Step(p)
<1>1. ObjTypes /\ ProcTypes /\ FreeEmpty
  BY DEF ShmInv, Types
<1>2. /\ pc[p] = "user" /\ "mmap" \in calls /\ fds[p][o] > 0
      /\ pc' = [pc EXCEPT ![p] = "mmap"] /\ obj' = [obj EXCEPT ![p] = o]
      /\ fds' = fds /\ maps' = maps /\ pte' = pte
      /\ used' = used /\ fd_refs' = fd_refs /\ map_refs' = map_refs /\ name' = name
      /\ size' = size /\ page' = page
  BY DEF mmap, May, GotoWith, objVars, procVars
<1>3. ObjTypes' /\ FreeEmpty'
  BY <1>1, <1>2 DEF ObjTypes, FreeEmpty
<1>4. ProcTypes' /\ Alone(p)
  <2>1. "mmap" \in PCs
    BY DEF PCs
  <2> QED  BY <1>1, <1>2, <2>1 DEF ProcTypes, Alone
<1>5. /\ pc'[p] = "mmap" /\ obj'[p] = o
      /\ (\A q \in Procs \ {p} : pc'[q] = pc[q] /\ obj'[q] = obj[q])
  BY <1>1, <1>2 DEF ProcTypes
<1>5a. o \notin maps[p]
  BY DEF mmap
<1>6. UsedHeld'
  BY <1>2, <1>5 DEF ShmInv, UsedHeld, Mmapping
<1>7. RefsFollow(p)
  BY <1>1, <1>2, <1>5 DEF RefsFollow, CountStep, Own, Maps, Taking, Take, ObjTypes, ProcTypes
<1>8. ProcOk(p)'
  BY <1>2, <1>5, <1>5a DEF ShmInv, ProcOk, Opened
<1>9. ~Opened => NoNames' /\ Comes(p) /\ Leaves(p)
  BY <1>2, <1>5 DEF ShmInv, NoNames, Comes, Leaves, Nothing, Mmapping, Taking
<1> QED  BY <1>3, <1>4, <1>6, <1>7, <1>8, <1>9 DEF Step, Types

\* mmap that finds no room gives back the mapping it counted.
LEMMA MmapFullStep ==
  ASSUME ShmInv, NEW p \in Procs, mmap_full(p), UNCHANGED calls
  PROVE  Step(p)
<1>1. ObjTypes /\ ProcTypes /\ FreeEmpty /\ pc[p] = "mmap"
  BY DEF ShmInv, Types, mmap_full
<1>2. PICK o \in Objs : obj[p] = o
  BY <1>1 DEF ProcTypes
<1>3. /\ pc' = [pc EXCEPT ![p] = "user"] /\ pc'[p] = "user" /\ obj'[p] \in Objs
      /\ obj' = [obj EXCEPT ![p] = Min(Objs)]
      /\ (\A q \in Procs \ {p} : pc'[q] = pc[q] /\ obj'[q] = obj[q])
      /\ fds' = fds /\ pte' = pte
  BY <1>1, GotoUser DEF mmap_full
<1>4. \A q \in Procs, y \in Objs \ {o} : Mmapping(q, y)' <=> Mmapping(q, y)
  BY <1>1, <1>2, <1>3 DEF Mmapping
<1>5. "mmap" \in calls /\ (~Opened => used[o])
  BY <1>1, <1>2 DEF ShmInv, ProcOk, MmapHolds, Mmapping
<1>5a. o \notin maps[p]
  BY <1>1, <1>2 DEF ShmInv, ProcOk
<1>6. CASE map_ref(o, 1) /\ maps' = [maps EXCEPT ![p] = @ \cup {o}]
  <2>1. /\ Freeing({}) /\ fd_refs' = fd_refs /\ name' = name
        /\ map_refs'[o] = Up(map_refs[o], o) /\ \A x \in Objs \ {o} : map_refs'[x] = map_refs[x]
    BY <1>1, <1>6, MapUp
  <2>2. ProcTypes' /\ Alone(p)
    <3>1. "user" \in PCs
      BY DEF PCs
    <3> QED  BY <1>1, <1>3, <1>6, <3>1, MinObj DEF ProcTypes, Alone
  <2>3. UsedHeld'
    <3> SUFFICES ASSUME NEW y \in Objs, used'[y]
                 PROVE  \/ name'[y] # NoName \/ fd_refs'[y] > 0 \/ map_refs'[y] > 0
                        \/ \E q \in Procs : Mmapping(q, y)'
      BY DEF UsedHeld
    <3>1. fd_refs[y] \in Nat /\ map_refs[y] \in Nat
      BY <1>1 DEF ObjTypes
    <3>2. CASE y = o
      BY <2>1, <3>1, <3>2 DEF Up, Freeing
    <3>3. CASE y # o
      BY <1>4, <2>1, <3>1, <3>3, StillHeld
    <3> QED  BY <3>2, <3>3
  <2>4. RefsFollow(p)
    <3> SUFFICES ASSUME NEW y \in Objs
                 PROVE  /\ CountStep(fd_refs[y], Own(p, y), fd_refs'[y], Own(p, y)')
                        /\ CountStep(map_refs[y], Maps(p, y), map_refs'[y], Maps(p, y)')
      BY DEF RefsFollow
    <3>1. /\ fd_refs[y] \in Nat /\ fds[p][y] \in Nat /\ map_refs[y] \in Nat
          /\ (~used[y] => map_refs[y] = 0)
      BY <1>1, ShmAssumption DEF ObjTypes, ProcTypes, FreeEmpty
    <3>2. Own(p, y) = fds[p][y] /\ Own(p, y)' = fds[p][y]
      BY <1>1, <1>3, <3>1 DEF Own, Take, Taking
    <3>3. Maps(p, y)' = IF y = o THEN 1 ELSE Maps(p, y)
      BY <1>1, <1>6 DEF Maps, Take, ProcTypes
    <3>4. Maps(p, y) \in Nat /\ (y = o => Maps(p, y) = 0)
      BY <1>5a DEF Maps, Take
    <3>5. CASE y = o
      BY <1>5, <2>1, <3>1, <3>2, <3>3, <3>4, <3>5 DEF CountStep, Up
    <3>6. CASE y # o
      BY <2>1, <3>1, <3>2, <3>3, <3>4, <3>6 DEF CountStep
    <3> QED  BY <3>5, <3>6
  <2>5. ProcOk(p)'
    BY <1>1, <1>3, <1>5, <1>6 DEF ShmInv, ProcOk, Opened, ProcTypes
  <2>6. ~Opened => NoNames' /\ Comes(p) /\ Leaves(p)
    BY <1>1, <1>2, <1>3, <1>6, <2>1
       DEF ShmInv, NoNames, Comes, Leaves, Nothing, Mmapping, Taking, Freeing, ProcTypes
  <2> QED  BY <2>1, <2>2, <2>3, <2>4, <2>5, <2>6 DEF Step, Types, Freeing
<1>7. CASE maybe_free({o}, fd_refs, map_refs, name) /\ UNCHANGED maps
  <2>1. /\ fd_refs \in [Objs -> Nat] /\ map_refs \in [Objs -> Nat]
        /\ name \in [Objs -> Names \cup {NoName}] /\ {o} \subseteq Objs
        /\ \A x \in Objs : ~used[x] => fd_refs[x] = 0 /\ map_refs[x] = 0 /\ name[x] = NoName
    BY <1>1 DEF ObjTypes, FreeEmpty
  <2>2. fd_refs' = fd_refs /\ map_refs' = map_refs /\ name' = name /\ Freeing({o})
    BY <1>1, <1>7, <2>1, MaybeFree
  <2>3. ProcTypes' /\ Alone(p)
    <3>1. "user" \in PCs
      BY DEF PCs
    <3> QED  BY <1>1, <1>3, <1>7, <3>1, MinObj DEF ProcTypes, Alone
  <2>4. UsedHeld'
    BY <1>4, <2>1, <2>2, StillHeld DEF UsedHeld
  <2>5. RefsFollow(p)
    BY <1>1, <1>3, <1>7, <2>2 DEF RefsFollow, CountStep, Own, Maps, Taking, Take, ObjTypes, ProcTypes
  <2>6. ProcOk(p)'
    BY <1>1, <1>3, <1>5, <1>7 DEF ShmInv, ProcOk, Opened
  <2>7. ~Opened => NoNames' /\ Comes(p) /\ Leaves(p)
    BY <1>1, <1>2, <1>3, <1>7, <2>2
       DEF ShmInv, NoNames, Comes, Leaves, Nothing, Mmapping, Taking, Freeing
  <2> QED  BY <2>2, <2>3, <2>4, <2>5, <2>6, <2>7 DEF Step, Types, Freeing
<1> QED  BY <1>2, <1>6, <1>7 DEF mmap_full

\* What unmap_range leaves: the entries of areas.
LEMMA UnmapRange ==
  ASSUME ProcTypes, NEW p \in Procs, unmap_range(p)
  PROVE  /\ pte' \in [Procs -> [Objs -> Frames \cup {NoFrame}]]
         /\ \A q \in Procs \ {p} : pte'[q] = pte[q]
         /\ \A o \in Objs : pte'[p][o] = IF o \in maps[p] THEN pte[p][o] ELSE NoFrame
BY DEF ProcTypes, unmap_range

\* unmap_range of munmap: the entries go that have no area.
LEMMA MunmapRangeStep ==
  ASSUME ShmInv, NEW p \in Procs, munmap_range(p), UNCHANGED calls
  PROVE  Step(p)
<1>1. ObjTypes /\ ProcTypes /\ FreeEmpty /\ pc[p] = "unmap"
  BY DEF ShmInv, Types, munmap_range
<1>2. /\ pc' = [pc EXCEPT ![p] = "user"] /\ pc'[p] = "user" /\ obj'[p] \in Objs
      /\ obj' = [obj EXCEPT ![p] = Min(Objs)]
      /\ (\A q \in Procs \ {p} : pc'[q] = pc[q] /\ obj'[q] = obj[q])
  BY <1>1, GotoUser DEF munmap_range
<1>3. /\ used' = used /\ fd_refs' = fd_refs /\ map_refs' = map_refs /\ name' = name
      /\ size' = size /\ page' = page /\ fds' = fds /\ maps' = maps
  BY DEF munmap_range, objVars
<1>4. /\ pte' \in [Procs -> [Objs -> Frames \cup {NoFrame}]]
      /\ \A q \in Procs \ {p} : pte'[q] = pte[q]
      /\ \A o \in Objs : pte'[p][o] = IF o \in maps[p] THEN pte[p][o] ELSE NoFrame
  BY <1>1, UnmapRange DEF munmap_range
<1>5. ObjTypes' /\ FreeEmpty'
  BY <1>1, <1>3 DEF ObjTypes, FreeEmpty
<1>6. ProcTypes' /\ Alone(p)
  <2>1. "user" \in PCs
    BY DEF PCs
  <2> QED  BY <1>1, <1>2, <1>3, <1>4, <2>1, MinObj DEF ProcTypes, Alone
<1>7. UsedHeld'
  BY <1>1, <1>2, <1>3 DEF ShmInv, UsedHeld, Mmapping
<1>8. RefsFollow(p)
  BY <1>1, <1>2, <1>3 DEF RefsFollow, CountStep, Own, Maps, Taking, Take, ObjTypes, ProcTypes
<1>9. ProcOk(p)'
  BY <1>1, <1>2, <1>3, <1>4 DEF ShmInv, ProcOk, Opened
<1>10. ~Opened => NoNames' /\ Comes(p) /\ Leaves(p)
  BY <1>2, <1>3 DEF ShmInv, NoNames, Comes, Leaves, Nothing, Mmapping, Taking
<1> QED  BY <1>5, <1>6, <1>7, <1>8, <1>9, <1>10 DEF Step, Types

\* unmap_range of mmap with MAP_FIXED, and the new area with its count.
LEMMA MmapFixedStep ==
  ASSUME ShmInv, NEW p \in Procs, mmap_fixed(p), UNCHANGED calls
  PROVE  Step(p)
<1>1. ObjTypes /\ ProcTypes /\ FreeEmpty /\ pc[p] = "fixed"
  BY DEF ShmInv, Types, mmap_fixed
<1>2. PICK o \in Objs : obj[p] = o
  BY <1>1 DEF ProcTypes
<1>3. /\ pc' = [pc EXCEPT ![p] = "user"] /\ pc'[p] = "user" /\ obj'[p] \in Objs
      /\ obj' = [obj EXCEPT ![p] = Min(Objs)]
      /\ (\A q \in Procs \ {p} : pc'[q] = pc[q] /\ obj'[q] = obj[q])
      /\ fds' = fds
  BY <1>1, GotoUser DEF mmap_fixed
<1>4. /\ pte' \in [Procs -> [Objs -> Frames \cup {NoFrame}]]
      /\ \A q \in Procs \ {p} : pte'[q] = pte[q]
      /\ \A y \in Objs : pte'[p][y] = IF y \in maps[p] THEN pte[p][y] ELSE NoFrame
  BY <1>1, UnmapRange DEF mmap_fixed
<1>5. \A q \in Procs, y \in Objs \ {o} : Mmapping(q, y)' <=> Mmapping(q, y)
  BY <1>1, <1>2, <1>3 DEF Mmapping
<1>6. "mmap" \in calls /\ o \notin maps[p] /\ (~Opened => used[o])
  BY <1>1, <1>2 DEF ShmInv, ProcOk, MmapHolds, Mmapping
<1>7. map_ref(o, 1) /\ maps' = [maps EXCEPT ![p] = maps[p] \cup {o}]
      /\ maps'[p] = maps[p] \cup {o}
  BY <1>1, <1>2 DEF mmap_fixed, ProcTypes
<1>8. /\ Freeing({}) /\ fd_refs' = fd_refs /\ name' = name
      /\ map_refs'[o] = Up(map_refs[o], o) /\ \A x \in Objs \ {o} : map_refs'[x] = map_refs[x]
  BY <1>1, <1>7, MapUp
<1>9. ProcTypes' /\ Alone(p)
  <2>1. "user" \in PCs
    BY DEF PCs
  <2> QED  BY <1>1, <1>3, <1>4, <1>7, <2>1, MinObj DEF ProcTypes, Alone
<1>10. UsedHeld'
  <2> SUFFICES ASSUME NEW y \in Objs, used'[y]
               PROVE  \/ name'[y] # NoName \/ fd_refs'[y] > 0 \/ map_refs'[y] > 0
                      \/ \E q \in Procs : Mmapping(q, y)'
    BY DEF UsedHeld
  <2>1. fd_refs[y] \in Nat /\ map_refs[y] \in Nat
    BY <1>1 DEF ObjTypes
  <2>2. CASE y = o
    BY <1>8, <2>1, <2>2 DEF Up, Freeing
  <2>3. CASE y # o
    BY <1>5, <1>8, <2>1, <2>3, StillHeld
  <2> QED  BY <2>2, <2>3
<1>11. RefsFollow(p)
  <2> SUFFICES ASSUME NEW y \in Objs
               PROVE  /\ CountStep(fd_refs[y], Own(p, y), fd_refs'[y], Own(p, y)')
                      /\ CountStep(map_refs[y], Maps(p, y), map_refs'[y], Maps(p, y)')
    BY DEF RefsFollow
  <2>1. /\ fd_refs[y] \in Nat /\ fds[p][y] \in Nat /\ map_refs[y] \in Nat
        /\ (~used[y] => map_refs[y] = 0)
    BY <1>1, ShmAssumption DEF ObjTypes, ProcTypes, FreeEmpty
  <2>2. Own(p, y) = fds[p][y] /\ Own(p, y)' = fds[p][y]
    BY <1>1, <1>3, <2>1 DEF Own, Take, Taking
  <2>3. Maps(p, y)' = IF y = o THEN 1 ELSE Maps(p, y)
    BY <1>7 DEF Maps, Take
  <2>4. Maps(p, y) \in Nat /\ (y = o => Maps(p, y) = 0)
    BY <1>6 DEF Maps, Take
  <2>5. CASE y = o
    BY <1>6, <1>8, <2>1, <2>2, <2>3, <2>4, <2>5 DEF CountStep, Up
  <2>6. CASE y # o
    BY <1>8, <2>1, <2>2, <2>3, <2>4, <2>6 DEF CountStep
  <2> QED  BY <2>5, <2>6
<1>12. ProcOk(p)'
  BY <1>1, <1>3, <1>4, <1>6, <1>7 DEF ShmInv, ProcOk, Opened
<1>13. ~Opened => NoNames' /\ Comes(p) /\ Leaves(p)
  BY <1>1, <1>2, <1>3, <1>7, <1>8
     DEF ShmInv, NoNames, Comes, Leaves, Nothing, Mmapping, Taking, Freeing, ProcTypes
<1> QED  BY <1>8, <1>9, <1>10, <1>11, <1>12, <1>13 DEF Step, Types, Freeing

\* clone_space and clone_table: the child has what the parent has.
LEMMA ForkStep ==
  ASSUME ShmInv, NEW p \in Procs, NEW q \in Procs, fork(p, q), UNCHANGED calls
  PROVE  Step(q)
<1> DEFINE f == [o \in Objs |-> IF used[o] THEN fd_refs[o] + fds[p][o] ELSE fd_refs[o]]
           m == [o \in Objs |-> IF used[o] /\ o \in maps[p] THEN map_refs[o] + 1 ELSE map_refs[o]]
<1>1. ObjTypes /\ ProcTypes /\ FreeEmpty /\ pc[p] = "user" /\ pc[q] = "dead"
  BY DEF ShmInv, Types, fork, May
<1>1a. \A o \in Objs : fd_refs[o] \in Nat /\ map_refs[o] \in Nat /\ fds[p][o] \in Nat
  BY <1>1, ShmAssumption DEF ObjTypes, ProcTypes
<1>2. /\ f \in [Objs -> Nat] /\ m \in [Objs -> Nat]
      /\ name \in [Objs -> Names \cup {NoName}] /\ {} \subseteq Objs
      /\ \A x \in Objs : ~used[x] => f[x] = 0 /\ m[x] = 0 /\ name[x] = NoName
  BY <1>1, <1>1a DEF ObjTypes, FreeEmpty
<1>3. maybe_free({}, f, m, name)
  BY DEF fork
<1>4. /\ fds' = [fds EXCEPT ![q] = fds[p]] /\ maps' = [maps EXCEPT ![q] = maps[p]]
      /\ pte' = [pte EXCEPT ![q] = pte[p]]
      /\ pc' = [pc EXCEPT ![q] = "user"] /\ pc'[q] = "user" /\ obj'[q] \in Objs
      /\ obj' = [obj EXCEPT ![q] = Min(Objs)]
      /\ \A r \in Procs \ {q} : pc'[r] = pc[r] /\ obj'[r] = obj[r]
  BY <1>1, GotoUser DEF fork
<1>5. \A o \in Objs :
        /\ f[o] = IF used[o] THEN fd_refs[o] + fds[p][o] ELSE fd_refs[o]
        /\ m[o] = IF used[o] /\ o \in maps[p] THEN map_refs[o] + 1 ELSE map_refs[o]
  OBVIOUS
<1> HIDE DEF f, m
<1>6. fd_refs' = f /\ map_refs' = m /\ name' = name /\ Freeing({})
  <2>1. PICK T \in SUBSET Objs : T = {}
    OBVIOUS
  <2>2. maybe_free(T, f, m, name)
    BY <1>3, <2>1
  <2> QED  BY <1>1, <1>2, <2>1, <2>2, MaybeFree
<1>7. ProcTypes' /\ Alone(q)
  <2>1. "user" \in PCs
    BY DEF PCs
  <2> QED  BY <1>1, <1>4, <2>1, MinObj DEF ProcTypes, Alone
<1>8. \A o \in Objs, r \in Procs : Mmapping(r, o)' <=> Mmapping(r, o)
  BY <1>1, <1>4 DEF Mmapping
<1>9. UsedHeld'
  <2> SUFFICES ASSUME NEW o \in Objs, used'[o]
               PROVE  \/ name'[o] # NoName \/ fd_refs'[o] > 0 \/ map_refs'[o] > 0
                      \/ \E r \in Procs : Mmapping(r, o)'
    BY DEF UsedHeld
  <2>1. fd_refs'[o] >= fd_refs[o] /\ map_refs'[o] >= map_refs[o]
    BY <1>1a, <1>5, <1>6
  <2> QED  BY <1>6, <1>8, <2>1, StillHeld
<1>10. /\ \A o \in Objs : fds[q][o] = 0 /\ fds'[q][o] = fds[p][o]
       /\ maps[q] = {} /\ maps'[q] = maps[p] /\ pte'[q] = pte[p] /\ p # q
  BY <1>1, <1>4 DEF ShmInv, ProcOk, ProcTypes
<1>11. RefsFollow(q)
  <2> SUFFICES ASSUME NEW o \in Objs
               PROVE  /\ CountStep(fd_refs[o], Own(q, o), fd_refs'[o], Own(q, o)')
                      /\ CountStep(map_refs[o], Maps(q, o), map_refs'[o], Maps(q, o)')
    BY DEF RefsFollow
  <2>1. Own(q, o) = 0 /\ Own(q, o)' = fds[p][o] /\ Maps(q, o) = 0
    BY <1>1, <1>1a, <1>4, <1>10 DEF Own, Take, Taking, Maps
  <2>2. Maps(q, o)' = IF o \in maps[p] THEN 1 ELSE 0
    BY <1>10 DEF Maps, Take
  <2>3. ~used[o] => fd_refs[o] = 0 /\ map_refs[o] = 0
    BY <1>1 DEF FreeEmpty
  <2>4. ~Opened /\ ~used[o] => ~(fds[p][o] > 0) /\ o \notin maps[p]
    BY <1>1a, <2>3, HasIsCounted DEF HasCounted, ShmInv
  <2>5. CountStep(fd_refs[o], Own(q, o), fd_refs'[o], Own(q, o)')
    BY <1>1a, <1>5, <1>6, <2>1, <2>3, <2>4 DEF CountStep
  <2>6. CountStep(map_refs[o], Maps(q, o), map_refs'[o], Maps(q, o)')
    BY <1>1a, <1>5, <1>6, <2>1, <2>2, <2>3, <2>4 DEF CountStep
  <2> QED  BY <2>5, <2>6
<1>12. ProcOk(q)'
  BY <1>1, <1>4, <1>10 DEF ShmInv, ProcOk, Opened
<1>13. ASSUME ~Opened  PROVE  NoNames' /\ Comes(q) /\ Leaves(q)
  <2>1. NoNames' /\ Comes(q)
    BY <1>4, <1>6, <1>13 DEF ShmInv, NoNames, Comes, Mmapping
  <2>2. Leaves(q)
    <3> SUFFICES ASSUME NEW o \in Objs, used[o], fd_refs[o] = 0, map_refs[o] = 0
                 PROVE  used'[o] /\ Nothing(q, o)'
      BY DEF Leaves
    <3>1. ~(fds[p][o] > 0) /\ o \notin maps[p]
      BY <1>1a, <1>13, HasIsCounted DEF HasCounted, ShmInv
    <3> QED  BY <1>1a, <1>4, <1>6, <1>10, <3>1 DEF Nothing, Taking, Mmapping, Freeing
  <2> QED  BY <2>1, <2>2
<1> QED  BY <1>6, <1>7, <1>9, <1>11, <1>12, <1>13 DEF Step, Types, Freeing

\* vm::release and file::release: every reference of the process goes.
LEMMA ExitStep ==
  ASSUME ShmInv, NEW p \in Procs, exit(p), UNCHANGED calls
  PROVE  Step(p)
<1> DEFINE f == [o \in Objs |-> IF used[o] THEN (IF fd_refs[o] < fds[p][o] THEN 0 ELSE fd_refs[o] - fds[p][o])
                                ELSE fd_refs[o]]
           m == [o \in Objs |-> IF used[o] /\ o \in maps[p]
                                THEN (IF map_refs[o] < 1 THEN 0 ELSE map_refs[o] - 1)
                                ELSE map_refs[o]]
           held == {o \in Objs : fds[p][o] > 0} \cup maps[p]
<1>1. ObjTypes /\ ProcTypes /\ FreeEmpty /\ pc[p] = "user"
  BY DEF ShmInv, Types, exit, May
<1>1a. \A o \in Objs : fd_refs[o] \in Nat /\ map_refs[o] \in Nat /\ fds[p][o] \in Nat
  BY <1>1, ShmAssumption DEF ObjTypes, ProcTypes
<1>2. /\ f \in [Objs -> Nat] /\ m \in [Objs -> Nat]
      /\ name \in [Objs -> Names \cup {NoName}] /\ held \subseteq Objs
      /\ \A x \in Objs : ~used[x] => f[x] = 0 /\ m[x] = 0 /\ name[x] = NoName
  BY <1>1, <1>1a DEF ObjTypes, ProcTypes, FreeEmpty
<1>3. maybe_free(held, f, m, name)
  BY DEF exit
<1>4. /\ fds' = [fds EXCEPT ![p] = [o \in Objs |-> 0]] /\ maps' = [maps EXCEPT ![p] = {}]
      /\ pte' = [pte EXCEPT ![p] = [o \in Objs |-> NoFrame]]
      /\ pc' = [pc EXCEPT ![p] = "dead"] /\ obj' = [obj EXCEPT ![p] = Min(Objs)]
  BY DEF exit, Goto, GotoWith
<1>4a. pc'[p] = "dead" /\ obj'[p] \in Objs /\ \A r \in Procs \ {p} : pc'[r] = pc[r] /\ obj'[r] = obj[r]
  BY <1>1, <1>4, MinObj DEF ProcTypes
<1>5. \A o \in Objs :
        /\ f[o] = IF used[o] THEN (IF fd_refs[o] < fds[p][o] THEN 0 ELSE fd_refs[o] - fds[p][o])
                  ELSE fd_refs[o]
        /\ m[o] = IF used[o] /\ o \in maps[p] THEN (IF map_refs[o] < 1 THEN 0 ELSE map_refs[o] - 1)
                  ELSE map_refs[o]
        /\ o \in held <=> fds[p][o] > 0 \/ o \in maps[p]
  BY <1>1 DEF ProcTypes
<1> HIDE DEF f, m, held
<1>6. fd_refs' = f /\ map_refs' = m /\ name' = name /\ Freeing(held)
  BY <1>1, <1>2, <1>3, MaybeFree
<1>7. ProcTypes' /\ Alone(p)
  <2>1. "dead" \in PCs /\ 0 \in 0 .. MaxFds
    BY ShmAssumption DEF PCs
  <2> QED  BY <1>1, <1>4, <2>1, MinObj DEF ProcTypes, Alone
<1>8. \A o \in Objs, r \in Procs : Mmapping(r, o)' <=> Mmapping(r, o)
  BY <1>1, <1>4a DEF Mmapping
<1>9. UsedHeld'
  <2> SUFFICES ASSUME NEW o \in Objs, used'[o]
               PROVE  \/ name'[o] # NoName \/ fd_refs'[o] > 0 \/ map_refs'[o] > 0
                      \/ \E r \in Procs : Mmapping(r, o)'
    BY DEF UsedHeld
  <2>1. o \notin held => fd_refs'[o] >= fd_refs[o] /\ map_refs'[o] >= map_refs[o]
    BY <1>1a, <1>5, <1>6
  <2> QED  BY <1>6, <1>8, <2>1, StillHeld
<1>10. (\A o \in Objs : fds'[p][o] = 0 /\ pte'[p][o] = NoFrame) /\ maps'[p] = {}
  BY <1>1, <1>4 DEF ProcTypes
<1>11. RefsFollow(p)
  <2> SUFFICES ASSUME NEW o \in Objs
               PROVE  /\ CountStep(fd_refs[o], Own(p, o), fd_refs'[o], Own(p, o)')
                      /\ CountStep(map_refs[o], Maps(p, o), map_refs'[o], Maps(p, o)')
    BY DEF RefsFollow
  <2>1. Own(p, o) = fds[p][o] /\ Own(p, o)' = 0 /\ Maps(p, o)' = 0
    BY <1>1, <1>1a, <1>4a, <1>10 DEF Own, Take, Taking, Maps
  <2>2. Maps(p, o) = IF o \in maps[p] THEN 1 ELSE 0
    BY DEF Maps, Take
  <2>3. ~used[o] => fd_refs[o] = 0 /\ map_refs[o] = 0
    BY <1>1 DEF FreeEmpty
  <2>4. CountStep(fd_refs[o], Own(p, o), fd_refs'[o], Own(p, o)')
    BY <1>1a, <1>5, <1>6, <2>1, <2>3 DEF CountStep
  <2>5. CountStep(map_refs[o], Maps(p, o), map_refs'[o], Maps(p, o)')
    BY <1>1a, <1>5, <1>6, <2>1, <2>2, <2>3 DEF CountStep
  <2> QED  BY <2>4, <2>5
<1>12. ProcOk(p)'
  BY <1>4a, <1>10 DEF ShmInv, ProcOk, Opened
<1>13. ASSUME ~Opened  PROVE  NoNames' /\ Comes(p) /\ Leaves(p)
  <2>1. NoNames' /\ Comes(p)
    BY <1>4a, <1>6, <1>13 DEF ShmInv, NoNames, Comes, Mmapping
  <2>2. Leaves(p)
    <3> SUFFICES ASSUME NEW o \in Objs, used[o], Nothing(p, o)
                 PROVE  used'[o] /\ Nothing(p, o)'
      BY DEF Leaves
    <3>1. o \notin held
      BY <1>1a, <1>5 DEF Nothing
    <3> QED  BY <1>4a, <1>6, <1>10, <3>1 DEF Nothing, Taking, Mmapping, Freeing
  <2> QED  BY <2>1, <2>2
<1> QED  BY <1>6, <1>7, <1>9, <1>11, <1>12, <1>13 DEF Step, Types, Freeing

-----------------------------------------------------------------------------
(* Reachable states.                                                       *)

\* Initially nothing is counted.
LEMMA ShmInit == Init => ShmInv
<1> SUFFICES ASSUME Init  PROVE  ShmInv
  OBVIOUS
<1>1. ObjTypes
  BY DEF Init, ObjTypes
<1>2. ProcTypes
  <2>1. "user" \in PCs /\ 0 \in 0 .. MaxFds
    BY ShmAssumption DEF PCs
  <2> QED  BY <2>1, MinObj DEF Init, ProcTypes
<1>3. FreeEmpty /\ UsedHeld /\ NoNames
  BY DEF Init, FreeEmpty, UsedHeld, NoNames
<1>4. \A p \in Procs : ProcOk(p) /\ MmapHolds(p)
  BY DEF Init, ProcOk, MmapHolds, Mmapping
<1>5. CountsOk
  <2> SUFFICES ASSUME NEW o \in Objs
               PROVE  Cardinality(FdRefs(o)) = 0 /\ Cardinality(Mappers(o)) = 0
    BY DEF CountsOk, Counts, Init
  <2>1. \A x \in Procs \X (0 .. MaxFds) : ~(IF x[2] = 0 THEN Taking(x[1], o) ELSE x[2] <= fds[x[1]][o])
    BY ShmAssumption DEF Init, Taking
  <2>2. FdRefs(o) = {} /\ Mappers(o) = {}
    BY <2>1 DEF FdRefs, Mappers, Init
  <2> QED  BY <2>2, FS_EmptySet
<1> QED  BY <1>1, <1>2, <1>3, <1>4, <1>5 DEF ShmInv, Types

\* Every step is the step of a process.
LEMMA NextStep ==
  ASSUME ShmInv, Next
  PROVE  \E p \in Procs : Step(p)
<1>1. UNCHANGED calls
  BY DEF Next
<1>2. PICK p \in Procs :
        \/ memfd(p) \/ memfd_install(p) \/ mmap_anon(p) \/ mmap_full(p) \/ exit(p)
        \/ mmap_fixed(p) \/ munmap_range(p)
        \/ Opens(p)
        \/ \E o \in Objs : \/ dup(p, o) \/ close(p, o) \/ write(p, o) \/ mmap(p, o)
                           \/ fault(p, o) \/ munmap(p, o) \/ mmap_over(p, o)
                           \/ \E pages \in 0 .. 1 : ftruncate(p, o, pages)
        \/ \E q \in Procs : fork(p, q)
  BY DEF Next
<1>3. CASE memfd(p) \/ memfd_install(p) \/ mmap_anon(p) \/ mmap_full(p) \/ exit(p)
  BY <1>1, <1>3, MemfdStep, InstallStep, MmapAnonStep, MmapFullStep, ExitStep
<1>4. CASE Opens(p)
  BY <1>1, <1>4, OpenStep, UnlinkStep, OpenCreateStep, OpenTruncStep, InstallStep, OpenDropStep
     DEF Opens
<1>5. CASE \E o \in Objs : dup(p, o) \/ close(p, o) \/ write(p, o)
  BY <1>1, <1>5, DupStep, CloseStep, WriteStep
<1>6. CASE \E o \in Objs : mmap(p, o) \/ fault(p, o) \/ munmap(p, o) \/ mmap_over(p, o)
  BY <1>1, <1>6, MmapStep, FaultStep, MunmapStep, MmapOverStep
<1>7. CASE \E o \in Objs : \E pages \in 0 .. 1 : ftruncate(p, o, pages)
  BY <1>1, <1>7, FtruncateStep
<1>8. CASE \E q \in Procs : fork(p, q)
  BY <1>1, <1>8, ForkStep
<1>9. CASE mmap_fixed(p) \/ munmap_range(p)
  BY <1>1, <1>9, MmapFixedStep, MunmapRangeStep
<1> QED  BY <1>2, <1>3, <1>4, <1>5, <1>6, <1>7, <1>8, <1>9

\* A step that stutters.
LEMMA ShmStutters ==
  ASSUME ShmInv, UNCHANGED vars
  PROVE  ShmInv'
<1>1. /\ used' = used /\ fd_refs' = fd_refs /\ map_refs' = map_refs /\ name' = name
      /\ size' = size /\ page' = page /\ fds' = fds /\ maps' = maps /\ pte' = pte
      /\ pc' = pc /\ obj' = obj /\ calls' = calls
  BY DEF vars, objVars, procVars
<1>2. Types' /\ FreeEmpty' /\ UsedHeld'
  BY <1>1 DEF ShmInv, Types, ObjTypes, ProcTypes, FreeEmpty, UsedHeld, Mmapping
<1>3. CountsOk'
  <2>1. \A o \in Objs : FdRefs(o)' = FdRefs(o) /\ Mappers(o)' = Mappers(o)
    BY <1>1 DEF FdRefs, Mappers, Taking
  <2> QED  BY <1>1, <2>1 DEF ShmInv, CountsOk, Counts, Opened
<1>4. /\ \A p \in Procs : ProcOk(p)'
      /\ ~Opened' => NoNames' /\ \A p \in Procs : MmapHolds(p)'
  BY <1>1 DEF ShmInv, ProcOk, Opened, NoNames, MmapHolds, Mmapping, New
<1> QED  BY <1>2, <1>3, <1>4 DEF ShmInv

\* The invariant of the objects holds.
LEMMA ShmInvariant == Spec => []ShmInv
<1>1. ShmInv /\ [Next]_vars => ShmInv'
  BY NextStep, StepKeeps, ShmStutters
<1> QED  BY <1>1, ShmInit, PTL DEF Spec

\* An object that is referred to by a counter is referred to by somebody.
LEMMA NoLeakHolds ==
  ASSUME ShmInv, NEW o \in Objs, used[o]
  PROVE  \/ name[o] # NoName
         \/ \E p \in Procs : \/ fds[p][o] > 0
                              \/ o \in maps[p]
                              \/ (pc[p] \notin {"user", "unmap", "dead"} /\ obj[p] = o)
<1>1. /\ fd_refs[o] \in Nat /\ map_refs[o] \in Nat
      /\ fd_refs[o] <= Cardinality(FdRefs(o)) /\ map_refs[o] <= Cardinality(Mappers(o))
  BY DEF ShmInv, Types, ObjTypes, CountsOk, Counts
<1>2. CASE name[o] # NoName \/ \E p \in Procs : Mmapping(p, o)
  BY <1>2 DEF Mmapping
<1>3. CASE fd_refs[o] > 0
  <2>1. FdRefs(o) # {}
    BY <1>1, <1>3, FS_EmptySet
  <2>2. PICK x \in FdRefs(o) : TRUE
    BY <2>1
  <2>3. PICK p \in Procs, k \in 0 .. MaxFds : x = <<p, k>> /\ IF k = 0 THEN Taking(p, o) ELSE k <= fds[p][o]
    BY <2>2 DEF FdRefs
  <2>4. fds[p][o] \in Nat /\ k \in Nat
    BY ShmAssumption DEF ShmInv, Types, ProcTypes
  <2> QED  BY <2>3, <2>4 DEF Taking
<1>4. CASE map_refs[o] > 0
  <2>1. Mappers(o) # {}
    BY <1>1, <1>4, FS_EmptySet
  <2> QED  BY <2>1 DEF Mappers
<1> QED  BY <1>2, <1>3, <1>4 DEF ShmInv, UsedHeld

\* "Ele e referenciado por descritores (fd_refs) e por VMAs (map_refs)"
\* (shm.rs:5): no object is kept for nobody, and for programs that use no names
\* its counters are the descriptors and the mappings there are, through dup, fork,
\* close, munmap, calls that fail half way and the end of processes.
THEOREM ShmRefsExact == Spec => []RefsExact
<1>1. ShmInv => RefsExact
  <2> SUFFICES ASSUME ShmInv  PROVE  RefsExact
    OBVIOUS
  <2>1. NoLeak
    BY NoLeakHolds DEF NoLeak
  <2> QED  BY <2>1 DEF RefsExact, ShmInv, CountsOk, Counts, Opened
<1> QED  BY <1>1, ShmInvariant, PTL

-----------------------------------------------------------------------------
(* Pages.                                                                  *)

\* Who maps opens nothing by name, shrinks no object and has one thread.
Growing == \A c \in Programs : "mmap" \in c => c \cap {"open", "shrink", "threads"} = {}

\* The page of an area is that of its object, even while other areas are going.
PagesMapped ==
    \A p \in Procs, o \in Objs : pte[p][o] # NoFrame /\ o \in maps[p] =>
        used[o] /\ page[o] = pte[p][o]

\* No frame is the page of two objects.
PagesApart == \A o, x \in Objs : page[o] = page[x] /\ page[o] # NoFrame => o = x

\* What a step may do to pages: they go, all of those of an object that goes, and
\* one of no object comes.
PageStep ==
    /\ \A o \in Objs : used[o] /\ used'[o] /\ page'[o] # page[o] =>
          page[o] = NoFrame \/ Opened \/ "shrink" \in calls
    /\ \/ \A o \in Objs : page'[o] \in {page[o], NoFrame}
       \/ \E x \in Objs, f \in FreeFrames : page' = [page EXCEPT ![x] = f]

\* What an area has mapped is the page of its object, or what an area of the same
\* object had.
PteStep ==
    \A q \in Procs : \A o \in maps'[q] :
        \/ pte'[q][o] \in {NoFrame, page'[o]}
        \/ \E p \in Procs : o \in maps[p] /\ pte'[q][o] = pte[p][o]

\* The pages of a slot nobody uses are nobody's.
LEMMA FreePages ==
  ASSUME ObjTypes, NEW T, NEW f, NEW m, NEW nm, maybe_free(T, f, m, nm)
  PROVE  PageStep
<1> DEFINE gone == Gone(T, f, m, nm)
<1>1. /\ used' = [o \in Objs |-> used[o] /\ o \notin gone]
      /\ page' = [o \in Objs |-> IF o \in gone THEN NoFrame ELSE page[o]]
  BY DEF maybe_free
<1> HIDE DEF gone
<1> QED  BY <1>1 DEF PageStep, ObjTypes

\* Steps that only count leave the pages right.
LEMMA RefPages ==
  ASSUME ObjTypes, NEW o, NEW d, fd_ref(o, d) \/ map_ref(o, d)
  PROVE  PageStep
BY FreePages DEF fd_ref, map_ref

\* A new object has no page yet.
LEMMA CreatePages ==
  ASSUME ObjTypes, NEW o \in Objs, NEW n, NEW refs, NEW pages, create(o, n, refs, pages)
  PROVE  PageStep
BY DEF create, FreeObj, PageStep, ObjTypes

\* Steps that leave pages and entries alone.
LEMMA SamePages ==
  ASSUME ObjTypes, UNCHANGED objVars
  PROVE  PageStep
BY DEF objVars, PageStep, ObjTypes

\* The page that goes is mapped nowhere.
LEMMA TruncatePages ==
  ASSUME ObjTypes, NEW o \in Objs, NEW pages \in 0 .. 1, truncate(o, pages),
         pages = 0 => Opened \/ "shrink" \in calls
  PROVE  PageStep
BY DEF truncate, PageStep, ObjTypes

\* Steps that leave the entries alone.
LEMMA SamePtes ==
  ASSUME pte' = pte, maps' = maps
  PROVE  PteStep
BY DEF PteStep

\* Every step is such a step.
LEMMA NextPages ==
  ASSUME ShmInv, Next
  PROVE  PageStep /\ PteStep
<1>1. ObjTypes /\ ProcTypes
  BY DEF ShmInv, Types
<1>2. PICK p \in Procs :
        \/ memfd(p) \/ memfd_install(p) \/ mmap_anon(p) \/ mmap_full(p) \/ exit(p)
        \/ mmap_fixed(p) \/ munmap_range(p)
        \/ Opens(p)
        \/ \E o \in Objs : \/ dup(p, o) \/ close(p, o) \/ write(p, o) \/ mmap(p, o)
                           \/ fault(p, o) \/ munmap(p, o) \/ mmap_over(p, o)
                           \/ \E pages \in 0 .. 1 : ftruncate(p, o, pages)
        \/ \E q \in Procs : fork(p, q)
  BY DEF Next
<1>3. CASE memfd(p) \/ mmap_anon(p)
  BY <1>1, <1>3, CreatePages, SamePtes DEF memfd, mmap_anon, procVars
<1>4. CASE memfd_install(p) \/ open_install(p)
  BY <1>1, <1>4, SamePages, RefPages, SamePtes DEF memfd_install, open_install, install_shm, procVars
<1>5. CASE mmap_full(p)
  <2>1. PageStep
    BY <1>1, <1>5, FreePages, RefPages DEF mmap_full
  <2>2. pte' = pte /\ (maps' = maps \/ maps' = [maps EXCEPT ![p] = @ \cup {obj[p]}])
    BY <1>5 DEF mmap_full
  <2>3. obj[p] \in Objs /\ pte[p][obj[p]] = NoFrame
    BY <1>1, <1>5 DEF mmap_full, ShmInv, ProcOk, ProcTypes
  <2>4. PteStep
    BY <1>1, <2>2, <2>3 DEF PteStep, ProcTypes
  <2> QED  BY <2>1, <2>4
<1>6. CASE exit(p)
  <2>1. PageStep
    BY <1>1, <1>6, FreePages DEF exit
  <2>2. pte' = [pte EXCEPT ![p] = [o \in Objs |-> NoFrame]] /\ maps' = [maps EXCEPT ![p] = {}]
    BY <1>6 DEF exit
  <2> QED  BY <1>1, <2>1, <2>2 DEF PteStep, ProcTypes
<1>7. CASE \E n \in Names, creat, excl, trunc \in BOOLEAN : open(p, n, creat, excl, trunc)
  BY <1>1, <1>7, SamePages, RefPages, SamePtes DEF open, procVars
<1>8. CASE \E n \in Names : unlink(p, n)
  BY <1>1, <1>8, FreePages, SamePtes DEF unlink, procVars
<1>9. CASE open_create(p)
  BY <1>1, <1>9, CreatePages, SamePages, SamePtes DEF open_create, procVars
<1>10. CASE open_trunc(p)
  <2>1. Opened /\ obj[p] \in Objs
    BY <1>10 DEF open_trunc, ShmInv, ProcOk, Types, ProcTypes
  <2> QED  BY <1>1, <1>10, <2>1, TruncatePages, SamePages, SamePtes DEF open_trunc, procVars
<1>11. CASE open_drop(p)
  BY <1>1, <1>11, RefPages, SamePtes DEF open_drop, procVars
<1>12. CASE \E o \in Objs : dup(p, o) \/ close(p, o)
  BY <1>1, <1>12, RefPages, SamePtes DEF dup, close
<1>13. CASE \E o \in Objs : mmap(p, o)
  BY <1>1, <1>13, SamePages, SamePtes DEF mmap, procVars
<1>14. CASE \E o \in Objs : \E pages \in 0 .. 1 : ftruncate(p, o, pages)
  BY <1>1, <1>14, TruncatePages, SamePtes DEF ftruncate, procVars
<1>15. CASE \E o \in Objs : write(p, o)
  <2>1. PICK o \in Objs : write(p, o)
    BY <1>15
  <2>1a. PICK f \in FreeFrames \cup {NoFrame, page[o]} :
           page' = [page EXCEPT ![o] = f] /\ (page[o] # NoFrame => f = page[o])
    BY <2>1 DEF write
  <2>2. PageStep
    BY <1>1, <2>1a DEF PageStep, ObjTypes
  <2> QED  BY <2>1, <2>2, SamePtes DEF write, procVars
<1>16. CASE \E o \in Objs : fault(p, o)
  <2>1. PICK o \in Objs : fault(p, o)
    BY <1>16
  <2>1a. PICK f \in FreeFrames \cup {page[o]} :
           /\ page' = [page EXCEPT ![o] = f] /\ (page[o] # NoFrame => f = page[o])
           /\ pte' = [pte EXCEPT ![p][o] = f] /\ maps' = maps
    BY <2>1 DEF fault
  <2>2. PageStep
    BY <1>1, <2>1a DEF PageStep, ObjTypes
  <2>3. PteStep
    BY <1>1, <2>1a DEF PteStep, ObjTypes, ProcTypes
  <2> QED  BY <2>2, <2>3
<1>17. CASE \E o \in Objs : munmap(p, o) \/ mmap_over(p, o)
  <2>1. PICK o \in Objs : /\ map_ref(o, -1) /\ pte' = pte
                          /\ maps' = [maps EXCEPT ![p] = @ \ {o}]
    BY <1>17 DEF munmap, mmap_over
  <2>2. PteStep
    BY <1>1, <2>1 DEF PteStep, ProcTypes
  <2> QED  BY <1>1, <2>1, <2>2, RefPages
<1>19. CASE munmap_range(p)
  <2>1. PageStep /\ unmap_range(p) /\ maps' = maps
    BY <1>1, <1>19, SamePages DEF munmap_range
  <2>2. PteStep
    BY <1>1, <2>1, UnmapRange DEF PteStep, ProcTypes
  <2> QED  BY <2>1, <2>2
<1>20. CASE mmap_fixed(p)
  <2>1. /\ PageStep /\ unmap_range(p) /\ maps' = [maps EXCEPT ![p] = @ \cup {obj[p]}]
        /\ obj[p] \in Objs /\ obj[p] \notin maps[p]
    BY <1>1, <1>20, RefPages DEF mmap_fixed, ShmInv, ProcOk, ProcTypes
  <2>2. /\ \A q \in Procs \ {p} : pte'[q] = pte[q]
        /\ \A o \in Objs : pte'[p][o] = IF o \in maps[p] THEN pte[p][o] ELSE NoFrame
    BY <1>1, <2>1, UnmapRange
  <2>3. PteStep
    BY <1>1, <2>1, <2>2 DEF PteStep, ProcTypes
  <2> QED  BY <2>1, <2>3
<1>18. CASE \E q \in Procs : fork(p, q)
  <2>1. PICK q \in Procs : fork(p, q)
    BY <1>18
  <2>2. pte' = [pte EXCEPT ![q] = pte[p]] /\ maps' = [maps EXCEPT ![q] = maps[p]]
    BY <2>1 DEF fork
  <2>3. PteStep
    BY <1>1, <2>2 DEF PteStep, ProcTypes
  <2> QED  BY <1>1, <2>1, <2>3, FreePages DEF fork
<1> QED  BY <1>2, <1>3, <1>4, <1>5, <1>6, <1>7, <1>8, <1>9, <1>10, <1>11, <1>12, <1>13, <1>14,
            <1>15, <1>16, <1>17, <1>18, <1>19, <1>20 DEF Opens

\* Such steps keep what is mapped.
LEMMA PagesStay ==
  ASSUME ShmInv, ShmInv', Growing, UNCHANGED calls, PagesApart, PagesMapped, PageStep, PteStep
  PROVE  PagesApart' /\ PagesMapped'
<1>1. ObjTypes /\ ObjTypes' /\ ProcTypes /\ ProcTypes' /\ Opened' = Opened
  BY DEF ShmInv, Types, Opened
<1>2. PagesApart'
  <2>1. CASE \A o \in Objs : page'[o] \in {page[o], NoFrame}
    BY <2>1 DEF PagesApart
  <2>2. CASE \E x \in Objs, f \in FreeFrames : page' = [page EXCEPT ![x] = f]
    BY <1>1, <2>2 DEF PagesApart, FreeFrames, ObjTypes
  <2> QED  BY <2>1, <2>2 DEF PageStep
<1>3. ASSUME NEW q \in Procs, NEW o \in Objs, pte'[q][o] # NoFrame, o \in maps'[q]
      PROVE  used'[o] /\ page'[o] = pte'[q][o]
  <2>1. "mmap" \in calls
    BY <1>3 DEF ShmInv, ProcOk
  <2>2. ~Opened /\ "shrink" \notin calls
    BY <1>1, <2>1 DEF Growing, Opened, ProcTypes
  <2>3. used'[o]
    <3>1. HasCounted'
      BY HasIsCounted, PTL
    <3>2. map_refs'[o] > 0
      BY <1>1, <1>3, <2>2, <3>1 DEF HasCounted, ShmInv
    <3> QED  BY <3>2 DEF ShmInv, FreeEmpty
  <2>4. ASSUME NEW p \in Procs, o \in maps[p], pte'[q][o] = pte[p][o]
        PROVE  page'[o] = pte'[q][o]
    <3>1. used[o] /\ page[o] = pte[p][o]
      BY <1>3, <2>4 DEF PagesMapped
    <3> QED  BY <1>3, <2>2, <2>3, <2>4, <3>1 DEF PageStep
  <2> QED  BY <1>3, <2>3, <2>4 DEF PteStep
<1> QED  BY <1>2, <1>3 DEF PagesMapped

\* Who can look through its tables finds the pages of areas there.
LEMMA MappedKept ==
  ASSUME ShmInv, Growing, PagesApart, PagesMapped
  PROVE  PagesKept
<1> SUFFICES ASSUME NEW p \in Procs, NEW o \in Objs, pte[p][o] # NoFrame, Runs(p)
             PROVE  /\ used[o] /\ page[o] = pte[p][o]
                    /\ \A x \in Objs \ {o} : page[x] # pte[p][o]
  BY DEF PagesKept
<1>1. ProcOk(p) /\ calls \in Programs
  BY DEF ShmInv, Types, ProcTypes
<1>2. "mmap" \in calls
  BY <1>1 DEF ProcOk
<1>3. "threads" \notin calls
  BY <1>1, <1>2 DEF Growing
<1>4. o \in maps[p]
  BY <1>1, <1>3 DEF ProcOk, Runs
<1>5. used[o] /\ page[o] = pte[p][o]
  BY <1>4 DEF PagesMapped
<1> QED  BY <1>5 DEF PagesApart

\* "as paginas so voltam ao alocador quando nao sobra referencia nenhuma"
\* (shm.rs:6): a page that a process can reach is the page of its object and of no
\* other, for programs that map no objects that have names or shrink, in processes
\* of one thread. munmap and MAP_FIXED do give the page back before the entry is
\* cleared (vm.rs:317): the process that makes the call is the one that cannot look
\* meanwhile. (ftruncate takes pages that are mapped: shm.rs, truncate; shm_open
\* loses a reference; a second thread looks.)
THEOREM ShmPagesKept ==
  ASSUME Growing
  PROVE  Spec => []PagesKept
<1>1. Init => PagesApart /\ PagesMapped
  BY DEF Init, PagesApart, PagesMapped
<1>2. ShmInv /\ ShmInv' /\ PagesApart /\ PagesMapped /\ [Next]_vars
          => PagesApart' /\ PagesMapped'
  <2>1. CASE Next
    BY <2>1, NextPages, PagesStay DEF Next
  <2>2. CASE UNCHANGED vars
    BY <2>2 DEF vars, objVars, procVars, PagesApart, PagesMapped
  <2> QED  BY <2>1, <2>2
<1>3. ShmInv /\ PagesApart /\ PagesMapped => PagesKept
  BY MappedKept
<1> QED  BY <1>1, <1>2, <1>3, ShmInvariant, PTL DEF Spec

=============================================================================
