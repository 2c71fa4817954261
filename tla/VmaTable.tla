------------------------------ MODULE VmaTable ------------------------------
(***************************************************************************)
(* The table of areas of one address space (kernel/src/vm.rs): a sorted    *)
(* vector that mmap, munmap, mprotect, mremap and the loader cut, split    *)
(* and merge under the lock VM, one call at a time.                        *)
(*                                                                         *)
(* Addresses count pages from MMAP_BASE. `want` is what the calls made so  *)
(* far asked for, page by page; the table must say the same.               *)
(***************************************************************************)
EXTENDS Integers, Sequences, SequencesExt, FiniteSets, FiniteSetsExt

CONSTANTS
    MmapEnd,   \* MMAP_END: pages of the region
    MaxVmas,   \* areas the vector can grow to (MAX_PAGES)
    Prots,     \* protections
    Objs,      \* shared objects
    Inos,      \* files
    Offsets    \* pages of an object or file at which a mapping begins

Anon   == "anonymous"
NoArea == "no_area"
NoHint == -1            \* an address below MMAP_BASE

Pages  == 0 .. MmapEnd - 1
Backed == Objs \cup Inos \cup {Anon}

VARIABLES
    vmas,   \* SPACES[l]: the sorted areas
    hint,   \* where the next search for a hole begins
    refs,   \* references of each object that the areas took (shm::map_ref)
    want    \* history: what each page was asked to be, or NoArea

vars == <<vmas, hint, refs, want>>

Vma(start, end, prot, back, off) ==
    [start |-> start, end |-> end, prot |-> prot, back |-> back, off |-> off]

-----------------------------------------------------------------------------
(* The table: operators on a sorted sequence of areas. *)

\* lower: index of the first area that ends after addr.
lower(v, addr) == 1 + Cardinality({i \in DOMAIN v : v[i].end <= addr})

\* find: the area of a page, if it has one.
Covers(v, addr) == lower(v, addr) <= Len(v) /\ v[lower(v, addr)].start <= addr
find(v, addr)   == v[lower(v, addr)]

overlaps(v, start, end) == lower(v, start) <= Len(v) /\ v[lower(v, start)].start < end

\* covered: from start to end there is no hole.
covered(v, start, end) == \A p \in start .. end - 1 : Covers(v, p)

\* reserve: the vector has room for so many more areas, or can grow.
reserve(v, extra) == Len(v) + extra <= MaxVmas

\* The part of an area from page addr on.
From(a, addr) == [a EXCEPT !.start = addr, !.off = @ + addr - a.start]

\* Mutant: the page of the object or file is not moved along.
Outside_SameOffset(a, start, end) ==
    IF a.end <= start \/ a.start >= end THEN <<a>>
    ELSE (IF a.start < start THEN <<[a EXCEPT !.end = start]>> ELSE <<>>)
         \o (IF a.end > end THEN <<[a EXCEPT !.start = end]>> ELSE <<>>)

\* What carve leaves of an area.
Outside(a, start, end) ==
    IF a.end <= start \/ a.start >= end THEN <<a>>
    ELSE (IF a.start < start THEN <<[a EXCEPT !.end = start]>> ELSE <<>>)
         \o (IF a.end > end THEN <<From(a, end)>> ELSE <<>>)

\* carve: takes start .. end out of the table.
carve(v, start, end) == FlattenSeq([i \in DOMAIN v |-> Outside(v[i], start, end)])

\* mergeable: neighbours that continue each other.
mergeable(x, y) ==
    /\ x.end = y.start /\ x.prot = y.prot /\ x.back = y.back
    /\ x.back = Anon \/ x.off + x.end - x.start = y.off

\* The areas i and i + 1 become one, if they can.
Joins(v, i) == i \in 1 .. Len(v) - 1 /\ mergeable(v[i], v[i + 1])
Join(v, i)  ==
    IF Joins(v, i) THEN RemoveAt([v EXCEPT ![i].end = v[i + 1].end], i + 1) ELSE v

\* add_vma: inserts area a and merges it with its neighbours, the one below
\* first.
Inserted(v, a) == InsertAt(v, lower(v, a.start), a)
add_vma(v, a) ==
    LET i   == lower(v, a.start)
        new == Inserted(v, a)
    IN Join(Join(new, i - 1), IF Joins(new, i - 1) THEN i - 1 ELSE i)

\* split_at: the area that has addr strictly inside becomes two.
Splits(v, addr) == Covers(v, addr) /\ find(v, addr).start < addr
split_at(v, addr) ==
    LET i == lower(v, addr) IN
    IF Splits(v, addr)
    THEN InsertAt([v EXCEPT ![i].end = addr], i + 1, From(v[i], addr))
    ELSE v

\* Mutant: the hole is taken at the hint without looking at the areas.
gap_NoSkip(v, len) == {c \in {hint} : c + len <= MmapEnd}

\* gap: the first hole of len pages from the hint on, or else from the
\* beginning (at most one page number).
Holes(v, from, len) ==
    {c \in from .. MmapEnd - len : ~overlaps(v, c, c + len)}
gap(v, len) ==
    LET after == Holes(v, hint, len)
        holes == IF after # {} THEN after ELSE Holes(v, 0, len)
    IN {c \in holes : \A d \in holes : c <= d}

-----------------------------------------------------------------------------
(* obj_ref: references taken and given back as areas split, go or merge. *)

Objects(o, a) == IF a.back = o THEN 1 ELSE 0

\* carve: one more for an area cut in two, one less for an area that goes.
CarveRefs(v, start, end, o) ==
    MapThenSumSet(LAMBDA i : Objects(o, v[i]) * (Len(Outside(v[i], start, end)) - 1), DOMAIN v)

\* Mutant: the area that a merge removes keeps its reference.
AddRefs_KeepMerged(v, a, o) == 0

\* add_vma: one less for each merge.
AddRefs(v, a, o) == Objects(o, a) * (Len(add_vma(v, a)) - Len(Inserted(v, a)))

SplitRefs(v, addr, o) == IF Splits(v, addr) THEN Objects(o, find(v, addr)) ELSE 0

-----------------------------------------------------------------------------
(* The calls, each under VM. One that fails changes nothing. *)

Page(prot, back, off) == [prot |-> prot, back |-> back, off |-> IF back = Anon THEN 0 ELSE off]

\* `want` once the pages start .. end - 1 are area a, or nothing.
Asked(w, a) ==
    [p \in Pages |-> IF p \in a.start .. a.end - 1
                     THEN Page(a.prot, a.back, a.off + p - a.start) ELSE w[p]]
Removed(w, start, end) == [p \in Pages |-> IF p \in start .. end - 1 THEN NoArea ELSE w[p]]

\* Area a goes into table v, with the reference mmap_full took for it.
Put(v, taken, a, first) ==
    /\ vmas' = add_vma(v, a)
    /\ refs' = [o \in Objs |-> taken[o] + first * Objects(o, a) + AddRefs(v, a, o)]

Taken(start, end) == [o \in Objs |-> refs[o] + CarveRefs(vmas, start, end, o)]


\* What mmap_full reserves.
MAP_RESERVE == 2

\* mmap_full with MAP_FIXED.
mmap_fixed(start, len, prot, back, off) ==
    LET a == Vma(start, start + len, prot, back, off) IN
    /\ reserve(vmas, MAP_RESERVE)
    /\ start + len <= MmapEnd
    /\ Put(carve(vmas, start, start + len), Taken(start, start + len), a, 1)
    /\ want' = Asked(want, a)
    /\ UNCHANGED hint

\* add_region_over: a segment the loader puts over what is there.
add_region_over(start, len, prot) == mmap_fixed(start, len, prot, Anon, 0)

\* add_region: the stack of a new process.
add_region(start, len, prot) ==
    LET a == Vma(start, start + len, prot, Anon, 0) IN
    /\ start + len <= MmapEnd
    /\ reserve(vmas, 1)
    /\ ~overlaps(vmas, start, start + len)
    /\ Put(vmas, refs, a, 0)
    /\ want' = Asked(want, a)
    /\ UNCHANGED hint

\* mmap_full without MAP_FIXED: at the address asked for if there is one (not
\* NoHint) and it is free, or else in a hole.
mmap_anywhere(addr, len, prot, back, off) ==
    /\ reserve(vmas, MAP_RESERVE)
    /\ LET asked == addr # NoHint /\ addr + len <= MmapEnd /\ ~overlaps(vmas, addr, addr + len) IN
       \E start \in IF asked THEN {addr} ELSE gap(vmas, len) :
          LET a == Vma(start, start + len, prot, back, off) IN
          /\ hint' = IF asked THEN hint ELSE start + len
          /\ Put(vmas, refs, a, 1)
          /\ want' = Asked(want, a)

munmap(start, len) ==
    /\ start + len <= MmapEnd
    /\ reserve(vmas, 1)
    /\ vmas' = carve(vmas, start, start + len)
    /\ refs' = Taken(start, start + len)
    /\ want' = Removed(want, start, start + len)
    /\ UNCHANGED hint

mprotect(start, len, prot) ==
    LET end   == start + len
        left  == split_at(vmas, start)
        split == split_at(left, end)
    IN /\ covered(vmas, start, end)
       /\ reserve(vmas, 2)
       /\ vmas' = [i \in DOMAIN split |->
             IF split[i].start >= start /\ split[i].start < end
             THEN [split[i] EXCEPT !.prot = prot] ELSE split[i]]
       /\ refs' = [o \in Objs |->
             refs[o] + SplitRefs(vmas, start, o) + SplitRefs(left, end, o)]
       /\ want' = [p \in Pages |->
             IF p \in start .. end - 1 THEN [want[p] EXCEPT !.prot = prot] ELSE want[p]]
       /\ UNCHANGED hint

\* mremap to a larger size (a smaller one is a munmap of the rest): in place
\* if what follows is free, or else moved to a hole.
mremap(start, old, new) ==
    LET end == start + old
        v   == find(vmas, start)
        fits == start + new <= MmapEnd /\ ~overlaps(vmas, end, start + new)
    IN /\ old < new
       /\ end <= MmapEnd
       /\ Covers(vmas, start)
       /\ v.end >= end /\ v.back = Anon
       /\ reserve(vmas, 2)
       /\ \/ /\ fits
             /\ Put(vmas, refs, Vma(end, start + new, v.prot, Anon, 0), 0)
             /\ want' = Asked(want, Vma(end, start + new, v.prot, Anon, 0))
             /\ UNCHANGED hint
          \/ /\ ~fits
             /\ \E to \in gap(vmas, new) :
                   LET a == Vma(to, to + new, v.prot, Anon, 0) IN
                   /\ hint' = to + new
                   /\ Put(carve(vmas, start, end), refs, a, 0)
                   /\ want' = Asked(Removed(want, start, end), a)

\* The space ends.
release ==
    /\ vmas # <<>>
    /\ vmas' = <<>>
    /\ hint' = 0
    /\ refs' = [o \in Objs |->
          refs[o] - MapThenSumSet(LAMBDA i : Objects(o, vmas[i]), DOMAIN vmas)]
    /\ want' = [p \in Pages |-> NoArea]

Init ==
    /\ vmas = <<>>
    /\ hint = 0
    /\ refs = [o \in Objs |-> 0]
    /\ want = [p \in Pages |-> NoArea]

Next ==
    \/ \E len \in 1 .. MmapEnd, prot \in Prots, back \in Backed, off \in Offsets :
          /\ back = Anon => off = 0
          /\ \/ \E start \in Pages : mmap_fixed(start, len, prot, back, off)
             \/ \E addr \in Pages \cup {NoHint} : mmap_anywhere(addr, len, prot, back, off)
    \/ \E start \in Pages, len \in 1 .. MmapEnd, prot \in Prots :
          \/ mprotect(start, len, prot)
          \/ add_region(start, len, prot)
          \/ add_region_over(start, len, prot)
    \/ \E start \in Pages, len \in 1 .. MmapEnd : munmap(start, len)
    \/ \E start \in Pages, old, new \in 1 .. MmapEnd : mremap(start, old, new)
    \/ release

Spec == Init /\ [][Next]_vars

-----------------------------------------------------------------------------
(* Properties *)

\* The table stays what lower and every search assume: areas that are not
\* empty, in order, inside the region and apart from each other, whatever
\* was cut, split, merged or put in a hole.
TableSorted ==
    /\ \A i \in DOMAIN vmas : /\ 0 <= vmas[i].start
                              /\ vmas[i].start < vmas[i].end
                              /\ vmas[i].end <= MmapEnd
    /\ \A i \in 1 .. Len(vmas) - 1 : vmas[i].end <= vmas[i + 1].start

\* The table is sorted, and each page is what the calls asked for: its
\* protection and the page of the object or file behind it survive every cut,
\* split and merge of its area.
TableExact ==
    /\ TableSorted
    /\ \A p \in Pages :
        want[p] = IF Covers(vmas, p)
                  THEN LET a == find(vmas, p) IN Page(a.prot, a.back, a.off + p - a.start)
                  ELSE NoArea

\* "Cada VMA que aponta para um objeto e uma referencia a ele": the
\* references taken and given back are exactly the areas of the object.
RefsExact ==
    \A o \in Objs : refs[o] = Cardinality({i \in DOMAIN vmas : vmas[i].back = o})

=============================================================================
