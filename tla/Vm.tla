--------------------------------- MODULE Vm ---------------------------------
(***************************************************************************)
(* Pages, page tables and frames (kernel/src/vm.rs, frame_allocator.rs and *)
(* the page tables of arch/riscv64/mmu.rs): lazy pages, private pages of   *)
(* files, copy on write after fork.                                        *)
(*                                                                         *)
(* The lock VM serialises the calls and the faults, except while a fault   *)
(* reads a file. fork copies the page tables under MMU alone and the areas *)
(* later, and the end of a process frees them under MMU: a fault that      *)
(* holds VM is therefore cut into the steps these may come between. The    *)
(* areas are a function of the page, which is what VmaTable shows the      *)
(* table to be; where an area ends among pages alike is left open.         *)
(***************************************************************************)
EXTENDS Integers, Sequences, FiniteSets, Functions

CONSTANTS
    Threads,
    Starters,   \* the threads of the first process
    Spaces,     \* address spaces, with their page tables
    NPages,     \* pages of a space
    Frames,     \* physical pages
    File,       \* a file to map
    Shifts,     \* a mapping has page p + shift of the file behind page p
    Prots,      \* protections in use, of "none", "r" and "rw"
    Around,     \* pages a fault reads ahead at most, the faulting one included
    TablesFail, \* whether memory for a page table may be missing
    Calls       \* the calls programs make

Anon    == "anonymous"
None    == "none"
NoArea  == [back |-> None]
NoPte   == [frame |-> None]
NoSpace == "no_space"

ASSUME VmAssumption ==
    /\ Starters \subseteq Threads /\ Starters # {}
    /\ IsFiniteSet(Threads) /\ IsFiniteSet(Spaces) /\ IsFiniteSet(Frames)
    /\ NPages \in Nat \ {0} /\ Around \in Nat \ {0}
    /\ File \notin {Anon, None} /\ NoSpace \notin Spaces /\ None \notin Frames
    /\ Shifts \subseteq Nat
    /\ Prots \subseteq {"none", "r", "rw"}
    /\ TablesFail \in BOOLEAN
    /\ Calls \subseteq {"mmap", "file", "munmap", "mprotect", "discard", "mremap", "fork"}

Pages  == 0 .. NPages - 1
Ranges == {a .. b : a, b \in Pages} \ {{}}

Areas == [prot : Prots, back : {Anon}, shift : {0}] \cup [prot : Prots, back : {File}, shift : Shifts]

VARIABLES
    area,   \* the area of each page of each space, or NoArea
    pte,    \* the entry of each page in the page tables, or NoPte
    refs,   \* REFCOUNT: 0 for a free frame
    origin, \* what a frame was filled with: zeros or a page of the file
    sp,     \* the space of each thread, or NoSpace
    op      \* what the kernel does for each thread

vars == <<area, pte, refs, origin, sp, op>>

User == [pc |-> "user"]

\* Who holds VM is in the middle of a fault.
VmFree == \A t \in Threads : op[t].pc \notin {"count", "copy", "protect"}

Permits(prot, access) == prot = "rw" \/ (prot = "r" /\ access = "read")

FreeFrames == {f \in Frames : refs[f] = 0}

ref_count(f) == refs[f]

\* free_frame, n times: a count goes down, a frame whose count ends is free.
Dropped(f, n) == IF n >= refs[f] THEN 0 ELSE refs[f] - n

\* How many entries of table m name frame f in the pages ps.
Uses(m, f, ps) == Cardinality({p \in ps : m[p] # NoPte /\ m[p].frame = f})

\* inc_ref for every entry of table m.
inc_ref(m) == [f \in Frames |-> refs[f] + Uses(m, f, Pages)]

\* What fills page p of an area.
Zeros == [back |-> Anon, page |-> 0]
Content(a, p) == IF a.back = Anon THEN Zeros ELSE [back |-> a.back, page |-> p + a.shift]

\* Return to the program.
Done(t) == op' = [op EXCEPT ![t] = User]

-----------------------------------------------------------------------------
(* Faults *)

\* The hardware, or user_ok of a system call, finds no translation.
touch(t, p, access) ==
    /\ op[t] = User
    /\ sp[t] # NoSpace
    /\ LET e == pte[sp[t]][p] IN e # NoPte => ~Permits(e.prot, access)
    /\ op' = [op EXCEPT ![t] = [pc |-> "fault", page |-> p, access |-> access]]
    /\ UNCHANGED <<area, pte, refs, origin, sp>>

\* Under VM, the page has no area or the area denies the access: SIGSEGV, or
\* the error of the system call.
fault_denied(t) ==
    /\ op[t].pc = "fault"
    /\ VmFree
    /\ LET a == area[sp[t]][op[t].page] IN a # NoArea => ~Permits(a.prot, op[t].access)
    /\ Done(t)
    /\ UNCHANGED <<area, pte, refs, origin, sp>>

\* The fault is looked at, under VM.
Faulting(t) ==
    /\ op[t].pc = "fault"
    /\ VmFree
    /\ area[sp[t]][op[t].page] # NoArea
    /\ Permits(area[sp[t]][op[t].page].prot, op[t].access)

\* The page is there: VM is kept and the frame's count looked at next.
fault_mapped(t) ==
    /\ Faulting(t)
    /\ pte[sp[t]][op[t].page] # NoPte
    /\ op' = [op EXCEPT ![t] = [pc   |-> IF @.access = "write" THEN "count" ELSE "protect",
                                page |-> @.page]]
    /\ UNCHANGED <<area, pte, refs, origin, sp>>

\* A page of anonymous memory: a frame of zeros, if there is one.
fault_anon(t) ==
    LET s == sp[t]
        p == op[t].page
    IN /\ Faulting(t)
       /\ pte[s][p] = NoPte
       /\ area[s][p].back = Anon
       /\ Done(t)
       /\ \/ /\ FreeFrames = {} \/ TablesFail
             /\ UNCHANGED <<pte, refs, origin>>
          \/ \E f \in FreeFrames :
                /\ pte'    = [pte EXCEPT ![s][p] = [frame |-> f, prot |-> area[s][p].prot]]
                /\ refs'   = [refs EXCEPT ![f] = 1]
                /\ origin' = [origin EXCEPT ![f] = Zeros]
       /\ UNCHANGED <<area, sp>>

\* The pages from p on that may belong to the area of p, and how many of
\* them, up to Around, have no entry.
AreaOf(s, p)  == {q \in Pages : q >= p /\ \A r \in p .. q : area[s][r] = area[s][p]}
Missing(s, p) == {n \in 1 .. Around : \A q \in p .. p + n - 1 : q \in AreaOf(s, p) /\ pte[s][q] = NoPte}

\* A page of a file: VM is let go with a copy of the area.
fault_file(t) ==
    LET s == sp[t]
        p == op[t].page
    IN /\ Faulting(t)
       /\ pte[s][p] = NoPte
       /\ area[s][p].back = File
       /\ \E n \in Missing(s, p) :
             op' = [op EXCEPT ![t] = [pc |-> "read", page |-> p, v |-> area[s][p], n |-> n]]
       /\ UNCHANGED <<area, pte, refs, origin, sp>>

\* translate_user and ref_count, under VM: is the frame shared?
fault_count(t) ==
    /\ op[t].pc = "count"
    /\ LET e == pte[sp[t]][op[t].page] IN
       op' = [op EXCEPT ![t] = IF Permits(e.prot, "read") /\ ref_count(e.frame) > 1
                               THEN [pc |-> "copy", page |-> @.page, frame |-> e.frame]
                               ELSE [pc |-> "protect", page |-> @.page]]
    /\ UNCHANGED <<area, pte, refs, origin, sp>>


\* A private copy of the frame, if there is memory, and VM is let go.
fault_copy(t) ==
    LET s   == sp[t]
        p   == op[t].page
        old == op[t].frame
    IN /\ op[t].pc = "copy"
       /\ Done(t)
       /\ \/ /\ FreeFrames = {}
             /\ UNCHANGED <<pte, refs, origin>>
          \/ \E f \in FreeFrames :
                /\ pte'    = [pte EXCEPT ![s][p] = [frame |-> f, prot |-> area[s][p].prot]]
                /\ refs'   = [refs EXCEPT ![f] = 1, ![old] = Dropped(old, 1)]
                /\ origin' = [origin EXCEPT ![f] = origin[old]]
       /\ UNCHANGED <<area, sp>>

\* protect_range of one page, if it has an entry.
Protected(m, p, prot) == IF m[p] = NoPte THEN m ELSE [m EXCEPT ![p].prot = prot]

\* The entry gets the permissions of the area, and VM is let go.
fault_protect(t) ==
    LET s == sp[t]
        p == op[t].page
    IN /\ op[t].pc = "protect"
       /\ pte' = [pte EXCEPT ![s] = Protected(@, p, area[s][p].prot)]
       /\ Done(t)
       /\ UNCHANGED <<area, refs, origin, sp>>

\* No frame for the first page, or the file cannot be read.
fault_read_failed(t) ==
    /\ op[t].pc = "read"
    /\ Done(t)
    /\ UNCHANGED <<area, pte, refs, origin, sp>>

\* Without any lock: as many frames as there are, filled from the file.
fault_read(t) ==
    /\ op[t].pc = "read"
    /\ \E k \in 1 .. op[t].n : \E fs \in Injection(1 .. k, FreeFrames) :
          /\ refs'   = [f \in Frames |-> IF f \in Range(fs) THEN 1 ELSE refs[f]]
          /\ origin' = [f \in Frames |->
                IF f \in Range(fs)
                THEN Content(op[t].v, op[t].page + (CHOOSE i \in 1 .. k : fs[i] = f) - 1)
                ELSE origin[f]]
          /\ op' = [op EXCEPT ![t] = [pc |-> "map", page |-> @.page, v |-> @.v, frames |-> fs]]
    /\ UNCHANGED <<area, pte, sp>>

\* The area went away while the file was read: everything is given back.
fault_gone(t) ==
    /\ op[t].pc = "map"
    /\ VmFree
    /\ area[sp[t]][op[t].page] = NoArea
    /\ refs' = [f \in Frames |-> IF f \in Range(op[t].frames) THEN Dropped(f, 1) ELSE refs[f]]
    /\ Done(t)
    /\ UNCHANGED <<area, pte, origin, sp>>

\* Mutant: pages are mapped into whatever area is there now.
Fits_AnyFile(cur, v) == TRUE

\* May what was read for area v go into the area that is there now?
Fits(cur, v) == cur.back = v.back

\* Mutant: the permissions the area had when the fault began.
MapProt_Stale(cur, v) == v.prot

\* The permissions of the pages read.
MapProt(cur, v) == cur.prot

\* Mutant: the frames that are not needed are not given back.
Unneeded_None(fs, used) == {}

\* The frames read in vain.
Unneeded(fs, used) == {fs[i] : i \in DOMAIN fs \ used}

\* Under VM again: the pages still without an entry, in the area now there,
\* get their frames, the others are given back. If one that should be mapped
\* cannot be, its frame goes back; if it is the first, the call ends there.
fault_map(t) ==
    LET s  == sp[t]
        p  == op[t].page
        v  == op[t].v
        fs == op[t].frames
        cur == area[s][p]
    IN /\ op[t].pc = "map"
       /\ VmFree
       /\ cur # NoArea
       /\ \E end \in AreaOf(s, p) :
          LET fits == {i \in DOMAIN fs : p + i - 1 <= end /\ Fits(cur, v) /\ pte[s][p + i - 1] = NoPte} IN
          \E failed \in IF TablesFail THEN SUBSET fits ELSE {{}} :
             LET mapped == IF 1 \in failed THEN {} ELSE fits \ failed
                 back   == IF 1 \in failed THEN {fs[1]} ELSE Unneeded(fs, mapped)
                 m      == [q \in Pages |-> IF q - p + 1 \in mapped
                              THEN [frame |-> fs[q - p + 1], prot |-> MapProt(cur, v)]
                              ELSE pte[s][q]]
             IN /\ pte'  = [pte EXCEPT ![s] = IF 1 \in fits THEN m ELSE Protected(m, p, MapProt(cur, v))]
                /\ refs' = [f \in Frames |-> IF f \in back THEN Dropped(f, 1) ELSE refs[f]]
       /\ Done(t)
       /\ UNCHANGED <<area, origin, sp>>

-----------------------------------------------------------------------------
(* The calls, under VM *)

Calling(t, call) == op[t] = User /\ sp[t] # NoSpace /\ VmFree /\ call \in Calls

\* unmap_range: the entries go, and with each its reference.
unmap_range(s, ps) ==
    /\ pte'  = [pte EXCEPT ![s] = [p \in Pages |-> IF p \in ps THEN NoPte ELSE @[p]]]
    /\ refs' = [f \in Frames |-> Dropped(f, Uses(pte[s], f, ps))]

\* mmap at a free range, or over what is there (MAP_FIXED).
mmap(t, ps, a) ==
    LET s == sp[t] IN
    /\ Calling(t, IF a.back = Anon THEN "mmap" ELSE "file")
    /\ area' = [area EXCEPT ![s] = [p \in Pages |-> IF p \in ps THEN a ELSE @[p]]]
    /\ IF \E p \in ps : area[s][p] # NoArea
       THEN unmap_range(s, ps)
       ELSE UNCHANGED <<pte, refs>>
    /\ UNCHANGED <<origin, sp, op>>

munmap(t, ps) ==
    LET s == sp[t] IN
    /\ Calling(t, "munmap")
    /\ area' = [area EXCEPT ![s] = [p \in Pages |-> IF p \in ps THEN NoArea ELSE @[p]]]
    /\ unmap_range(s, ps)
    /\ UNCHANGED <<origin, sp, op>>

\* mprotect and its protect_range.
mprotect(t, ps, prot) ==
    LET s == sp[t] IN
    /\ Calling(t, "mprotect")
    /\ \A p \in ps : area[s][p] # NoArea
    /\ area' = [area EXCEPT ![s] = [p \in Pages |->
          IF p \in ps THEN [@[p] EXCEPT !.prot = prot] ELSE @[p]]]
    /\ pte' = [pte EXCEPT ![s] = [p \in Pages |->
          IF p \in ps /\ @[p] # NoPte THEN [@[p] EXCEPT !.prot = prot] ELSE @[p]]]
    /\ UNCHANGED <<refs, origin, sp, op>>

\* madvise(MADV_DONTNEED)
discard(t, ps) ==
    /\ Calling(t, "discard")
    /\ unmap_range(sp[t], ps)
    /\ UNCHANGED <<area, origin, sp, op>>

\* mremap that moves the n pages at `old` to `new`, where m > n pages are
\* free; the entries move along. (In place it is an mmap of what follows, to
\* a smaller size a munmap.)
mremap(t, old, n, new, m) ==
    LET s == sp[t] IN
    /\ Calling(t, "mremap")
    /\ n < m
    /\ area[s][old] # NoArea /\ area[s][old].back = Anon
    /\ old + n - 1 \in AreaOf(s, old)
    /\ \A p \in new .. new + m - 1 : p \in Pages /\ area[s][p] = NoArea
    /\ area' = [area EXCEPT ![s] = [p \in Pages |->
          IF p \in new .. new + m - 1 THEN area[s][old]
          ELSE IF p \in old .. old + n - 1 THEN NoArea ELSE @[p]]]
    /\ pte' = [pte EXCEPT ![s] = [p \in Pages |->
          IF p \in new .. new + n - 1 /\ @[p - new + old] # NoPte THEN @[p - new + old]
          ELSE IF p \in old .. old + n - 1 THEN NoPte ELSE @[p]]]
    /\ UNCHANGED <<refs, origin, sp, op>>

-----------------------------------------------------------------------------
(* Processes *)

Unused == {s \in Spaces : /\ \A t \in Threads : sp[t] # s
                          /\ \A t \in Threads : op[t].pc = "fork" => op[t].child # s}

\* Mutant: the parent keeps its right to write.
ParentPte_Keep(e) == e

\* clone_user_space: an entry that allows writing loses that right, in the
\* parent and in the child.
NoWrite(e)   == IF e # NoPte /\ e.prot = "rw" THEN [e EXCEPT !.prot = "r"] ELSE e
ParentPte(e) == NoWrite(e)

\* fork, first half: the page tables, under MMU only.
clone_user_space(t, c) ==
    LET s == sp[t] IN
    /\ op[t] = User
    /\ s # NoSpace
    /\ "fork" \in Calls
    /\ c \in Unused
    /\ pte'  = [pte EXCEPT ![s] = [p \in Pages |-> ParentPte(@[p])],
                           ![c] = [p \in Pages |-> NoWrite(pte[s][p])]]
    /\ refs' = inc_ref(pte[s])
    /\ op'   = [op EXCEPT ![t] = [pc |-> "fork", child |-> c]]
    /\ UNCHANGED <<area, origin, sp>>

\* fork, second half: the areas (clone_space, under VM), and the child runs.
\* Without memory for the table of areas it runs with none.
clone_space(t, u) ==
    LET c == op[t].child IN
    /\ op[t].pc = "fork"
    /\ VmFree
    /\ sp[u] = NoSpace
    /\ \E copied \in {TRUE, ~TablesFail} :
          area' = IF copied THEN [area EXCEPT ![c] = area[sp[t]]] ELSE area
    /\ sp'   = [sp EXCEPT ![u] = c]
    /\ Done(t)
    /\ UNCHANGED <<pte, refs, origin>>

\* free_user_space, under MMU.
free_user_space(s) == unmap_range(s, Pages)

\* fork finds no slot for the child.
fork_failed(t) ==
    /\ op[t].pc = "fork"
    /\ free_user_space(op[t].child)
    /\ Done(t)
    /\ UNCHANGED <<area, origin, sp>>

\* free_mm: the last thread of a process is gone.
exit(s) ==
    LET ts == {t \in Threads : sp[t] = s} IN
    /\ ts # {}
    /\ \A t \in ts : op[t] = User
    /\ free_user_space(s)
    /\ area' = [area EXCEPT ![s] = [p \in Pages |-> NoArea]]
    /\ sp'   = [t \in Threads |-> IF t \in ts THEN NoSpace ELSE sp[t]]
    /\ UNCHANGED <<origin, op>>

Init ==
    /\ area   = [s \in Spaces |-> [p \in Pages |-> NoArea]]
    /\ pte    = [s \in Spaces |-> [p \in Pages |-> NoPte]]
    /\ refs   = [f \in Frames |-> 0]
    /\ origin = [f \in Frames |-> Zeros]
    /\ \E s \in Spaces : sp = [t \in Threads |-> IF t \in Starters THEN s ELSE NoSpace]
    /\ op     = [t \in Threads |-> User]

fault(t) ==
    \/ fault_denied(t) \/ fault_mapped(t) \/ fault_anon(t) \/ fault_file(t)
    \/ fault_count(t) \/ fault_copy(t) \/ fault_protect(t)
    \/ fault_read(t) \/ fault_read_failed(t) \/ fault_gone(t) \/ fault_map(t)

Next ==
    \/ \E t \in Threads :
          \/ \E p \in Pages, access \in {"read", "write"} : touch(t, p, access)
          \/ fault(t)
          \/ \E ps \in Ranges :
                \/ \E a \in Areas : mmap(t, ps, a)
                \/ munmap(t, ps)
                \/ \E prot \in Prots : mprotect(t, ps, prot)
                \/ discard(t, ps)
          \/ \E old, new \in Pages, n, m \in 1 .. NPages : mremap(t, old, n, new, m)
          \/ \E c \in Spaces : clone_user_space(t, c)
          \/ \E u \in Threads : clone_space(t, u)
          \/ fork_failed(t)
    \/ \E s \in Spaces : exit(s)

Spec == Init /\ [][Next]_vars

-----------------------------------------------------------------------------
(* Properties *)

\* Frames that the fault of a thread has read and not mapped yet.
Held(t) == IF op[t].pc = "map" THEN Range(op[t].frames) ELSE {}

\* The count of a frame is exactly the number of entries that name it and of
\* faults that hold it: none is freed under a page, none is lost, whatever
\* areas change while a file is read and whoever forks, copies and ends.
FramesExact ==
    \A f \in Frames :
        refs[f] = Cardinality({x \in Spaces \X Pages :
                                 LET e == pte[x[1]][x[2]] IN e # NoPte /\ e.frame = f})
                  + Cardinality({t \in Threads : f \in Held(t)})

\* An entry lies in an area and lets the program do nothing the area denies,
\* though mprotect and munmap may come between the two halves of a fault.
PteAllowed ==
    \A t \in Threads : sp[t] # NoSpace =>
        \A p \in Pages : LET e == pte[sp[t]][p]
                             a == area[sp[t]][p]
                         IN e # NoPte =>
            /\ a # NoArea
            /\ \A access \in {"read", "write"} : Permits(e.prot, access) => Permits(a.prot, access)

\* A page in the tables shows what its area promises, zeros or its own page of
\* the file, though the area may have been replaced while the file was read,
\* and gives no more than its area allows.
PageRight ==
    /\ \A s \in Spaces, p \in Pages :
           pte[s][p] # NoPte /\ area[s][p] # NoArea
               => origin[pte[s][p].frame] = Content(area[s][p], p)
    /\ PteAllowed

\* fork gives the child a copy: a private frame that two entries name can be
\* written through neither, so no process sees what another one writes.
CowIsolated ==
    \A x, y \in Spaces \X Pages :
        LET e == pte[x[1]][x[2]]
            g == pte[y[1]][y[2]]
        IN x # y /\ e # NoPte /\ g # NoPte /\ e.frame = g.frame => e.prot # "rw"

=============================================================================
