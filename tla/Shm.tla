-------------------------------- MODULE Shm --------------------------------
(***************************************************************************)
(* Shared memory objects (kernel/src/shm.rs): memfd_create, shm_open and   *)
(* shm_unlink, mmap(MAP_SHARED), ftruncate, page faults, dup, fork and the *)
(* end of a process, with the parts of file.rs and vm.rs that keep their   *)
(* references.                                                             *)
(*                                                                         *)
(* Each action is one critical section of SHM, with the FS section around  *)
(* it. VM stays locked over the sections of one munmap (VmFree). An object *)
(* has one page; a process makes one call at a time and maps an object at  *)
(* most once.                                                              *)
(***************************************************************************)
EXTENDS Integers, FiniteSets, FiniteSetsExt

CONSTANTS
    Procs,     \* processes
    MaxObjs,   \* MAX_OBJS
    Frames,    \* physical pages
    MaxFds,    \* MAX_FDS: descriptors of a process
    Names,     \* names under /dev/shm
    Programs   \* sets of system calls: the programs of a behaviour make one of them

NoFrame == "no_frame"
NoName  == "no_name"
Objs    == 1 .. MaxObjs

ASSUME ShmAssumption ==
    /\ MaxObjs \in Nat \ {0}
    /\ MaxFds \in Nat
    /\ NoFrame \notin Frames
    /\ NoName \notin Names
    /\ IsFiniteSet(Procs)

VARIABLES
    used,      \* the object exists
    fd_refs,   \* references of descriptors
    map_refs,  \* references of mappings (VMAs)
    name,      \* name of the object, or NoName
    size,      \* pages of the object: 0 or 1
    page,      \* its page, once created
    fds,       \* fds[p][o]: descriptors of o that p has
    maps,      \* objects that p maps
    pte,       \* pte[p][o]: page p reaches o through, once touched
    pc,        \* where p is in its system call
    obj,       \* the object that call is about, or the name to create
    calls      \* the system calls the programs of this behaviour make

objVars  == <<used, fd_refs, map_refs, name, size, page>>
procVars == <<fds, maps, pte>>
vars     == <<objVars, procVars, pc, obj, calls>>

\* "create": shm_open found no name; "trunc": it will truncate; "named" and
\* "install": the object is there, the descriptor is not (shm_open, memfd);
\* "drop": shm_open gives up the reference it took; "mmap": before the VMA;
\* "unmap", "fixed": with VM, an area is gone and its entry is still in the page
\* tables (munmap, and mmap that puts an object in its place).
PCs == {"user", "create", "trunc", "named", "install", "drop", "mmap", "unmap", "fixed", "dead"}

FreeFrames == Frames \ {page[o] : o \in Objs}

\* Descriptors: those of a process, and those that refer to an object, the 0th of
\* a process being the one that its call has yet to install or to drop.
Held(p) == {x \in Objs \X (1 .. MaxFds) : x[2] <= fds[p][x[1]]}
Taking(p, o) == pc[p] \in {"trunc", "named", "install", "drop"} /\ obj[p] = o
FdRefs(o) ==
    {x \in Procs \X (0 .. MaxFds) :
        IF x[2] = 0 THEN Taking(x[1], o) ELSE x[2] <= fds[x[1]][o]}
Mappers(o) == {p \in Procs : o \in maps[p]}

\* Nobody holds VM from one action to the next.
VmFree == \A p \in Procs : pc[p] \notin {"unmap", "fixed"}

May(p, call) == pc[p] = "user" /\ call \in calls
GotoWith(p, l, o) == pc' = [pc EXCEPT ![p] = l] /\ obj' = [obj EXCEPT ![p] = o]
Goto(p, l) == GotoWith(p, l, IF l \in {"user", "dead"} THEN Min(Objs) ELSE obj[p])

-----------------------------------------------------------------------------
(* shm.rs, under SHM *)

\* The first free entry of the table.
FreeObj(o) == ~used[o] /\ \A x \in Objs : x < o => used[x]

\* create: a new object with one reference of a descriptor (create_anon
\* takes it back at once).
create(o, n, refs, pages) ==
    /\ FreeObj(o)
    /\ used' = [used EXCEPT ![o] = TRUE]
    /\ fd_refs' = [fd_refs EXCEPT ![o] = refs]
    /\ map_refs' = [map_refs EXCEPT ![o] = 0]
    /\ name' = [name EXCEPT ![o] = n]
    /\ size' = [size EXCEPT ![o] = pages]
    /\ page' = [page EXCEPT ![o] = NoFrame]

\* Mutant: the mappings do not keep the object.
Gone_Descriptors(T, f, m, nm) == {o \in T : used[o] /\ f[o] = 0 /\ nm[o] = NoName}

\* maybe_free: the objects that go when the counters become f and m and the
\* names nm. Of what calls it with a negative delta, T are the objects.
Gone(T, f, m, nm) == {o \in T : used[o] /\ f[o] = 0 /\ m[o] = 0 /\ nm[o] = NoName}

\* The table with counters f and m and names nm, after maybe_free on T.
maybe_free(T, f, m, nm) ==
    LET gone == Gone(T, f, m, nm) IN
    /\ used' = [o \in Objs |-> used[o] /\ o \notin gone]
    /\ fd_refs' = f
    /\ map_refs' = m
    /\ name' = nm
    /\ size' = [o \in Objs |-> IF o \in gone THEN 0 ELSE size[o]]
    /\ page' = [o \in Objs |-> IF o \in gone THEN NoFrame ELSE page[o]]

\* fd_ref and map_ref: the counter of an object that exists, never below 0.
Plus(refs, o, delta) ==
    [refs EXCEPT ![o] = IF ~used[o] THEN @ ELSE IF @ + delta < 0 THEN 0 ELSE @ + delta]

fd_ref(o, delta) ==
    maybe_free(IF delta < 0 THEN {o} ELSE {}, Plus(fd_refs, o, delta), map_refs, name)

map_ref(o, delta) ==
    maybe_free(IF delta < 0 THEN {o} ELSE {}, fd_refs, Plus(map_refs, o, delta), name)

\* The object shm_open and shm_unlink find by name: the first one.
Named(n) == {o \in Objs : used[o] /\ name[o] = n}

\* truncate to no page, or to one: the page beyond the end goes back.
truncate(o, pages) ==
    /\ used[o]
    /\ size' = [size EXCEPT ![o] = pages]
    /\ page' = [page EXCEPT ![o] = IF pages = 0 THEN NoFrame ELSE @]
    /\ UNCHANGED <<used, fd_refs, map_refs, name>>

-----------------------------------------------------------------------------
(* file.rs *)

memfd(p) ==
    /\ May(p, "memfd")
    /\ \E o \in Objs : create(o, NoName, 1, 0) /\ GotoWith(p, "install", o)
    /\ UNCHANGED procVars

\* install_shm: a descriptor for the object, or EMFILE and drop_ref.
install_shm(p, after) ==
    LET o == obj[p] IN
    \/ /\ Cardinality(Held(p)) < MaxFds
       /\ fds' = [fds EXCEPT ![p][o] = @ + 1]
       /\ UNCHANGED <<objVars, maps, pte>>
       /\ Goto(p, after)
    \/ /\ Cardinality(Held(p)) >= MaxFds
       /\ fd_ref(o, -1)
       /\ UNCHANGED procVars
       /\ Goto(p, after)

memfd_install(p) == pc[p] = "install" /\ install_shm(p, "user")

\* open of /dev/shm/<n>: open_named, then with O_CREAT and O_EXCL the
\* reference is dropped and the call fails (stat of the name takes and
\* drops a reference in the same way).
open(p, n, creat, excl, trunc) ==
    /\ May(p, "open")
    /\ \/ /\ Named(n) = {} /\ creat
          /\ GotoWith(p, "create", n)
          /\ UNCHANGED objVars
       \/ /\ Named(n) # {}
          /\ fd_ref(Min(Named(n)), 1)
          /\ GotoWith(p, IF creat /\ excl THEN "drop" ELSE IF trunc THEN "trunc" ELSE "named",
                      Min(Named(n)))
    /\ UNCHANGED procVars

open_create(p) ==
    /\ pc[p] = "create"
    /\ \/ \E o \in Objs, l \in {"trunc", "named"} :
             create(o, obj[p], 1, 0) /\ GotoWith(p, l, o)
       \/ /\ \A o \in Objs : used[o]                                \* ENFILE
          /\ UNCHANGED objVars
          /\ Goto(p, "user")
    /\ UNCHANGED procVars

open_trunc(p) ==
    /\ pc[p] = "trunc"
    /\ \/ truncate(obj[p], 0)
       \/ ~used[obj[p]] /\ UNCHANGED objVars           \* the error is ignored
    /\ Goto(p, "named")
    /\ UNCHANGED procVars

open_install(p) == pc[p] = "named" /\ install_shm(p, "drop")

open_drop(p) ==
    /\ pc[p] = "drop"
    /\ fd_ref(obj[p], -1)
    /\ Goto(p, "user")
    /\ UNCHANGED procVars

\* Mutant: shm_unlink takes the name and leaves the object.
unlink_Keep(p, n) ==
    /\ May(p, "unlink")
    /\ Named(n) # {}
    /\ name' = [name EXCEPT ![Min(Named(n))] = NoName]
    /\ UNCHANGED <<used, fd_refs, map_refs, size, page, procVars, pc, obj>>

unlink(p, n) ==
    /\ May(p, "unlink")
    /\ Named(n) # {}
    /\ maybe_free({Min(Named(n))}, fd_refs, map_refs, [name EXCEPT ![Min(Named(n))] = NoName])
    /\ UNCHANGED <<procVars, pc, obj>>

dup(p, o) ==
    /\ May(p, "dup")
    /\ fds[p][o] > 0
    /\ Cardinality(Held(p)) < MaxFds
    /\ fd_ref(o, 1)
    /\ fds' = [fds EXCEPT ![p][o] = @ + 1]
    /\ UNCHANGED <<maps, pte, pc, obj>>

close(p, o) ==
    /\ May(p, "close")
    /\ fds[p][o] > 0
    /\ fd_ref(o, -1)
    /\ fds' = [fds EXCEPT ![p][o] = @ - 1]
    /\ UNCHANGED <<maps, pte, pc, obj>>

ftruncate(p, o, pages) ==
    /\ May(p, "ftruncate")
    /\ fds[p][o] > 0
    /\ pages = 0 => "shrink" \in calls
    /\ truncate(o, pages)
    /\ UNCHANGED <<procVars, pc, obj>>

\* write to a descriptor (rw): the object grows, its page is created. The
\* growth stays if there is no page left.
write(p, o) ==
    /\ May(p, "write")
    /\ fds[p][o] > 0 /\ used[o]
    /\ size' = [size EXCEPT ![o] = 1]
    /\ \E f \in IF page[o] # NoFrame THEN {page[o]}
              ELSE IF FreeFrames = {} THEN {NoFrame} ELSE FreeFrames :
          page' = [page EXCEPT ![o] = f]
    /\ UNCHANGED <<used, fd_refs, map_refs, name, procVars, pc, obj>>

-----------------------------------------------------------------------------
(* linux.rs and vm.rs *)

\* mmap(MAP_SHARED) of a descriptor: fd_obj under FS, the VMA later.
mmap(p, o) ==
    /\ May(p, "mmap")
    /\ fds[p][o] > 0
    /\ o \notin maps[p]
    /\ GotoWith(p, "mmap", o)
    /\ UNCHANGED <<objVars, procVars>>

\* mmap(MAP_SHARED | MAP_ANONYMOUS): create_anon, the VMA later.
mmap_anon(p) ==
    /\ May(p, "mmap")
    /\ \E o \in Objs \ maps[p] : create(o, NoName, 0, 1) /\ GotoWith(p, "mmap", o)
    /\ UNCHANGED procVars

\* mmap_full: the VMA with its reference, or ENOMEM and release_unused (for
\* an object of a descriptor the error leaves everything as it was, and so
\* would maybe_free).
mmap_full(p) ==
    LET o == obj[p] IN
    /\ pc[p] = "mmap"
    /\ \/ /\ VmFree
          /\ map_ref(o, 1)
          /\ maps' = [maps EXCEPT ![p] = @ \cup {o}]
       \/ /\ maybe_free({o}, fd_refs, map_refs, name)
          /\ UNCHANGED maps
    /\ Goto(p, "user")
    /\ UNCHANGED <<fds, pte>>

\* mmap_full with MAP_FIXED in the place of the area of x: carve drops its
\* reference, and SHM is let go.
mmap_over(p, x) ==
    /\ pc[p] = "mmap" /\ VmFree
    /\ x \in maps[p]
    /\ map_ref(x, -1)
    /\ maps' = [maps EXCEPT ![p] = @ \ {x}]
    /\ Goto(p, "fixed")
    /\ UNCHANGED <<fds, pte>>

\* unmap_range and flush_range: no entry is left without an area.
unmap_range(p) ==
    pte' = [pte EXCEPT ![p] = [o \in Objs |-> IF o \in maps[p] THEN pte[p][o] ELSE NoFrame]]

\* The rest of it: the entry goes, the new area comes with its reference.
mmap_fixed(p) ==
    /\ pc[p] = "fixed"
    /\ unmap_range(p)
    /\ map_ref(obj[p], 1)
    /\ maps' = [maps EXCEPT ![p] = @ \cup {obj[p]}]
    /\ Goto(p, "user")
    /\ UNCHANGED fds

\* fault on a mapped object: its page, created on first use, is mapped.
\* Beyond the end, or without free pages, the fault is an error.
fault(p, o) ==
    /\ May(p, "mmap") /\ VmFree
    /\ o \in maps[p] /\ pte[p][o] = NoFrame
    /\ used[o] /\ size[o] = 1
    /\ \E f \in IF page[o] = NoFrame THEN FreeFrames ELSE {page[o]} :
          /\ page' = [page EXCEPT ![o] = f]
          /\ pte' = [pte EXCEPT ![p][o] = f]
    /\ UNCHANGED <<used, fd_refs, map_refs, name, size, fds, maps, pc, obj>>

\* munmap (and mmap of something else with MAP_FIXED): carve drops the reference,
\* which may give the page back, and SHM is let go.
munmap(p, o) ==
    /\ May(p, "munmap") /\ VmFree
    /\ o \in maps[p]
    /\ map_ref(o, -1)
    /\ maps' = [maps EXCEPT ![p] = @ \ {o}]
    /\ GotoWith(p, "unmap", o)
    /\ UNCHANGED <<fds, pte>>

\* Then the range is unmapped, and VM let go.
munmap_range(p) ==
    /\ pc[p] = "unmap"
    /\ unmap_range(p)
    /\ Goto(p, "user")
    /\ UNCHANGED <<objVars, fds, maps>>

\* Mutant: the child's mappings are not counted.
fork_NoMapRef(p, q) ==
    /\ May(p, "fork") /\ VmFree
    /\ pc[q] = "dead"
    /\ fd_refs' = [o \in Objs |-> fd_refs[o] + fds[p][o]]
    /\ fds' = [fds EXCEPT ![q] = fds[p]]
    /\ maps' = [maps EXCEPT ![q] = maps[p]]
    /\ pte' = [pte EXCEPT ![q] = pte[p]]
    /\ Goto(q, "user")
    /\ UNCHANGED <<used, map_refs, name, size, page>>

\* fork: clone_space and clone_table. The child q shares the pages.
fork(p, q) ==
    /\ May(p, "fork") /\ VmFree
    /\ pc[q] = "dead"
    /\ maybe_free({}, [o \in Objs |-> IF used[o] THEN fd_refs[o] + fds[p][o] ELSE fd_refs[o]],
                      [o \in Objs |-> IF used[o] /\ o \in maps[p] THEN map_refs[o] + 1
                                      ELSE map_refs[o]], name)
    /\ fds' = [fds EXCEPT ![q] = fds[p]]
    /\ maps' = [maps EXCEPT ![q] = maps[p]]
    /\ pte' = [pte EXCEPT ![q] = pte[p]]
    /\ Goto(q, "user")

\* The end of a process: file::release, free_user_space and vm::release, every
\* reference of the process dropped, the page tables before those of its areas.
\* (Counters never go below 0.)
exit(p) ==
    /\ May(p, "exit") /\ VmFree
    /\ LET Less(a, b) == IF a < b THEN 0 ELSE a - b
           held == {o \in Objs : fds[p][o] > 0} \cup maps[p]
       IN maybe_free(held,
             [o \in Objs |-> IF used[o] THEN Less(fd_refs[o], fds[p][o]) ELSE fd_refs[o]],
             [o \in Objs |-> IF used[o] /\ o \in maps[p] THEN Less(map_refs[o], 1)
                             ELSE map_refs[o]], name)
    /\ fds' = [fds EXCEPT ![p] = [o \in Objs |-> 0]]
    /\ maps' = [maps EXCEPT ![p] = {}]
    /\ pte' = [pte EXCEPT ![p] = [o \in Objs |-> NoFrame]]
    /\ Goto(p, "dead")

-----------------------------------------------------------------------------
Init ==
    /\ used = [o \in Objs |-> FALSE]
    /\ fd_refs = [o \in Objs |-> 0]
    /\ map_refs = [o \in Objs |-> 0]
    /\ name = [o \in Objs |-> NoName]
    /\ size = [o \in Objs |-> 0]
    /\ page = [o \in Objs |-> NoFrame]
    /\ fds = [p \in Procs |-> [o \in Objs |-> 0]]
    /\ maps = [p \in Procs |-> {}]
    /\ pte = [p \in Procs |-> [o \in Objs |-> NoFrame]]
    /\ pc = [p \in Procs |-> "user"]
    /\ obj = [p \in Procs |-> Min(Objs)]
    /\ calls \in Programs

Opens(p) ==
    \/ \E n \in Names, creat, excl, trunc \in BOOLEAN : open(p, n, creat, excl, trunc)
    \/ \E n \in Names : unlink(p, n)
    \/ open_create(p) \/ open_trunc(p) \/ open_install(p) \/ open_drop(p)

Next ==
    /\ UNCHANGED calls
    /\ \E p \in Procs :
        \/ memfd(p) \/ memfd_install(p) \/ mmap_anon(p) \/ mmap_full(p) \/ exit(p)
        \/ mmap_fixed(p) \/ munmap_range(p)
        \/ Opens(p)
        \/ \E o \in Objs : \/ dup(p, o) \/ close(p, o) \/ write(p, o) \/ mmap(p, o)
                           \/ fault(p, o) \/ munmap(p, o) \/ mmap_over(p, o)
                           \/ \E pages \in 0 .. 1 : ftruncate(p, o, pages)
        \/ \E q \in Procs : fork(p, q)

Spec == Init /\ [][Next]_vars

-----------------------------------------------------------------------------
(* Properties *)

\* No object is kept for nobody: one that exists has a name, a descriptor, a
\* mapping, or a call under way that will refer to it or drop it.
NoLeak ==
    \A o \in Objs : used[o] =>
        \/ name[o] # NoName
        \/ \E p \in Procs : \/ fds[p][o] > 0
                             \/ o \in maps[p]
                             \/ (pc[p] \notin {"user", "unmap", "dead"} /\ obj[p] = o)

\* "Ele e referenciado por descritores (fd_refs) e por VMAs (map_refs)": no
\* object is kept for nobody, and the counters are the descriptors (with those
\* about to be installed) and the mappings of the object, through dup, fork,
\* close, munmap and exit, for programs that use no names (shm_open:
\* OpenCounted).
RefsExact ==
    /\ NoLeak
    /\ "open" \notin calls => \A o \in Objs :
        /\ fd_refs[o] = Cardinality(FdRefs(o))
        /\ map_refs[o] = Cardinality(Mappers(o))

\* p may touch its memory: it is not between carve and unmap_range, or it has
\* threads besides the one that is ("threads": what they call is left out).
Runs(p) == pc[p] \notin {"unmap", "fixed"} \/ "threads" \in calls

\* "as paginas so voltam ao alocador quando nao sobra referencia nenhuma":
\* a page that a process can reach, now, through its tables is the page of its
\* object, never a free one or one given to somebody else, although munmap gives
\* pages back before it clears their entries. For programs that do not shrink
\* what is mapped and have no second thread to look through the entry meanwhile
\* (PagesKept fails for both: shm.rs:173, vm.rs:317).
PagesKept ==
    \A p \in Procs, o \in Objs : pte[p][o] # NoFrame /\ Runs(p) =>
        /\ used[o] /\ page[o] = pte[p][o]
        /\ \A x \in Objs \ {o} : page[x] # pte[p][o]

\* "a referencia agora e do descritor": once shm_open has returned, the
\* object has a reference for each of its descriptors.
OpenCounted ==
    \A o \in Objs : (\A p \in Procs : pc[p] \in {"user", "mmap", "unmap", "fixed", "dead"}) =>
        fd_refs[o] >= Cardinality(FdRefs(o))

=============================================================================
