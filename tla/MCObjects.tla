----------------------------- MODULE MCObjects ------------------------------
(***************************************************************************)
(* Components that share nothing, side by side: objects of shared memory,  *)
(* the table of areas of an address space, local sockets; the page tables  *)
(* of the three architectures, the queues of the devices, the display.     *)
(* Each behaviour is of one of them, its part.                             *)
(***************************************************************************)
EXTENDS Shm, TLC

CONSTANTS Talkers, Conns, Listeners, Cap, Backlog, PendingMax,
          MmapEnd, MaxVmas, Prots, MapObjs, Inos, Offsets,
          FAN, Machines,
          QSIZE, W, Pids, NoPid, Buses, CHUNK, Sizes, MaxBytes,
          MINW, MINH, SURF_W, SURF_H, MAXPIX, Modes, Default, Rects, Wishes, HostFails

\* What the proofs about local sockets need of their constants.
ASSUME TalkersAssumption ==
    /\ IsFiniteSet(Talkers) /\ IsFiniteSet(Conns) /\ IsFiniteSet(Listeners)
    /\ Cap \in Nat
    /\ PendingMax \in Nat

VARIABLES
    part,
    upc, call, key, moved, pending, taken, sched, len, eof, refs, lrefs, backlog, ufds,
    vmas, hint, vrefs, want,
    machine, mem, root, view, lost,
    world, booted, DEVS, RNGDEV, q, bufs, made, owed, FOCUS_PID, cpu, BUF, drawn, rng, filled,
    gpu, dims, res, shown, damage, lock, told

Keys == {<<"u", c, e>> : c \in Conns, e \in 0..1} \cup {<<"l", i>> : i \in Listeners}

Unix == INSTANCE UnixSocket WITH Procs <- Talkers, pc <- upc, fds <- ufds
Vma  == INSTANCE VmaTable WITH Objs <- MapObjs, refs <- vrefs
Tables  == INSTANCE PageTable
Devices == INSTANCE Virtio
Display == INSTANCE Gpu WITH size <- dims

sockets == <<upc, call, key, moved, pending, taken, sched, len, eof, refs, lrefs, backlog, ufds>>
areas   == <<vmas, hint, vrefs, want>>

tables  == <<machine, mem, root, view, lost>>
devices == <<world, booted, DEVS, RNGDEV, q, bufs, made, owed, FOCUS_PID, cpu, BUF, drawn, rng, filled>>
display == <<gpu, dims, res, shown, damage, lock, told>>

\* A part that is not the behaviour's is in one of its initial states.
MCInit ==
    /\ part \in {"shm", "unix", "vma", "tables", "devices", "display"}
    /\ Init /\ Unix!Init /\ Vma!Init
    /\ Tables!TableInit /\ Devices!VirtioInit /\ Display!GpuInit
    /\ part = "shm" \/ calls = CHOOSE c \in Programs : TRUE
    /\ part = "tables" \/ machine = CHOOSE m \in Machines : TRUE
    /\ part = "devices" \/ world = CHOOSE w \in Buses : TRUE
MCNext ==
    /\ UNCHANGED part
    /\ \/ part = "shm"     /\ Next               /\ UNCHANGED <<sockets, areas, tables, devices, display>>
       \/ part = "unix"    /\ Unix!Next          /\ UNCHANGED <<vars, areas, tables, devices, display>>
       \/ part = "vma"     /\ Vma!Next           /\ UNCHANGED <<vars, sockets, tables, devices, display>>
       \/ part = "tables"  /\ Tables!TableNext   /\ UNCHANGED <<vars, sockets, areas, devices, display>>
       \/ part = "devices" /\ Devices!VirtioNext /\ UNCHANGED <<vars, sockets, areas, tables, display>>
       \/ part = "display" /\ Display!GpuNext    /\ UNCHANGED <<vars, sockets, areas, tables, devices>>
MCSpec == MCInit /\ [][MCNext]_<<part, vars, sockets, areas, tables, devices, display>>

\* Processes and protections are interchangeable; objects are found in order.
Symmetry == Permutations(Procs) \cup Permutations(Prots) \cup Permutations(Frames)

\* Anonymous objects with mappings, and named ones.
MCPrograms ==
    {{"memfd", "dup", "close", "ftruncate", "write", "mmap", "munmap", "fork", "exit"},
     {"open", "unlink", "close", "ftruncate", "shrink", "fork", "exit"}}

\* Forks that run out of frames for tables; protections and shared pages of
\* the three architectures; pages that move between tables.
Rw == {"r", "w"}
Machine(a, n, users, makers, pages, prots, ops) ==
    [arch |-> a, frames |-> n, users |-> users, makers |-> makers,
     pages |-> pages, prots |-> prots, calls |-> ops]
MCMachines ==
    {Machine("riscv64", 8, {1, 2}, {1}, {1, 2}, {Rw}, {"map", "clone"}),
     Machine("riscv64", 7, {1, 2}, {1}, {1}, {Rw}, {"map", "clone", "unmap"}),
     Machine("aarch64", 9, {1, 2}, {1}, {2, 3}, {Rw}, {"map", "clone"}),
     Machine("aarch64", 8, {1, 2}, {1}, {3}, {{}}, {"map", "clone"}),
     Machine("x86_64", 9, {1, 2}, {1}, {3}, {Rw}, {"map", "shared", "clone"}),
     Machine("aarch64", 8, {1}, {1}, {3, 8}, {{}, Rw, {"x"}}, {"map", "protect", "unmap"}),
     Machine("x86_64", 8, {1}, {1}, {2, 8}, {{}, Rw, {"x"}}, {"map", "protect", "shared"}),
     Machine("riscv64", 5, {1}, {1}, {1, 2}, {{}, Rw, {"x"}}, {"map", "protect", "shared"}),
     Machine("x86_64", 8, {1}, {1}, {2, 3, 8}, {Rw}, {"map", "move", "unmap"}),
     Machine("riscv64", 8, {1, 2}, {1, 2}, {1}, {Rw}, {"map"})}

\* Keyboards and tablets in both orders, old and short ones among them; the
\* source of random bytes; no device at all.
Dev(id, abs) ==
    [id |-> id, abs |-> abs, magic |-> TRUE, ver |-> 2, version_1 |-> TRUE, accepts |-> TRUE, max |-> 64]
Bus(devs, kinds, n) == [bus |-> devs, kinds |-> kinds, events |-> n]
MCBuses ==
    {Bus(<<[Dev("input", FALSE) EXCEPT !.ver = 1], Dev("input", TRUE), Dev("input", FALSE)>>, {"key"}, 2),
     Bus(<<Dev("input", FALSE), [Dev("input", TRUE) EXCEPT !.max = 1]>>, {"key", "syn", "short"}, 2),
     Bus(<<Dev("input", TRUE)>>, {"key", "syn"}, 3),
     Bus(<<[Dev("input", FALSE) EXCEPT !.accepts = FALSE], Dev("rng", FALSE)>>, {}, 0),
     Bus(<<>>, {}, 0)}

MCModes == {<<0, 0>>, <<4, 2>>, <<4, 4>>}
MCDefault == <<2, 2>>
MCRects == {<<0, 0, 0, 0>>, <<1, 0, 1, 1>>, <<1, 1, 1, 9>>, <<3, 1, 4, 1>>, <<9, 0, 1, 1>>}
MCWishes == {<<2, 4>>, <<5, 2>>, <<3, 3>>, <<4, 4>>, <<1, 2>>}

\* Local sockets: a call that could proceed is not left asleep, see NoLostWakeup
\* of UnixSocket.
UnixWakes == part = "unix" => Unix!NoLostWakeup

\* The areas: sorted, and what the calls asked for, see TableExact of VmaTable.
TableExact == part = "vma" => Vma!TableExact

\* The counters of objects and connections are the descriptors, the places in
\* backlogs and the areas that name them, see RefsExact of each module.
ObjectRefs ==
    /\ RefsExact
    /\ part = "unix" => Unix!RefsExact
    /\ part = "vma" => Vma!RefsExact

\* Page tables, see ViewRight and FramesRight of PageTable.
TablesRight == part = "tables" => Tables!TablesRight

\* Queues of devices and the display, see EventsRight, BuffersApart,
\* DevicesRight and BytesFresh of Virtio, ScreenRight of Gpu.
DevicesRight ==
    /\ part = "devices" => Devices!VirtioRight
    /\ part = "display" => Display!ScreenRight
=============================================================================
