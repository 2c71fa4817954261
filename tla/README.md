# Verification of Pulsar OS

TLA+ models of the Pulsar kernel (`kernel/src/`, Rust, SMP, no big kernel lock) and of
its window manager (`user/shell`, `user/plib`), model-checked with TLC; the scheduler, the
IPC, pipes, virtual memory, TCP, UDP, signals, futexes and shared memory are also proved with TLAPS. All paths below are relative to the repository.

## 1. The system

Pulsar is a small multiprocessor kernel (x86-64, AArch64, RISC-V) with two
system-call ABIs: its own (`syscall.rs`: processes, synchronous IPC, graphics) and
Linux's (`linux.rs`: enough for glibc programs and Firefox). The kernel runs with
interrupts masked; CPUs exclude each other with one spinlock per subsystem,
nested in the order written at the top of `sync.rs`.

| part | state | operations | what is hard | what makes it correct |
|---|---|---|---|---|
| process table, scheduler (`process.rs`, `trap.rs`) | `PROCS`, `CURRENT`, `RR_NEXT`, `GENERATION`, `EXITS`; lock SCHED | create, thread, fork, vfork, exec, exit, kill, wait, sleep, yield, preempt | other CPUs run the victims; slots are reused; a trap takes SCHED twice | a Running slot on one CPU; spaces freed with their last user; nobody waits for the dead; no starvation |
| synchronous IPC (`process.rs`) | `peer`, `send_to`, inbox of each slot | send, receive, try, reply | death of a partner, time-outs | partners exist; a send and a receive meet |
| I/O wait protocol (`process.rs`, `file.rs`) | `IO_SEQ`, `PENDING`, `BLOCK_ON`; locks SCHED and FS | would_block, push_wake, flush_wakes, io_wait_until, io_wake | the sleep and the wake-up are under different locks | no lost wake-up |
| pipes, eventfd, epoll, descriptors (`file.rs`) | `FDS`, tables of objects; lock FS | open, dup, fork, exec, close, read, write, poll, epoll_wait | references from many places, waits on several keys | exact counts; no event missed |
| local sockets (`unix.rs`) | `CONNS`, `LISTENERS` | socketpair, listen, connect, accept, read, write, SCM_RIGHTS, shutdown, close | backlogs of connections already in use; descriptors in flight | exact counts; readers, servers and writers wake |
| shared memory (`shm.rs`) | `OBJS`; lock SHM | memfd, shm_open, shm_unlink, ftruncate, write, mmap, fault, munmap, fork, exit | three kinds of reference; shm_open is several critical sections | exact counts; no page freed while a process can reach it |
| virtual memory (`vm.rs`) | VMAs of each space; lock VM | mmap, munmap, mprotect, mremap, fault, fork | splitting, demand paging, sharing after fork | disjoint areas; pages match areas |
| page tables (`arch/*/mmu.rs`), frames (`frame_allocator.rs`) | trees of tables, bitmap, counts; locks MMU, FRAME | map, unmap, protect, clone, free | out of memory half way; entries of the kernel | each frame free or owned once |
| signals (`signal.rs`) | pending sets, masks, handlers | send, deliver, sigreturn, suspend | send and delivery on different CPUs; waits that are made again | taken in the end; masks come back |
| futexes (`process.rs`) | key of each sleeper | wait, wake, requeue, clear_child_tid | the user word changes meanwhile | no lost wake-up |
| ext2 (`ext2.rs`, `fs.rs`, `blk.rs`) | disk, caches; lock FS | open, read, write, rename, unlink, truncate | one step of several failing; files removed while open | links, blocks and names right; no write lost |
| network (`net.rs`) | one TCP connection per handle, ring of datagrams; lock NET | connect, send, receive, close, segments, timers | lost, repeated, reordered packets | a byte stream each way; nobody stuck |
| devices (`virtio.rs`, `input.rs`, `rng.rs`, `gpu.rs`, `fb.rs`) | split queues, back buffer | drain, request, present, set_resolution | the device writes while a CPU reads | no event or byte lost, doubled or half written |
| window manager (`user/shell`, `user/plib`) | windows, surfaces, capture, drag, menus | IPC of clients, input, timers, crash and restart | places reused; clients and manager die | capture, drag and surfaces reach the window they were taken for; calls end |
| spinlocks, loader, other file systems, boot | — | — | section 6 | — |

Interactions: a system call enters through `trap.rs` (`exit_if_killed`, then
`syscall.rs` or `linux.rs`), works on an object under that object's lock, and
either returns, flushing the wake-ups it queued, or sleeps under SCHED and is made
again when woken. The end of a process (`reap`) closes its descriptors (SCHED then
FS), its mappings (VM then SHM) and wakes whoever waited for it. Applications talk to the
window manager by synchronous IPC and share their surfaces with it.

## 2. Modules

| module | models | notes |
|---|---|---|
| `Process` | `process.rs`, `trap.rs` | one atomic action per critical section of SCHED |
| `IoWait` | the I/O wait protocol | base module without objects |
| `Pipe` | pipes of `file.rs` | extends `IoWait` |
| `UnixSocket` | `unix.rs` and its callers | extends `IoWait` |
| `Files` | descriptors and what is behind them: `file.rs`, `unix.rs` | the protocol of `IoWait` reduced to two steps |
| `Shm` | `shm.rs` and its callers | |
| `VmaTable` | the tables of areas of `vm.rs` | sequential: every call holds VM |
| `Vm` | faults, page tables, frames: `vm.rs`, `frame_allocator.rs`, `arch/riscv64/mmu.rs` | areas as `VmaTable` shows them to be |
| `PageTable` | `mmu.rs` of the three architectures | `Vm` has a function in its place |
| `Signal` | `signal.rs`, futexes and interrupted waits of `process.rs`, `linux.rs` | |
| `Ext2` | names, inodes, links, open files: `ext2.rs`, `file.rs` | |
| `BlockCache` | the cache of blocks of `ext2.rs` over `blk.rs` | |
| `BlockMap` | block pointers, bitmaps and groups of `ext2.rs` | |
| `ByteStream` | what a byte stream promises | abstract specification |
| `Tcp`, `Udp`, `Net` | `net.rs` | `Net` joins the two; `Tcp` implements `ByteStream` twice |
| `Virtio` | `virtio.rs`, `input.rs`, `rng.rs` | steps are accesses the device can see |
| `Gpu` | `gpu.rs`, `fb.rs` | |
| `Wm` | `user/shell/src/main.rs`, `user/plib/src/lib.rs` | |
| `*Proofs` | theorems, section 5 | TLAPS |
| `MC*` | instances; `MCObjects`, `MCExt2` put independent parts side by side | TLC |

### Process

The table is a set of functions over the slots. `current[c]` is `CURRENT`,
`mode[c]` says in which half of a trap CPU `c` is: `Enter` is `exit_if_killed`,
which lets SCHED go before the system call or the preemption takes it again, so
kills and other calls of other CPUs come in between. Each system call that changes
the table is one action (`Create` is `create_ex` and a fork with a space of its
own; `Vfork` is `fork` with `new_root = None`), and every one ends in `Return`, in
`Block` or in `Dispatch`, as in the code. `reap` is `Doomed` (who dies now),
`Marked` (who runs elsewhere and is only marked), `Reaped` (the states after it),
`DropSpaces`, `RecordExit` and `ForgetVfork`.

Abstractions. Time: each deadline is a bit that passes when the environment says
so. Signals (module `Signal`), exit statuses, CPU accounting, affinity, names and message contents
are left out. IPIs are not stored: a CPU
may take a trap at any time, which includes every instant an IPI would cause.
A `waitid` caller is woken and calls again by
itself. `root` names page tables: an owner has two names so that `execve` can build
the new tables while the old ones exist. Fields read in one blocked state only are
forgotten on leaving it. `partner_pid` and `vfork_pid` are history: they record which
process a slot number meant when it was stored, so that reuse of the slot is visible.

### IoWait, Pipe, UnixSocket

A call is: work on the object under FS (one action), `flush` (take `PENDING` under
FS), `fire` (each key under SCHED, one action per key), `wait` (`io_wait_until`
under SCHED), `IoWait` (asleep). Between any two of these every other process may
move. The counters `IO_SEQ` are one bit per waiter, `moved`: did the counter of my
key move since I read it? Two keys that share one counter of the 64 only cause
a needless repetition of the call. The end of a process holds SCHED while it closes
its descriptors and flushes; `sched` records that, since `io_wake` and
`io_wait_until` of other processes must wait.

Bytes are counted, not stored. A process holds at most one descriptor of an end and
its table never fills (`Files` has the tables). In `UnixSocket` the key of a connection end is
also the name of its descriptor. Only stream mode is modelled; a connection without any descriptor is
free for reuse, as in the code.

### Files

Each process has its table of descriptors; `refs` are the counters, `obj` the tables of objects. A call is one
critical section of FS; what it owes to sleepers goes to `pending` and is fired by `flush_wakes` when the
call is over. A call that waits records the keys it looks at (`mask`), what it is to hear of (`waits`, history) and
sleeps in a later step, unless one of the keys moved; sockets over TCP make it sleep in slices. Who no longer waits forgets both. Descriptors
on their way (SCM_RIGHTS, with messages that have no byte), reading a text of /proc, listeners of local and of loopback addresses, the states of
a TCP socket, and the levels, edges and one-shots of epoll are there. `calls` selects what the programs of one
behaviour do.

### Shm

Each action is a critical section of SHM with the FS section around it.
`shm_open` is its real sequence: look up, create, truncate, install, drop; `mmap` is two
sections (`fd_obj`, then the VMA). VM stays locked over more than one of them: `munmap` drops the area and its reference (`carve`), which
may give the pages back, lets SHM go, and only `munmap_range` clears the entries (`unmap_range`); `mmap_over` and `mmap_fixed`
are the same two halves of a MAP_FIXED. In between, other processes work on objects and may take the pages, but no call that needs VM goes on
(`VmFree`). One page per object, one mapping of an object per process, one call at a time per process. The member `"shrink"` of `calls` allows
`ftruncate` to the empty size, `"threads"` gives each process another thread that may look through the page tables while the first is in the kernel.

### VmaTable, Vm, PageTable

`VmaTable` is the table of one space as the sorted sequence it is, with the operators of `Space`
(`lower`, `find`, `carve`, `add_vma`, `split_at`, `gap`) and one action per call. Addresses are page
numbers from `MMAP_BASE`; errors change nothing and are left out; the doubling of the vector is a limit
(`MaxVmas`). `want` is history: page by page, what the calls so far asked for.

`Vm` has an area per page, an entry per page in each space's tables, a count per frame. `fault` is cut where other
code may run: before VM is taken (`touch`, then `fault_denied`, `fault_mapped`, `fault_anon`,
`fault_file`), between the look at a frame's count and what follows from it (`fault_count`, then
`fault_copy` or `fault_protect`: VM is held, but fork and exit need only MMU), and around the reading of
a file, for which VM is let go (`fault_read`, then `fault_gone` or `fault_map`). `fork` is
`clone_user_space` (MMU) and later `clone_space` (VM). Contents are where a frame was filled from, writes
are entries that allow them. Which frame is taken next is left open, and so is where an area ends among
neighbours that are alike. TLBs, the heap and the thread id that `fork` stores for the child are left out.

`PageTable` is the trees themselves for the three architectures: how deep they are, which entries the
kernel has in them, which bits a protection becomes, what `clone_user_space` does when memory runs out half
way, and what is returned at the end. `view` is history: what each page is meant to be. `Machines` lists what a behaviour is
about (architecture, frames, spaces, pages, calls).

### Signal

The threads of one Linux process: the actions, masks and pending sets, the frames of handlers, and what a
signal does to each of the waits (child, sleep, futex, rt_sigsuspend, file, poll). Every action but `look` is one
critical section of SCHED; `look` and `send` are the two halves of a kill from outside. A call that is to be made
again is `again`, the mark and the deadline of a poll are `in_poll` and `io_deadline`. A futex word is shared (`Lock`) or the
id of a thread, which its end clears. `want` is history: the mask the program asked for.

### Ext2, BlockCache, BlockMap

Every call holds FS, so a call is one action; the three modules look at three layers. `Ext2` has directories as
functions from names to inodes, links, orphans, the cache of names with its hash, and calls that run out of
blocks half way. `BlockCache` has sets of ways, dirty slots, the gathering of write-backs into requests, read-ahead and
disk requests that fail; `truth` is what a reader must find. `BlockMap` has direct and indirect pointers, groups
and bitmaps; `text` is what each half block must show.

### Tcp, Udp, Net, ByteStream

`Tcp` is one connection: the calls, `tcp_input` and `tcp_timers`, each under NET. The wire is a set, so segments are lost, repeated and
reordered; the peer follows the protocol and answers as it likes within its window. Sequence numbers count
modulo `W` and start just below the wrap. `ByteStream` says what a reader may be given; `Outbound` and
`Inbound` are its two instances (program to peer, peer to program). `Udp` is the ring of datagrams of all ports.

### Virtio, Gpu

`Virtio` cuts the code where the device can see or change memory: each descriptor, ring entry and index is a step.
The bus of a behaviour (`Buses`) has devices that are old, short of descriptors, or refuse features. `Gpu` relates the
pixels of the host's resource to the addresses of the back buffer over draws, presents and changes of resolution; the
lock is between `transfer` and `flush`.

### Wm

The loop of the manager as it goes round (`serve_ipc`, `handle_input`, `fast_tick`, `release_parked`, `render`, wait), the
clients with their blocking calls, `init`, which starts a new manager (fewer times than its `MAX_BURST`), and the users of `Worlds`. Where things are on
the screen is left open: the pointer may be over any visible window.

## 3. What is checked

| run | instance | properties |
|---|---|---|
| `process` | 3 slots, 2 CPUs, 4 creations, all of thread, vfork (by owners of their space), exec, exit, exit_group, fault, kill | `RunningOnOneCpu`, `SpaceExact`, `OwnerSuspended` |
| `ipc` | 3 slots, 2 CPUs, 4 creations, single-threaded processes | `PartnerAlive`, `RendezvousMet`, `WaiterHasChild` |
| `sched_live` | 3 slots, 2 CPUs, yield and sleep | `ReadyRuns`, `TimedWaitEnds` (fair) |
| `pipe` | 3 processes, 1 pipe of 1 byte | `NoLostWakeup`, `RefsExact`, `SleeperWakes` (fair) |
| `objects` | shared memory (2 processes, 2 objects, 2 pages); local sockets (2 processes, 1 connection, 1 listener); areas (4 pages, 3 areas, 2 protections); page tables (ten machines of 5 to 9 frames, 2 entries a table); queues of devices (2 descriptors, 5 buses); display of 8 pixels | `ObjectRefs`, `PagesKept`, `UnixWakes`, `TableExact`, `TablesRight`, `DevicesRight` |
| `vm` | 2 threads of one process, 3 pages, 2 frames, 1 file | `FramesExact`, `PageRight` |
| `vm_fork` | 3 processes, 2 pages, 3 frames | `CowIsolated` |
| `net` | one connection with up to 3 bytes each way, 2 segments in flight, sequence numbers modulo 16, buffers of 3 and 2 bytes; a ring of 2 datagrams for 2 ports | `NeverStuck`, `OldestFirst`, `Answered` (fair), `OutboundStream`, `InboundStream` |
| `ext2` | names: 4 inodes, 4 blocks, 2 names, 2 descriptors, 2 orphans; cache: 3 blocks in one set of 2 ways; maps: 2 files, two levels of indirection, 2 groups of 2 blocks | `InodesRight`, `OpenKept`, `NamesRight`, `CacheRight`, `MapRight` |
| `signal` | 2 threads, 2 signals, 4 actions, 5 programs | `MaskRestored`, `PollWhole`, `FutexWoken`, `SignalTaken` (fair) |
| `wm` | 2 windows, 2 surfaces, 2 processes, 11 worlds | `OwnersRight`, `AppSurvives`, `CloseEnds` (fair) |
| `files` | 2 threads of one process or of two, 3 descriptors each, one object of each kind, messages of 0 or 1 byte, 2 messages and 2 lots of descriptors a queue, 15 programs | `RefsExact`, `NoneLeftBehind`, `NoEventLost` |

Bounds. Three slots are the least at which a slot can be reused while its former
neighbours still refer to it by number on both CPUs; `MaxCreations` = 4 lets one slot be
taken twice. `ExitsMax` = 1 makes the ring of exits overwrite. One byte of capacity makes a pipe both
empty and full; two pending keys are all the keys of one pipe; the three processes are a sleeper, the one
that makes its pipe ready and the one that fires its key. One connection with
a backlog of one reaches every use of a listener; two messages and two lots of descriptors in a queue let one stand behind another, with a byte or without; three pending keys hold both ends and the listener. Two
objects let a freed entry be taken again; the second page shows a freed page in somebody else's object. Four pages and a
table that is full with three areas let a call cut an area in two and insert a third at the limit. Three
pages let mremap move a page to a hole of two, and two frames run out during a fault; three processes
share a frame with a grandchild and copy it one after the other. Tables of two entries keep every level of the trees, and the
numbers of frames are those at which each allocation of a clone fails in some behaviour. Two descriptors wrap the
ring of a queue after two events and its index (modulo 4) after four. `W` = 16 wraps within every
stream and still tells what is ahead from what is behind (`TcpAssumption`); one retry shows the first and the last. Four inodes are the
root, a directory, a file and one more to take the place of a freed one; three entries fill a directory's block. Two ways
and three blocks evict; two levels and two pointers a block give files that reach the second level with seven halves.
CPUs, frames, spaces and names are interchangeable, so the safety runs use symmetry; runs with liveness properties do not.

Deadlock is checked for `Process` (a CPU can always take a trap) and `Wm` (the manager never stops but at `Off`).
The other modules stop when all processes have ended or sleep on an empty object, which the programs
may well choose, or when the bounds are used up: `CHECK_DEADLOCK FALSE`.

Some properties hold only where their run says so. `OwnerSuspended` is checked for callers of vfork that own their
space, `WaiterHasChild` and `CowIsolated` for processes of one thread, `CowIsolated` without mprotect, `PageRight` for mappings that put each page of the file
at one place, `FramesExact` as long as there is memory for page tables, `PagesKept` without names, shrinking `ftruncate` and second threads, `NoneLeftBehind`
without empty messages on streams, `NoLostWakeup` and `SleeperWakes` with room for every key in `PENDING`, `InodesRight` as long as no call has stopped half way, `OwnersRight` for capture, drag and
surfaces, but not menus and the list of Alt+Tab, `MaskRestored` for
the empty mask of rt_sigsuspend, `PollWhole` for timeouts that stay readable, `SignalTaken` for the first of the signals and without futex and child waits,
`DevicesRight` for a host that accepts its commands, `NamesRight` for programs that do not both remove directories and look up ".."; elsewhere the code breaks them (section 4).

Fairness. `Process`: the timer interrupt of a CPU stays pending until the CPU is back in user
mode and is taken then (strong fairness of `Enter(c, "timer")`); the kernel half of a trap ends, an idle
CPU takes its timer, and time passes (weak fairness). `Pipe`: the tail of a system call (`flush`, `fire`, `wait`) is
kernel code that ends (weak fairness of `Protocol`). `Signal`: interrupts come, the end of a trap delivers, a call that decided to
wait does, deadlines pass. `Net`: some process keeps making network calls, and each of them runs the timers; `FairDelivery`, used
by `net_handshake.cfg` only, adds that the network delivers what is sent again and again. `Wm`: the manager is
scheduled and its loop advances, `init` restarts it, deadlines pass, a client in `reconnect` goes on, a killed one ends. Programs are under no
fairness: they may compute for ever, and whether a program makes a call is its own affair.

Each property of a passing run has a mutant in its module: the definition of the code with
one plausible bug (`PROJECT.json`, "mutants"), which makes TLC report the property.

## 4. Where the code does not do what it says

The modules state more promises of the code than the runs check; configurations that refute them are kept
beside the runs:

| configuration | module | refuted | what happens |
|---|---|---|---|
| `kill_lost.cfg` | `MCProcess` | `MarkedDies` | a running target is marked and "ends on entering the kernel" (`process.rs:980`); past `exit_if_killed` it blocks in `ipc_recv` and stays |
| `leader_slot.cfg` | `MCProcess` | `LeaderSlotKept` | the slot of a vfork child that made a thread and exited is free while the thread names it as its leader (`process.rs:36`) |
| `exec_failed.cfg` | `MCProcess` | `FailedExecIntact` | `execve` "only returns on error, with the process intact" (`exec.rs:405`): `exec_replace` ends stopped threads before it finds out that it must fail |
| `vm_mprotect.cfg` | `MCVm` | `CowIsolated` | `mprotect` makes pages writable without a look at the counts of their frames: after a fork parent and child write the same frame (`arch/riscv64/mmu.rs:309`) |
| `vm_race.cfg` | `MCVm` | `CowIsolated` | another thread maps the page and forks between two steps of a fault (`vm.rs:413`, `vm.rs:429`) |
| `vm_offset.cfg` | `MCVm` | `PageRight` | the area is replaced by the same file at another offset while a fault reads (`vm.rs:489`) |
| `net_close.cfg` | `MCNet` | `ClosedWhole` | a close gives up bytes that were accepted (`net.rs:631-641` against `net.rs:10-12`) |
| `net_handshake.cfg` | `MCNet` | `HandshakeEnds` | a handshake whose last ACK is lost does not end (`net.rs:540`) |
| `signal_race.cfg` | `MCSignal` | `KilledRight` | a kill looks at the handlers before it kills: a handler set meanwhile does not save the process (`signal.rs:555-570`) |

Further statements that fail with other values of the constants:

- Processes: `ThreadsDieWithLeader` (`process.rs:638`: a thread marked to die, but past the check, creates another thread); `WaiterHasChild` with threads (`process.rs:741`: one exit wakes one of two waiters); `OwnerSuspended` with
  `"vfork_borrowed"`, four slots and five creations (`process.rs:858` names the caller by slot, not by pid: a thread or a vfork child that
  called vfork is killed, its slot is taken by a process that calls vfork, and the child of the dead one wakes it).
- Waits: `NoLostWakeup` when `PENDING` is full (`file.rs:153`); `WriterWoken` of `UnixSocket` (`unix.rs:187`: a
  writer sleeps on the reader's key).
- Shared memory: `OpenCounted` (`file.rs:558`); `PagesKept` with `"shrink"` (`shm.rs:173`: pages that are mapped are freed), and with `"threads"`
  (`vm.rs:317`, and `vm.rs:285` for MAP_FIXED: the page is given back, SHM and FRAME are let go, and only then its entry is cleared and flushed: another
  CPU can take the frame while a thread of the caller still reads and writes it).
- Virtual memory: `PteAllowed` when a thread unmaps a page between the two halves of another's fork; `FramesExact` with
  `TablesFail` (`vm.rs:493`: frames read ahead are lost), and when a process of several threads forks, one unmaps a page between
  the two halves and the child moves another onto the entry that has no area (`mremap`: the entry is overwritten).
- Signals: `MaskRestored` with a mask of rt_sigsuspend that blocks something: a blocked signal ends the wait too (`process.rs:1486`), no handler
  runs, and the old mask does not come back "na hora" (`process.rs:1520-1521`); `FirstTaken` and
  `AllTaken` (waits that do not look for signals; a signal behind one that keeps coming); `PollWhole` with `"fault"`
  (`linux.rs:1556`).
- Network: `NextLenIsNext` (`net.rs:663`), `LostOnlyWhenFull` (`net.rs:266`: a ring with one live datagram overwrites it). A
  FIN sent again in PeerClosed is not confirmed again; a peer with a closed window is given up after `MAX_RETRIES`.
- File system: `TreeRooted` (`ext2.rs:1396`: a directory moved below itself), `DirsKept`, `Accounted` (`vm.rs:508`, `file.rs:84`, full list of
  orphans `file.rs:96`), `Counted` (a link that finds no block); the cache of `NamesRight`
  where programs remove directories and look up ".." (`release_inode`, `ext2.rs:1340`, leaves the entry of ".." of the directory, and `mkdir` writes
  the ".." of the one that gets its inode past the cache: it is given the old parent); `SuperOnDisk` (`ext2.rs:239-247`); a failed write past the end grows
  the file (`ext2.rs:796`); a disk error in `alloc_block` loses the block.
- Descriptors: a memfd opened read-only through /proc/self/fd can be written (`file.rs:563-565`); epoll_ctl does not
  wake a thread asleep in epoll_wait; items of an epoll are kept by descriptor number and survive its close; an accept
  whose table is full loses the connection; cycles of descriptors in flight are never freed.
  `NoneLeftBehind` with `"empty_stream"` (`unix.rs:142`, `unix.rs:188-204`; `linux.rs:1668-1697` lets sendmsg through without a byte): two such messages
  start at one byte, a read takes the descriptors of the first and passes those of the second, which stay, and keep later ones back, for as long as
  the connection does. An empty packet alone is not seen by read and poll (`unix.rs:134`, `unix.rs:235`); `MSGQ` of them stop a socket of packets.
- Devices: a focus set to a process that is gone leaves the keyboard undelivered until the next one; `rng::fill` loops for ever on
  empty answers; `ToldRight` of `Gpu` with `HostFails`. A `create_user_space` that finds no memory for its second or third table
  loses the first (`lost` of `PageTable`).
- Window manager: `MenuRight` and `SwitchRight`: an open menu (`target_win`, `main.rs:1127`, set at `main.rs:1629`, `1659`, `1948`) and the list of Alt+Tab
  (`sw_list`, `main.rs:1878-1885`) name places of the table, and BYE (`main.rs:833-844`) and a program that died (`main.rs:2062-2071`) leave them so:
  "Fechar", "Forçar encerramento" or Alt+Tab closes, kills or raises the window that took the place. A drag of one of its own windows that the keyboard closes goes on; HELLO with a full table is answered with surface 0; a client
  that floods it from a lower slot keeps others waiting.

## 5. What is proved

### ProcessProofs

For every number of slots, CPUs and creations and every set of system calls:

- `ProcessTypes`: `Spec => []TypeOK`.
- `OneCpuEach`: `Spec => []RunningOnOneCpu`.
- `PartnersAlive`: `Spec => []PartnerAlive`.
- `RendezvousNeverMissed`: `Spec => []RendezvousMet`.
- `SpacesExact`: `Spec => []SpaceExact`.
- `OwnersSuspended`: `Spec => []OwnerSuspended`, where only owners of their space call vfork (`"vfork_borrowed" \notin Syscalls`;
  section 4 has what happens otherwise).
- `WaitersHaveChildren`: `Spec => []WaiterHasChild`, where processes have no threads (`"thread" \notin Syscalls`; otherwise one exit wakes
  one of several waiters).

Assumption: `ConstantsOK` (at least one slot and one exit record, finitely many CPUs).

Argument. Every action ends in `Dispatch` or `Return` with a new table of states `st` and of
partners `on`, so the proof splits there. `DispatchRuns` and `ReturnRuns` say what the two
make of a table in which only the caller (`Leaves`) or nobody (`Stays`) stops
running; one lemma per action shows that it asks for such a table. `RunInv` adds
`TrapOfProgram` (a CPU in the kernel half of a trap has a current slot) to the types and
`RunningOnOneCpu`: without it a system call could be made by an idle CPU. What makes `reap`
safe on another CPU's behalf is `ReapedRuns` (of the slots that run, reap stops exactly the ones it
takes down: whom it wakes was blocked, a space it frees with its last user was a Zombie's) with
`DoomedStopped` (the threads it takes down with a leader do not run). `IpcInv` joins
`RendezvousMet` and `PartnerAlive`: `Pairs` says that the partners a step asks for
are alive before and after it, `KeepsPids` that creation never takes the slot of a live process, and
`ReapedPairs` that whoever waited for a slot that dies is woken in the same step.

`SpaceOk` says of any table of slots what `SpaceExact` says of the current one, so that an action can be cut in two: `DropOk` takes any set
of slots out (exit, kill, exit_group), `NewSpaceOk` and `JoinOk` let one in, and an execve is its caller leaving with the threads that
die and being born again in a new space (`ExecLeaves`). Beyond `SpaceExact` it says that a slot with another leader (a thread) owns no space,
without which an execve could free the space of a thread it takes down; that the owner of a space is not unused; and that owners have
different tables. `VforkInv` adds to `OwnerSuspended` that a child runs in the space of its caller, who waits or is a Zombie, and is the only such child: the
Zombie keeps the slot of a dead caller from being taken while the child lives, which is what `wake_vfork_parent` relies on and what fails for a caller
without a space of its own. `WaitInv` adds to `WaiterHasChild` that every process is its own leader; `PidsDiffer` makes the waiter that `record_exit` finds by the
pid of the parent the only one. `Kinds` says that every step is a birth, an exit, an execve, a kill or `Quiet` (nobody is born or dies, no space or vfork
changes), so each of the three invariants needs six lemmas and not one per system call.

### PipeProofs

For every set of processes and pipes, every capacity and every length of
`PENDING`:

- `PipeTypes`: `Spec => []TypeOK`.
- `PipeRefsExact`: `Spec => []RefsExact`.
- `PipeNoLostWakeup`: `Spec => []NoLostWakeup`, provided `PENDING` has room for every key
  (`RoomForAll`). The proviso is needed: a full `PENDING` drops a key (`file.rs:153`) and with it the wake-up of its sleepers.

Assumptions: processes and keys are finite sets, the capacity is positive, the keys are the
two ends of each pipe (`IoWaitAssumption`, `SentinelsOK`, `PipeAssumption`,
`PipeKeysAssumption`; TLC evaluates them in every run of `MCPipe`).

Argument. `CountInv` joins `TypeOK` and `RefsExact` with `DeadHasNone` (a dying or dead
process has no descriptors): without the last, fork into a dead process would not
add exactly what its table then holds, and without `RefsExact` a counter could go below
zero in `drop_refs`. Each action changes the set of holders of an end by one process
(`HoldersChange`) or not at all. `WakeInv` joins `NoLostWakeup` with `KeysNoted` (who has a key to
wait for) and `NotedBeforeSleep`: a process between `would_block` and
`io_wait_until` whose call would now proceed has seen its counter move. That is the
invariant the code relies on, and the reason why `io_wait_until` looks at the counter
again. Its proof has one lemma per action: an action that makes a key proceed fires it,
and keys leave `PENDING` only for the hands of the process that will wake their sleepers.

### ObjectsProofs

For every number of processes, connections and listeners, every capacity, backlog and length of `PENDING`:

- `UnixRefsExact`: `MCSpec => []Unix!RefsExact`.
- `UnixNoLostWakeup`: `MCSpec => []UnixWakes`, provided `PENDING` has room for every key (`SocketRoom`; a full
  `PENDING` drops a key, `file.rs:153`).

Assumption: processes, connections and listeners are finite sets (`TalkersAssumption`; TLC evaluates it in `objects`).

Argument. The composition is a step of one of its parts, so a step is one of `UnixSocket` or leaves its state alone. `SocketCounts`
joins the types with the counters, with `Unaccepted` (a connection waits in one backlog at most, and its far end has no descriptor yet)
and `DeadTalkers`. The backlogs make it harder than for pipes: the last close of a listener drops
the reference of every connection that waits there, so the counters are shown on sets of holders plus waiting ends. `SocketWakes` is the
invariant of `PipeProofs` for four calls and keys of three kinds.

### NetProofs

For every size of buffers, window, segment and sequence space, every number of retries and of segments in flight, and
every load:

- `TcpInvariant`: `Spec => []TcpInv`.
- `TcpNeverStuck`: `Spec => []NeverStuck`, provided the receive buffer has more than one byte (the window
  announced is always at least one byte less than the buffer).
- `TcpOutbound`, `TcpInbound`: `Spec => OutboundStream`, `Spec => InboundStream`: the connection implements `ByteStream` in both
  directions, each step a step of `ByteStream` or a stutter.
- `UdpOldestFirst`: `NetSpec => []OldestFirst`.
- `NetKeepsTcp`: `NetSpec => OutboundStream /\ InboundStream`.

Assumptions: `TcpAssumption` and `UdpAssumption`: sizes are positive, and twice the bytes of a stream (with SYN and FIN) fit the sequence
space. The last is what the code relies on when it compares modular distances (2^31 against 64 KiB in flight; the streams of
the model begin with the connection, so the bound is on all of a stream).

Argument. `TcpInv` says of every segment in flight, of the buffers and of the counters which piece of which
stream they are: `PeerSeq` is the number of a byte of the peer's stream, `Piece` says that a segment carries the bytes its number
names. A segment may be as old as the connection, so the invariant speaks of everything that was ever sent, not only
of the window. `Streams` (what was given out is what has been taken, from the first byte on) is not inductive without `Piece`, nor
`Piece` without the relation of `snd_una`, `snd_nxt` and the retransmission buffer (`Opened`). `NeverStuck` follows from the same invariant: the timer is
armed whenever something is out. For `Udp`, `UdpInv` is that the ring read from `UDP_NEXT` on is in the order of arrival, which makes the first live
slot of a port (`FirstLiveIs`) the oldest datagram.

### SignalProofs

For every number of threads, joins and signals and every set of programs:

- `SignalTypes`: `Spec => []Types`.
- `PollLeavesNothing`: `Spec => []PollWhole`, for programs whose timeouts stay readable (`NoFault`; without it
  `linux.rs:1556` returns with the deadline set, see section 4).
- `FutexNotLost`: `Spec /\ []OneJoiner => []FutexWoken`. The end of a thread wakes one sleeper, so two threads that join the
  same one are outside of what the code promises.
- `MasksRestored`: `Spec => []MaskRestored` under `SuspendsOpen`: programs wait with a mask that lets every signal through, do not change actions
  once they do, and no handler that resets uncovers a default that ignores. Section 4 has what happens to a mask that blocks something.

Argument. `Moves` says what almost every action does: it changes one thread, which neither dies, comes back nor begins
to sleep on a futex (`Quiet`). `PollWhole` follows from `PollOk` of each thread: a mark or a deadline means that a poll is to be made
again; who waits for a child has nothing to repeat; and no frame on the user's stack returns into a poll, which is what keeps the
invariant through a handler that returns after another call was made. `FutexWoken` needs `WordsLive`: the word of a thread that lives is 1,
so a join that sleeps on it has seen the value it compares. `MaskRestored` needs `MaskOk`: a thread that rt_sigsuspend put to sleep leaves `SigWait` only
with a signal pending, and `Acting`: what is pending has a handler or ends the process, so the next delivery pushes the saved mask. `Calm` is what all actions
but five do to the fields about masks.

### ShmProofs

For every number of processes, descriptors, objects and pages and every set of calls:

- `ShmRefsExact`: `Spec => []RefsExact`: no object is kept for nobody, no counter is above what it counts, and without names
  (`shm_open`) the counters are exact.
- `ShmPagesKept`: `Spec => []PagesKept`, for programs that map no objects with names, do not shrink them and have no second thread that looks through
  the tables during a munmap (`Growing`): section 4 has what happens otherwise (`shm.rs:173`, `file.rs:558`, `vm.rs:317`).

Argument. `ShmInv` joins the types with `FreeEmpty` (an object not in use has no pages and no counts), `UsedHeld` (one in use has a
reference), `CountsOk` (the counters against the sets `FdRefs` and `Mappers`) and `ProcOk`, `MmapHolds` (what a call in the middle
holds). References are pairs of a process and a descriptor; the one a call has taken and not yet stored is its 0th, so a call that
fails half way gives back exactly one pair. Every action is a `Step(p)`: one process's pairs change, and the counters
by as many. Between `carve` and `unmap_range` an entry may name a page that was given back and taken by another object (`CarveStep`), so what is inductive
is `PagesMapped`: the entries of areas name the pages of their objects; what a process can reach when it runs are entries of areas, since
`unmap_range` leaves no others (`UnmapRange`). `PagesKept` also needs `PagesApart`: a page belongs to one object or to none.

### VmProofs

For every number of threads, spaces, frames, pages and names, every page-table budget and every set of calls within the
hypotheses named:

- `VmFramesExact`: `Spec => []FramesExact`, where page tables do not run out of memory (otherwise `vm.rs:493` drops a frame that the
  tables name) and, if programs call mremap, where a process that forks has one thread (`CountedCalls`; section 4 has the step that loses a
  frame otherwise).
- `VmPageRight`: `Spec => []PageRight`, under the same two conditions (`Calm`) and if every mapping of a file uses one
  offset (`OneOffset`; `vm.rs:489` maps what was read for another offset, `vm_offset.cfg`).
- `VmCowIsolated`: `Spec => []CowIsolated`, under `Calm` and without mprotect, which gives write to frames that are still
  shared (`vm_mprotect.cfg`).

Argument. `Ctl` is the types and the control: who is in the kernel has a space; at most one thread of a space has the VM lock across
steps, and the entry and the area of its page stay as it read them; the child space of a fork is nobody else's and has no areas; a space not in
use is empty. `AreaInv`: an entry lies in an area and has its permissions, or has lost write to a fork. `FramesInv`: the count of a frame is the
number of entries that name it plus the faults that hold it, and a fault that holds a frame holds it alone and no entry names it. It is proved on
sets of names (pairs of a space and a page): unmap and exit take names away, mremap moves them by a bijection, fork adds the
names of the pages it reached. `Right` strengthens `PageRight` by the frames that read-ahead has filled and not yet mapped. `CowInv`
says of two entries that name one frame that programs fork and neither may write, and of a fault about to give write back that its entry has no twin.
That it has none follows from the count it read (`CountedOnce`, which is where `FramesExact` is used) and stays true through the steps of other threads
(`StillAlone`).

### Ext2Proofs

For every number of inodes, blocks, names, descriptors and orphans, every hash of the cache of names, and all sets of calls that keep to `Tidy`: no
directory is removed while somebody is in it, and where directories are removed none is moved to another one and nobody looks up ".." (section 4
has what happens otherwise; all programs of `ext2` keep to it):

- `FilesStayOpen`: `Spec => []OpenKept`.
- `InodesStayRight`: `Spec => []InodesRight`: links, inodes and blocks.
- `NamesStayRight`: `Spec => []NamesRight`: the cache, and every directory below the root.

Assumption: `Ext2Assumption` (mke2fs finds a block for the root).

Argument. `NamesInv` is that after every call that succeeds the volume is `Sound` and the descriptors are of inodes in use of the right kind (`Held`).
`Sound` joins `Tree` (each directory has one name, in the directory its ".." leads to, and only directories in use have entries), `Links`,
`Fits` (the cache), `Rooted` (no set of directories without the root is closed under "..") and `Paid` (free blocks and those of inodes in use
make `MaxBlocks`). `Kept` says of programs that map no files that a file without a name is an orphan somebody has open. None stands alone: an unlink follows the cache to the inode whose count it lowers, and frees it when the count says that no name is
left, which must be true for `Tree` to hold of what remains. The pieces of the code (`dir_add`, `dir_remove`, `release_inode`, `set_dotdot`, ...) have a lemma each that
says what they leave (`HasAdded`, `HasRemoved`, `HasFreed`, `HasParent`); `NewFile`, `NewDir`, `NameAdded`, `NameRemoved`, `FileFreed`, `DirFreed`, `NameMoved` and
`DirMoved` say what they do to `Tree` and `Links` together; then each call is a sequence of these, and `EndsRight` brings it back to the
invariant. A call that stops half way owes only `OpenKept`. The climb of `is_ancestor` caches every ".." it meets: `ClimbStands` follows it to any height.
Where it does not meet the directory to be moved, `ClimbClears` has a set closed under ".." with the target in it and the directory not (`NotBelow`),
and `RootedMoved` follows. `ChainRooted` turns `Rooted` into the path of `TreeRooted`: one of as many steps as there are inodes that misses the root
would be twice in one directory (`Repeated`), and the directories between would be closed.

`Paid` is a sum over a set. `SomeSum` has a function that sums up every subset and `SumsAny` that any element may be counted first, both by
the least size of a set for which it fails; then `PaidMore`, `PaidLess` and `PaidNew` say what the pieces do to the sum. For `Kept` each call has a
step of `Unlost`: which files it leaves without a name that had one. `LosesName` is the only such step, with the file that becomes an orphan; if
there is no room for it among the orphans the call stops (`WithOrphan`).

### Only model-checked

Liveness (`ReadyRuns`, `TimedWaitEnds`, `SleeperWakes`, `Answered`, `SignalTaken`, `AppSurvives`, `CloseEnds`): fairness and ENABLED are outside
the prover's reach. `VmaTable`, `BlockMap`, `BlockCache`, `Files` and `Wm` compute with folds over sequences or trees of any length: what
they return for every input needs an induction that is not written (section 7). `PageTable`, `Virtio` and `Gpu` have no theorem yet.

## 6. What is not modelled

- The spinlocks and their order (`sync.rs`): each critical section is one step.
- The loader (`exec.rs`, `loader.rs`): parsing and layout; what `exec_replace` does to processes is in `Process`. The mapping of
  the stack ignores its result (`loader.rs`, a frame is lost when memory runs out).
- The read-only file systems (`pfs.rs`, `nbfs.rs`), boot order, assembly, interrupt controllers, TLBs and address-space identifiers.
- ARP, IP and checksums; the choice of a port and of a free connection.
- Virtio devices besides queues of events and random bytes; the cursor; two keyboards at once.
- Decoding and validation of arguments (`syscall.rs`, `linux.rs`), queries without effect, lseek, fallocate, getdents, stat.
- User programs besides the window manager and its clients: the kernel models let programs make any call at any time. Of
  the manager, the control centre, the settings and all drawing.
- A kernel oops is modelled by what it does to processes (`ExitGroup`), not by the half-done update it leaves behind.

## 7. Plan

Proofs: the folds of `BlockMap`, `BlockCache` and `Wm`, by the least length for which a result fails, as the sums of `Ext2Proofs`.

Modules: `Locks`, the guards of each system call as sequences of locks, checked for cycles; the heap and the TLBs in `Vm`.
