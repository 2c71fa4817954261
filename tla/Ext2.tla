-------------------------------- MODULE Ext2 --------------------------------
(***************************************************************************)
(* Names, inodes and descriptors of the ext2 volume (kernel/src/ext2.rs    *)
(* and the calls of kernel/src/file.rs). Every call holds FS, so a call is *)
(* one action; what is hard is the order of calls, files removed while     *)
(* they are open, the cache of names, and calls that run out of space half *)
(* way. Names have equal length, blocks are counted, the disk never fails  *)
(* and its buffer cache is transparent.                                    *)
(***************************************************************************)
EXTENDS Integers, FiniteSets, FiniteSetsExt

CONSTANTS
    MaxInode,    \* inodes of the volume; the root is 1
    MaxBlocks,   \* blocks of the volume
    PerBlock,    \* entries a block of a directory holds
    Names,       \* names of files
    Hash(_, _),  \* dcache_idx: slot of a directory and a name
    MaxFds,      \* MAX_FDS
    MaxOrphans,  \* length of ORPHANS
    Programs     \* sets of system calls: the programs of a behaviour make one of them

Root == 1
Inos == 1 .. MaxInode
Absent == 0
DotDot == ".."
AllNames == Names \cup {DotDot}

ASSUME Ext2Assumption ==
    /\ MaxInode \in Nat \ {0} /\ MaxBlocks \in Nat \ {0} /\ PerBlock \in Nat \ {0, 1}
    /\ MaxFds \in Nat /\ MaxOrphans \in Nat
    /\ IsFiniteSet(Names) /\ DotDot \notin Names

VARIABLES
    vol,      \* the volume and the kernel's tables about it, see Fresh
    fds,      \* descriptors; 0 is the current directory
    failed,   \* history: a call stopped half way for want of space
    calls     \* the system calls the programs of this behaviour make

vars == <<vol, fds, failed, calls>>

-----------------------------------------------------------------------------
(* The cache of names (DCACHE), direct mapped. Inode Absent is a negative  *)
(* entry.                                                                  *)

NoEntry == [dir |-> Absent, name |-> DotDot, ino |-> Absent]

Hit(v, d, n) ==
    v.cache[Hash(d, n)].dir = d /\ v.cache[Hash(d, n)].name = n
dcache_put(v, d, n, i) ==
    [v EXCEPT !.cache[Hash(d, n)] = [dir |-> d, name |-> n, ino |-> i]]

\* Mutant: the entry of a name that is removed stays.
dcache_inv_Never(v, d, n) == v
dcache_inv(v, d, n) ==
    IF Hit(v, d, n) THEN [v EXCEPT !.cache[Hash(d, n)] = NoEntry] ELSE v

\* lookup: what it returns, and the cache after it
Found(v, d, n) == IF Hit(v, d, n) THEN v.cache[Hash(d, n)].ino ELSE v.ents[d][n]
Looked(v, d, n) == IF Hit(v, d, n) THEN v ELSE dcache_put(v, d, n, v.ents[d][n])

-----------------------------------------------------------------------------
(* Inodes and directories. A step of a call that can fail returns the      *)
(* volume after it and whether it succeeded.                               *)

NoEnts == [n \in AllNames |-> Absent]
Entries(v, d) == {n \in AllNames : v.ents[d][n] # Absent}
IsDir(v, i) == v.kind[i] = "dir"

Done(v) == [ok |-> TRUE, vol |-> v]
Stopped(v) == [ok |-> FALSE, vol |-> v]

\* alloc_inode and new_inode: the first free number.
FreeInode(v) == Min(Inos \ v.used)
new_inode(v, kind) ==
    LET i == FreeInode(v)
    IN  [v EXCEPT !.used = @ \cup {i}, !.kind[i] = kind, !.links[i] = 1,
                  !.blocks[i] = 0, !.ents[i] = NoEnts]

\* bmap_alloc of a block that is not there yet
AddBlock(v, i) == [v EXCEPT !.blocks[i] = @ + 1, !.free = @ - 1]

\* "." and ".." are entries of the first block.
HasRoom(v, d) ==
    Cardinality(Entries(v, d)) + (IF v.ents[d][DotDot] # Absent THEN 1 ELSE 0)
        < PerBlock * v.blocks[d]

dir_add(v, d, n, i) ==
    LET c == [dcache_put(v, d, n, i) EXCEPT !.ents[d][n] = i]
    IN  CASE HasRoom(v, d) -> Done(c)
          [] ~HasRoom(v, d) /\ v.free > 0 -> Done(AddBlock(c, d))
          [] OTHER -> Stopped(dcache_put(v, d, n, i))

dir_remove(v, d, n) ==
    LET c == dcache_inv(v, d, n)
    IN  IF v.ents[d][n] = Absent THEN Stopped(c)
        ELSE Done([c EXCEPT !.ents[d][n] = Absent])

\* A directory that is moved learns its new parent.
set_dotdot(v, i, d) == [dcache_put(v, i, DotDot, d) EXCEPT !.ents[i][DotDot] = d]

truncate_inode(v, i) ==
    [v EXCEPT !.free = @ + v.blocks[i], !.blocks[i] = 0, !.ents[i] = NoEnts]

\* Mutant: the blocks of the inode are not given back.
release_inode_Keeps(v, i) == [v EXCEPT !.used = @ \ {i}, !.links[i] = 0, !.ents[i] = NoEnts]
\* The inode keeps its mode.
release_inode(v, i) ==
    [truncate_inode(v, i) EXCEPT !.used = @ \ {i}, !.links[i] = 0]

Less(n) == IF n = 0 THEN 0 ELSE n - 1       \* saturating_sub(1)

\* Mutant: the inode is freed though a descriptor is open.
drop_link_Frees(v, i, can_free) ==
    LET c == [v EXCEPT !.links[i] = Less(@)]
    IN  IF c.links[i] = 0 THEN release_inode(v, i) ELSE c
drop_link(v, i, can_free) ==
    LET c == [v EXCEPT !.links[i] = Less(@)]
    IN  IF c.links[i] = 0 /\ can_free THEN release_inode(v, i) ELSE c

-----------------------------------------------------------------------------
(* Descriptors. `stale` is history: the inode they were opened on has been *)
(* freed.                                                                  *)

Slots == 0 .. MaxFds
NoFd == [as |-> "Free", ino |-> Absent, stale |-> FALSE]
FreeFds(f) == {k \in Slots : f[k].as = "Free"}

\* A mapping of a file counts as open too.
is_open(f, i) == \E k \in Slots : f[k].as \in {"File", "Dir", "Map"} /\ f[k].ino = i

install(f, as, i) ==
    IF FreeFds(f) = {} THEN f
    ELSE [f EXCEPT ![Min(FreeFds(f))] = [as |-> as, ino |-> i, stale |-> FALSE]]

\* The directories a call may start from: openat and the like.
Starts == {Root} \cup {fds[k].ino : k \in {j \in Slots : fds[j].as \in {"Dir", "Cwd"}}}
Start(d) == d \in Starts /\ IsDir(vol, d)

\* The volume after a call, with the descriptors f that it leaves.
Becomes(v, f) ==
    /\ vol' = v
    /\ fds' = [k \in Slots |->
                 [f[k] EXCEPT !.stale = @ \/ (f[k].as # "Free" /\ f[k].ino \in vol.used \ v.used)]]
    /\ UNCHANGED calls
Ends(r, f) == Becomes(r.vol, f) /\ failed' = (failed \/ ~r.ok)

\* add_orphan
WithOrphan(v, i) ==
    IF Cardinality(v.orphans) < MaxOrphans THEN Done([v EXCEPT !.orphans = @ \cup {i}])
    ELSE Stopped(v)

\* A behaviour is followed up to the first call that stops half way.
May(call) == ~failed /\ call \in calls

-----------------------------------------------------------------------------
(* The calls.                                                              *)

\* stat, or a component of a path
lookup(d, n) ==
    /\ May("stat") /\ Start(d)
    /\ n = DotDot => May("dotdot")
    /\ Ends(Done(Looked(vol, d, n)), fds)

Makes(d, n) == Start(d) /\ Found(vol, d, n) = Absent /\ vol.used # Inos

\* An empty file, a socket, a short symbolic link: the inode, then its name.
Made(d, n, kind) ==
    dir_add(new_inode(Looked(vol, d, n), kind), d, n, FreeInode(vol))

mknod(d, n) == May("mknod") /\ Makes(d, n) /\ Ends(Made(d, n, "other"), fds)

\* open with O_CREAT of a name that does not exist
create(d, n) ==
    /\ May("create") /\ Makes(d, n)
    /\ LET r == Made(d, n, "file")
       IN  Ends(r, IF r.ok THEN install(fds, "File", FreeInode(vol)) ELSE fds)

open(d, n) ==
    /\ May("open") /\ Start(d)
    /\ LET i == Found(vol, d, n)
       IN  /\ i # Absent
           /\ vol.kind[i] \in {"file", "dir"}
           /\ FreeFds(fds) # {}
           /\ Ends(Done(Looked(vol, d, n)),
                   install(fds, IF IsDir(vol, i) THEN "Dir" ELSE "File", i))

chdir(d, n) ==
    /\ May("chdir") /\ Start(d)
    /\ n = DotDot => May("dotdot")
    /\ LET i == Found(vol, d, n)
       IN  /\ i # Absent /\ IsDir(vol, i)
           /\ Ends(Done(Looked(vol, d, n)),
                   [fds EXCEPT ![0] = [as |-> "Cwd", ino |-> i, stale |-> FALSE]])

mkdir(d, n) ==
    /\ May("mkdir") /\ Makes(d, n)
    /\ LET i == FreeInode(vol)
           a == new_inode(Looked(vol, d, n), "dir")
           b == [AddBlock(a, i) EXCEPT !.links[i] = 2, !.ents[i][DotDot] = d]
           r == dir_add(b, d, n, i)
       IN  Ends(CASE a.free = 0 -> Stopped(a)
                  [] a.free > 0 /\ ~r.ok -> r
                  [] OTHER -> Done([r.vol EXCEPT !.links[d] = @ + 1]), fds)

\* A target too long for the inode takes a block.
symlink(d, n) ==
    /\ May("symlink") /\ Makes(d, n)
    /\ LET a == new_inode(Looked(vol, d, n), "other")
       IN  Ends(IF a.free = 0 THEN Stopped(a)
                ELSE dir_add(AddBlock(a, FreeInode(vol)), d, n, FreeInode(vol)), fds)

\* Mutant: the name is added before the count.
link_Uncounted(sd, sn, d, n) ==
    /\ May("link") /\ Start(sd) /\ Start(d)
    /\ LET i == Found(vol, sd, sn)
           a == Looked(Looked(vol, sd, sn), d, n)
       IN  /\ i # Absent /\ ~IsDir(vol, i)
           /\ Found(a, d, n) = Absent
           /\ Ends(dir_add(a, d, n, i), fds)
link(sd, sn, d, n) ==
    /\ May("link") /\ Start(sd) /\ Start(d)
    /\ LET i == Found(vol, sd, sn)
           a == Looked(Looked(vol, sd, sn), d, n)
       IN  /\ i # Absent /\ ~IsDir(vol, i)
           /\ Found(a, d, n) = Absent
           /\ Ends(dir_add([a EXCEPT !.links[i] = @ + 1], d, n, i), fds)

\* A file loses a name; one still open becomes an orphan.
Unnamed(v, d, n, i) ==
    LET r == dir_remove(v, d, n)
        c == drop_link(r.vol, i, ~is_open(fds, i))
    IN  IF r.ok THEN [ok |-> TRUE, vol |-> c, orphan |-> c.links[i] = 0 /\ is_open(fds, i)]
        ELSE [ok |-> FALSE, vol |-> r.vol, orphan |-> FALSE]

unlink(d, n) ==
    /\ May("unlink") /\ Start(d)
    /\ LET i == Found(vol, d, n)
           r == Unnamed(Looked(vol, d, n), d, n, i)
       IN  /\ i # Absent /\ ~IsDir(vol, i)
           /\ Ends(IF r.orphan THEN WithOrphan(r.vol, i) ELSE [ok |-> r.ok, vol |-> r.vol], fds)

\* Directories somebody is in are removed like others.
Idle(i) == \A k \in Slots : fds[k].ino # i
Removable(v, i) ==
    /\ IsDir(v, i) /\ Entries(v, i) \subseteq {DotDot}
    /\ May("busy") \/ Idle(i)
Removed(v, d, n, i) ==
    LET r == dir_remove(v, d, n)
        c == release_inode(r.vol, i)
    IN  IF r.ok THEN Done([c EXCEPT !.links[d] = Less(@)]) ELSE r

rmdir(d, n) ==
    /\ May("rmdir") /\ Start(d)
    /\ LET i == Found(vol, d, n)
       IN  /\ i # Absent /\ Removable(vol, i)
           /\ Ends(Removed(Looked(vol, d, n), d, n, i), fds)

\* is_ancestor: up from b by the cached ".."
Climb(v, b) ==
    LET c[k \in 0 .. MaxInode] ==
            IF k = 0 THEN [at |-> b, vol |-> v]
            ELSE LET p == c[k - 1]
                 IN  IF p.at \in {Root, Absent} THEN p
                     ELSE [at |-> Found(p.vol, p.at, DotDot), vol |-> Looked(p.vol, p.at, DotDot)]
    IN  c
is_ancestor(v, a, b) == \E k \in 0 .. MaxInode : Climb(v, b)[k].at = a

\* Both names looked up, and the climb if a directory changes its parent.
Searched(sd, sn, d, n) ==
    LET a == Looked(vol, sd, sn)
        b == IF IsDir(vol, Found(vol, sd, sn)) /\ sd # d THEN Climb(a, d)[MaxInode].vol ELSE a
    IN  Looked(b, d, n)

\* The new name is free now: it is added, the old one removed, and a
\* directory learns its new parent.
Moved(v, sd, sn, d, n, i) ==
    LET a == dir_add(v, d, n, i)
        b == dir_remove(a.vol, sd, sn)
        c == set_dotdot(b.vol, i, d)
    IN  CASE ~a.ok -> a
          [] a.ok /\ ~b.ok -> b
          [] a.ok /\ b.ok /\ IsDir(v, i) /\ sd # d ->
                Done([[c EXCEPT !.links[sd] = Less(@)] EXCEPT !.links[d] = @ + 1])
          [] OTHER -> b

rename(sd, sn, d, n) ==
    /\ May("rename") /\ Start(sd) /\ Start(d)
    /\ LET i == Found(vol, sd, sn)
           v == Searched(sd, sn, d, n)
           old == Found(v, d, n)
           gone == IF old = Absent THEN [ok |-> TRUE, vol |-> v, orphan |-> FALSE]
                   ELSE IF IsDir(v, old)
                        THEN [ok |-> Removed(v, d, n, old).ok, vol |-> Removed(v, d, n, old).vol,
                              orphan |-> FALSE]
                        ELSE Unnamed(v, d, n, old)
           r == IF gone.ok THEN Moved(gone.vol, sd, sn, d, n, i) ELSE gone
       IN  /\ i # Absent /\ old # i
           /\ IsDir(vol, i) /\ sd # d => May("move") /\ ~is_ancestor(vol, i, d)
           /\ old # Absent => /\ IsDir(vol, i) = IsDir(v, old)
                              /\ IsDir(v, old) => Removable(v, old) /\ May("rmdir")
           /\ Ends(IF r.ok /\ gone.orphan THEN WithOrphan(r.vol, old)
                   ELSE [ok |-> r.ok, vol |-> r.vol], fds)

\* after_close; the end of a mapping does not come here.
close(k) ==
    /\ May("close") /\ k # 0 /\ fds[k].as # "Free"
    /\ LET i == fds[k].ino
           f == [fds EXCEPT ![k] = NoFd]
       IN  Ends(Done(IF fds[k].as # "Map" /\ i \in vol.orphans /\ ~is_open(f, i)
                     THEN [release_inode(vol, i) EXCEPT !.orphans = @ \ {i}] ELSE vol), f)

dup(k) ==
    /\ May("dup") /\ k # 0 /\ fds[k].as \in {"File", "Dir"} /\ FreeFds(fds) # {}
    /\ Ends(Done(vol), [fds EXCEPT ![Min(FreeFds(fds))] = fds[k]])

mmap(k) ==
    /\ May("mmap") /\ fds[k].as = "File" /\ FreeFds(fds) # {}
    /\ Ends(Done(vol), [fds EXCEPT ![Min(FreeFds(fds))] = [fds[k] EXCEPT !.as = "Map"]])

\* One block more, or all of them given back.
write(k) ==
    /\ May("write") /\ fds[k].as = "File" /\ vol.kind[fds[k].ino] = "file"
    /\ vol.free > 0
    /\ Ends(Done(AddBlock(vol, fds[k].ino)), fds)

truncate(k) ==
    /\ May("write") /\ fds[k].as = "File" /\ vol.kind[fds[k].ino] = "file"
    /\ Ends(Done(truncate_inode(vol, fds[k].ino)), fds)

-----------------------------------------------------------------------------
\* mke2fs: the root directory and nothing else
Fresh ==
    [used   |-> {Root},
     kind   |-> [i \in Inos |-> IF i = Root THEN "dir" ELSE "none"],
     links  |-> [i \in Inos |-> IF i = Root THEN 2 ELSE 0],
     blocks |-> [i \in Inos |-> IF i = Root THEN 1 ELSE 0],
     ents   |-> [i \in Inos |-> IF i = Root THEN [NoEnts EXCEPT ![DotDot] = Root] ELSE NoEnts],
     free   |-> MaxBlocks - 1,
     cache  |-> [h \in {Hash(d, n) : d \in Inos, n \in AllNames} |-> NoEntry],
     orphans |-> {}]

Init ==
    /\ vol = Fresh
    /\ fds = [k \in Slots |-> IF k = 0 THEN [as |-> "Cwd", ino |-> Root, stale |-> FALSE] ELSE NoFd]
    /\ failed = FALSE
    /\ calls \in Programs

Next ==
    \/ \E d \in Inos, n \in Names :
          \/ mknod(d, n) \/ create(d, n) \/ open(d, n) \/ mkdir(d, n) \/ symlink(d, n)
          \/ unlink(d, n) \/ rmdir(d, n)
          \/ \E e \in Inos, m \in Names : link(d, n, e, m) \/ rename(d, n, e, m)
    \/ \E d \in Inos, n \in AllNames : lookup(d, n) \/ chdir(d, n)
    \/ \E k \in Slots : close(k) \/ dup(k) \/ mmap(k) \/ write(k) \/ truncate(k)

Spec == Init /\ [][Next]_vars

-----------------------------------------------------------------------------
(* Properties *)

Dirs == {d \in vol.used : IsDir(vol, d)}
NamesOf(i) == {x \in Dirs \X Names : vol.ents[x[1]][x[2]] = i}
Children(d) == {n \in Names : vol.ents[d][n] # Absent /\ IsDir(vol, vol.ents[d][n])}

\* No name leads to a free inode, a file counts one link for each of its
\* names and a directory one for each directory in it beside its own two.
Counted ==
    /\ \A d \in Dirs, n \in Names : vol.ents[d][n] \in vol.used \cup {Absent}
    /\ \A i \in vol.used \ Dirs : vol.links[i] = Cardinality(NamesOf(i))
    /\ \A d \in Dirs : vol.links[d] = 2 + Cardinality(Children(d))

\* The links of every inode are right as long as no call has stopped half way.
LinksRight == ~failed => Counted

\* Every inode in use has a name or is an orphan somebody still has open, and
\* every block is free or belongs to one of them.
Accounted ==
    /\ \A i \in vol.used \ {Root} :
          NamesOf(i) # {} \/ (i \in vol.orphans /\ is_open(fds, i))
    /\ vol.free + MapThenSumSet(LAMBDA i : vol.blocks[i], vol.used) = MaxBlocks

\* No inode and no block is lost by a call that succeeds, mappings of files
\* left aside.
NothingLost == ~failed /\ "mmap" \notin calls => Accounted

\* Links, inodes and blocks are accounted for after every call that succeeds:
\* unlink of an open file, rename over another one and rmdir are in one call
\* a dozen writes (ext2.rs).
InodesRight == LinksRight /\ NothingLost

\* A file keeps its inode as long as it is open or mapped, whatever happens
\* to its names.
OpenKept ==
    \A k \in Slots : fds[k].as \in {"File", "Map"} => ~fds[k].stale

\* So does a directory that is open or the current one.
DirsKept == \A k \in Slots : fds[k].as \in {"Dir", "Cwd"} => ~fds[k].stale

\* Every directory hangs from the root: none has been moved into itself.
TreeRooted ==
    ~failed => \A d \in Dirs \ {Root} :
        LET up[k \in 0 .. MaxInode] == IF k = 0 THEN d ELSE vol.ents[up[k - 1]][DotDot]
        IN  up[MaxInode] = Root

\* What the cache says of a directory is what the directory says, and the
\* tree is whole.
NamesRight ==
    ~failed =>
        /\ \A d \in Dirs, n \in AllNames : Hit(vol, d, n) => Found(vol, d, n) = vol.ents[d][n]
        /\ TreeRooted
=============================================================================
