----------------------------- MODULE Ext2Proofs -----------------------------
(***************************************************************************)
(* Proofs about Ext2 for every number of inodes, blocks, names,            *)
(* descriptors and orphans, every hash and all sets of calls that leave    *)
(* the cache of names right (Tidy).                                        *)
(***************************************************************************)
EXTENDS Ext2, FiniteSetTheorems, WellFoundedInduction, TLAPS

\* The programs a behaviour is about: directories somebody is in stay, and
\* where directories are removed nobody asks for "..", whose entry in the
\* cache outlives the directory (release_inode, ext2.rs:1340).
Tidy ==
    \A p \in Programs :
        "busy" \notin p /\ ("rmdir" \in p => "dotdot" \notin p /\ "move" \notin p)

Kinds == {"none", "dir", "file", "other"}
CacheSlots == {Hash(d, n) : d \in Inos, n \in AllNames}
Volumes ==
    [used : SUBSET Inos, kind : [Inos -> Kinds], links : [Inos -> Nat], blocks : [Inos -> Nat],
     ents : [Inos -> [AllNames -> Inos \cup {Absent}]], free : Nat,
     cache : [CacheSlots -> [dir : Inos \cup {Absent}, name : AllNames, ino : Inos \cup {Absent}]],
     orphans : SUBSET Inos]
Fds == [as : {"Free", "Cwd", "Dir", "File", "Map"}, ino : Inos \cup {Absent}, stale : BOOLEAN]
Tables == [Slots -> Fds]

\* Directories in use, names of an inode, names of directories in a directory.
Folders(v) == {d \in v.used : v.kind[d] = "dir"}
Named(v, i) == {x \in Inos \X Names : v.ents[x[1]][x[2]] = i}
Kids(v, d) == {n \in Names : v.ents[d][n] \in Folders(v)}

\* Only directories in use have entries, and those lead to inodes in use; a
\* directory has one name, in the directory its ".." leads to.
Tree(v) ==
    /\ Root \in Folders(v) /\ v.ents[Root][DotDot] = Root
    /\ \A d \in Inos, n \in AllNames : v.ents[d][n] # Absent => d \in Folders(v)
    /\ \A d \in Inos, n \in Names : v.ents[d][n] # Absent => v.ents[d][n] \in v.used \ {Root}
    /\ \A e \in Folders(v) : v.ents[e][DotDot] \in Folders(v)
    /\ \A d \in Inos, n \in Names :
          v.ents[d][n] \in Folders(v) =>
              /\ v.ents[v.ents[d][n]][DotDot] = d
              /\ \A m \in Names : v.ents[d][m] = v.ents[d][n] => m = n
    /\ \A e \in Folders(v) \ {Root} : \E n \in Names : v.ents[v.ents[e][DotDot]][n] = e

\* The links of a file are its names, those of a directory two and its
\* directories; an orphan has no links.
Links(v) ==
    /\ \A i \in v.used \ Folders(v) : v.links[i] = Cardinality(Named(v, i))
    /\ \A d \in Folders(v) : v.links[d] = 2 + Cardinality(Kids(v, d))
    /\ \A i \in v.orphans : i \in v.used \ Folders(v) /\ v.links[i] = 0

\* The cache tells what the directories say; it has no ".." where
\* directories are removed.
Fits(v) ==
    \A d \in Inos, n \in AllNames :
        Hit(v, d, n) =>
            /\ v.cache[Hash(d, n)].ino = v.ents[d][n]
            /\ n = DotDot => "rmdir" \notin calls /\ d \in Folders(v)

\* Descriptors are of inodes in use, and of the right kind.
Holds(v, x) ==
    /\ ~x.stale
    /\ x.as # "Free" => x.ino \in v.used
    /\ x.as \in {"Dir", "Cwd"} => x.ino \in Folders(v)
    /\ x.as \in {"File", "Map"} => v.kind[x.ino] = "file"
Held(v, f) == \A k \in Slots : Holds(v, f[k])

\* No directories hang from one another only: up from each is the root.
Rooted(v) ==
    \A S \in SUBSET (Folders(v) \ {Root}) : (\A e \in S : v.ents[e][DotDot] \in S) => S = {}

\* Every block is free or belongs to an inode in use.
Total(b, S) == MapThenSumSet(LAMBDA i : b[i], S)
Paid(v) == v.free + Total(v.blocks, v.used) = MaxBlocks

\* Where no file is mapped, a file without a name is an orphan somebody has open.
Nameless(v) == {i \in v.used \ Folders(v) : Named(v, i) = {}}
Orphaned(v, f) == \A i \in Nameless(v) : i \in v.orphans /\ is_open(f, i)
NoMaps(f) == f[0].as = "Cwd" /\ \A k \in Slots : f[k].as # "Map"
Kept(v, f) == "mmap" \notin calls => NoMaps(f) /\ Orphaned(v, f)

Sound(v) == v \in Volumes /\ Tree(v) /\ Links(v) /\ Fits(v) /\ Rooted(v) /\ Paid(v)
Good(v, f) == Sound(v) /\ f \in Tables /\ Held(v, f) /\ Kept(v, f)

NamesInv ==
    /\ calls \in Programs /\ failed \in BOOLEAN
    /\ ~failed => Good(vol, fds)
    /\ OpenKept

-----------------------------------------------------------------------------
(* The pieces of the calls: what each leaves of the volume.                *)

\* All but the entries, the cache and the blocks.
Same(v, w) ==
    w.used = v.used /\ w.kind = v.kind /\ w.links = v.links /\ w.orphans = v.orphans

\* The numbers of inodes and the slots of the cache.
LEMMA Numbers ==
  /\ Root \in Inos /\ Absent \notin Inos /\ Inos \subseteq Nat /\ IsFiniteSet(Inos)
  /\ DotDot \in AllNames /\ Names \subseteq AllNames /\ DotDot \notin Names
  /\ \A d \in Inos, n \in AllNames : Hash(d, n) \in CacheSlots
<1>1. IsFiniteSet(Inos)
  BY Ext2Assumption, FS_Interval DEF Inos
<1> QED
  BY <1>1, Ext2Assumption DEF Inos, Root, Absent, AllNames, CacheSlots

\* The first number that is free.
LEMMA LeastNumber ==
  ASSUME NEW T, T \subseteq Nat, T # {}
  PROVE  Min(T) \in T /\ \A j \in T : Min(T) <= j
<1>1. IsWellFoundedOn(OpToRel(<, Nat), Nat)
  BY NatLessThanWellFounded
<1>2. PICK k \in T : \A j \in T : ~(<<j, k>> \in OpToRel(<, Nat))
  BY <1>1, WFMin
<1>3. \A j \in T : ~(j < k)
  BY <1>2 DEF OpToRel
<1>4. \A j \in T : k <= j
  BY <1>3
<1> QED
  BY <1>4 DEF Min

\* Entries of the cache are read and replaced.
LEMMA PutIs ==
  ASSUME NEW v \in Volumes, NEW d \in Inos, NEW n \in AllNames, NEW i \in Inos \cup {Absent}
  PROVE  /\ dcache_put(v, d, n, i) \in Volumes
         /\ Same(v, dcache_put(v, d, n, i))
         /\ dcache_put(v, d, n, i).ents = v.ents
         /\ dcache_put(v, d, n, i).blocks = v.blocks /\ dcache_put(v, d, n, i).free = v.free
         /\ dcache_put(v, d, n, i).cache
              = [v.cache EXCEPT ![Hash(d, n)] = [dir |-> d, name |-> n, ino |-> i]]
<1>1. Hash(d, n) \in CacheSlots
  BY Numbers
<1> QED
  BY <1>1 DEF dcache_put, Volumes, Same

\* What is cached is what is asked for.
LEMMA PutFits ==
  ASSUME NEW v \in Volumes, NEW w \in Volumes, Fits(v),
         NEW d \in Inos, NEW n \in AllNames, NEW i \in Inos \cup {Absent},
         w.cache = [v.cache EXCEPT ![Hash(d, n)] = [dir |-> d, name |-> n, ino |-> i]],
         w.ents[d][n] = i,
         \A e \in Inos, m \in AllNames : (e # d \/ m # n) => w.ents[e][m] = v.ents[e][m],
         Folders(v) \subseteq Folders(w),
         n = DotDot => "rmdir" \notin calls /\ d \in Folders(w)
  PROVE  Fits(w)
<1> SUFFICES ASSUME NEW e \in Inos, NEW m \in AllNames, Hit(w, e, m)
             PROVE  /\ w.cache[Hash(e, m)].ino = w.ents[e][m]
                    /\ m = DotDot => "rmdir" \notin calls /\ e \in Folders(w)
  BY DEF Fits
<1>1. Hash(d, n) \in CacheSlots /\ Hash(e, m) \in CacheSlots
  BY Numbers
<1>2. v.cache \in [CacheSlots -> [dir : Inos \cup {Absent}, name : AllNames, ino : Inos \cup {Absent}]]
  BY DEF Volumes
<1>3. CASE Hash(e, m) = Hash(d, n)
  <2>1. w.cache[Hash(e, m)] = [dir |-> d, name |-> n, ino |-> i]
    BY <1>1, <1>2, <1>3
  <2>2. e = d /\ m = n
    BY <2>1 DEF Hit
  <2> QED
    BY <2>1, <2>2
<1>4. CASE Hash(e, m) # Hash(d, n)
  <2>1. w.cache[Hash(e, m)] = v.cache[Hash(e, m)]
    BY <1>1, <1>2, <1>4
  <2>2. Hit(v, e, m)
    BY <2>1 DEF Hit
  <2>3. e # d \/ m # n
    BY <1>4
  <2> QED
    BY <2>1, <2>2, <2>3 DEF Fits
<1> QED
  BY <1>3, <1>4

\* The cache stays right where nothing it holds is changed.
LEMMA FitsKept ==
  ASSUME NEW v \in Volumes, NEW w \in Volumes, Fits(v), w.cache = v.cache,
         \A e \in Inos, m \in AllNames :
            Hit(v, e, m) => /\ w.ents[e][m] = v.ents[e][m]
                            /\ m = DotDot => e \in Folders(w)
  PROVE  Fits(w)
BY DEF Fits, Hit

\* A lookup finds what the directory holds and changes the cache only.
LEMMA LookedIs ==
  ASSUME NEW v \in Volumes, Fits(v), NEW d \in Inos, NEW n \in AllNames,
         n = DotDot => "rmdir" \notin calls /\ d \in Folders(v)
  PROVE  /\ Found(v, d, n) = v.ents[d][n] /\ Found(v, d, n) \in Inos \cup {Absent}
         /\ Looked(v, d, n) \in Volumes
         /\ Same(v, Looked(v, d, n)) /\ Looked(v, d, n).ents = v.ents
         /\ Looked(v, d, n).blocks = v.blocks /\ Looked(v, d, n).free = v.free
         /\ Fits(Looked(v, d, n))
<1>1. v.ents[d][n] \in Inos \cup {Absent}
  BY DEF Volumes
<1>2. Found(v, d, n) = v.ents[d][n]
  BY DEF Found, Fits
<1>3. CASE Hit(v, d, n)
  <2>1. Looked(v, d, n) = v
    BY <1>3 DEF Looked
  <2> QED
    BY <1>1, <1>2, <2>1 DEF Same
<1>4. CASE ~Hit(v, d, n)
  <2>1. PICK w : w = dcache_put(v, d, n, v.ents[d][n])
    OBVIOUS
  <2>2. /\ w \in Volumes /\ Same(v, w) /\ w.ents = v.ents
        /\ w.blocks = v.blocks /\ w.free = v.free
        /\ w.cache = [v.cache EXCEPT ![Hash(d, n)] = [dir |-> d, name |-> n, ino |-> v.ents[d][n]]]
    BY <1>1, <2>1, PutIs
  <2>3. Folders(w) = Folders(v)
    BY <2>2 DEF Folders, Same
  <2>4. Fits(w)
    BY <1>1, <2>2, <2>3, PutFits
  <2>5. Looked(v, d, n) = w
    BY <1>4, <2>1 DEF Looked
  <2> QED
    BY <1>1, <1>2, <2>2, <2>4, <2>5
<1> QED
  BY <1>3, <1>4

\* An entry of the cache is thrown out.
LEMMA InvIs ==
  ASSUME NEW v \in Volumes, Fits(v), NEW d \in Inos, NEW n \in AllNames
  PROVE  /\ dcache_inv(v, d, n) \in Volumes
         /\ Same(v, dcache_inv(v, d, n)) /\ dcache_inv(v, d, n).ents = v.ents
         /\ dcache_inv(v, d, n).blocks = v.blocks /\ dcache_inv(v, d, n).free = v.free
         /\ Fits(dcache_inv(v, d, n))
         /\ ~Hit(dcache_inv(v, d, n), d, n)
<1>1. Hash(d, n) \in CacheSlots
  BY Numbers
<1>2. CASE ~Hit(v, d, n)
  BY <1>2 DEF dcache_inv, Same
<1>3. CASE Hit(v, d, n)
  <2>1. PICK w : w = [v EXCEPT !.cache[Hash(d, n)] = NoEntry]
    OBVIOUS
  <2>2. dcache_inv(v, d, n) = w
    BY <1>3, <2>1 DEF dcache_inv
  <2>3. NoEntry \in [dir : Inos \cup {Absent}, name : AllNames, ino : Inos \cup {Absent}]
        /\ NoEntry.dir = Absent
    BY Numbers DEF NoEntry
  <2>4. /\ w \in Volumes
        /\ Same(v, w) /\ w.ents = v.ents /\ w.blocks = v.blocks /\ w.free = v.free
        /\ w.cache = [v.cache EXCEPT ![Hash(d, n)] = NoEntry]
    BY <1>1, <2>1, <2>3 DEF Volumes, Same
  <2>5. Folders(w) = Folders(v)
    BY <2>4 DEF Folders, Same
  <2>6. v.cache \in [CacheSlots -> [dir : Inos \cup {Absent}, name : AllNames, ino : Inos \cup {Absent}]]
    BY DEF Volumes
  <2>7. ASSUME NEW e \in Inos, NEW m \in AllNames, Hit(w, e, m)
        PROVE  Hash(e, m) # Hash(d, n) /\ w.cache[Hash(e, m)] = v.cache[Hash(e, m)]
    <3>1. Hash(e, m) \in CacheSlots /\ Absent # e
      BY Numbers
    <3>2. Hash(e, m) # Hash(d, n)
      BY <2>3, <2>4, <2>6, <2>7, <3>1, <1>1 DEF Hit
    <3> QED
      BY <3>1, <3>2, <2>4, <2>6
  <2>8. Fits(w)
    BY <2>4, <2>5, <2>7 DEF Fits, Hit
  <2>9. ~Hit(w, d, n)
    BY <2>7
  <2> QED
    BY <2>2, <2>4, <2>8, <2>9
<1> QED
  BY <1>2, <1>3

\* A new inode has no entries.
LEMMA NewInodeIs ==
  ASSUME NEW v \in Volumes, Tree(v), Fits(v), v.used # Inos, NEW kind \in Kinds
  PROVE  /\ FreeInode(v) \in Inos \ v.used
         /\ new_inode(v, kind) \in Volumes
         /\ new_inode(v, kind).used = v.used \cup {FreeInode(v)}
         /\ new_inode(v, kind).kind = [v.kind EXCEPT ![FreeInode(v)] = kind]
         /\ new_inode(v, kind).links = [v.links EXCEPT ![FreeInode(v)] = 1]
         /\ new_inode(v, kind).orphans = v.orphans
         /\ new_inode(v, kind).ents = v.ents
         /\ new_inode(v, kind).blocks = [v.blocks EXCEPT ![FreeInode(v)] = 0]
         /\ new_inode(v, kind).free = v.free
         /\ new_inode(v, kind).cache = v.cache
         /\ Fits(new_inode(v, kind))
<1>1. FreeInode(v) \in Inos \ v.used
  <2>1. Inos \ v.used # {} /\ Inos \ v.used \subseteq Nat
    BY Numbers DEF Volumes
  <2> QED
    BY <2>1, LeastNumber DEF FreeInode
<1>2. PICK i \in Inos : i = FreeInode(v) /\ i \notin v.used
  BY <1>1
<1>3. PICK w : w = new_inode(v, kind)
  OBVIOUS
<1>4. w = [v EXCEPT !.used = @ \cup {i}, !.kind[i] = kind, !.links[i] = 1,
                    !.blocks[i] = 0, !.ents[i] = NoEnts]
  BY <1>2, <1>3 DEF new_inode
<1>5. v.ents[i] = NoEnts
  <2>1. v.ents[i] \in [AllNames -> Inos \cup {Absent}]
    BY DEF Volumes
  <2>2. \A n \in AllNames : v.ents[i][n] = Absent
    BY <1>2 DEF Tree, Folders
  <2> QED
    BY <2>1, <2>2 DEF NoEnts
<1>6. NoEnts \in [AllNames -> Inos \cup {Absent}]
  BY DEF NoEnts
<1>7. /\ w \in Volumes /\ w.orphans = v.orphans /\ w.free = v.free
      /\ w.used = v.used \cup {i} /\ w.kind = [v.kind EXCEPT ![i] = kind]
      /\ w.links = [v.links EXCEPT ![i] = 1] /\ w.blocks = [v.blocks EXCEPT ![i] = 0]
      /\ w.ents = [v.ents EXCEPT ![i] = NoEnts] /\ w.cache = v.cache
  BY <1>4, <1>6 DEF Volumes
<1>8. w.ents = v.ents
  BY <1>5, <1>7 DEF Volumes
<1>9. Folders(v) \subseteq Folders(w)
  BY <1>2, <1>7 DEF Folders, Volumes
<1>10. Fits(w)
  BY <1>7, <1>8, <1>9 DEF Fits, Hit
<1> QED
  BY <1>1, <1>2, <1>3, <1>7, <1>8, <1>10

\* One block more.
LEMMA AddBlockIs ==
  ASSUME NEW v \in Volumes, NEW i \in Inos, v.free # 0
  PROVE  /\ AddBlock(v, i) \in Volumes
         /\ Same(v, AddBlock(v, i)) /\ AddBlock(v, i).ents = v.ents
         /\ AddBlock(v, i).cache = v.cache
         /\ AddBlock(v, i).blocks = [v.blocks EXCEPT ![i] = @ + 1]
         /\ AddBlock(v, i).free = v.free - 1
         /\ Fits(v) => Fits(AddBlock(v, i))
<1>1. PICK w : w = AddBlock(v, i)
  OBVIOUS
<1>2. PICK bs, fr : bs = [v.blocks EXCEPT ![i] = @ + 1] /\ fr = v.free - 1
  OBVIOUS
<1>5. bs \in [Inos -> Nat] /\ fr \in Nat
  <2>1. v.blocks \in [Inos -> Nat] /\ v.free \in Nat
    BY DEF Volumes
  <2> QED
    BY <1>2, <2>1
<1>6. w = [v EXCEPT !.blocks = bs, !.free = fr]
  BY <1>1, <1>2 DEF AddBlock, Volumes
<1>3. /\ w \in Volumes
      /\ Same(v, w) /\ w.ents = v.ents /\ w.cache = v.cache
      /\ w.blocks = [v.blocks EXCEPT ![i] = @ + 1] /\ w.free = v.free - 1
  <2>1. w \in Volumes /\ w.blocks = bs /\ w.free = fr /\ w.ents = v.ents /\ w.cache = v.cache
    BY <1>5, <1>6 DEF Volumes
  <2>2. Same(v, w)
    BY <1>6 DEF Volumes, Same
  <2> QED
    BY <1>2, <2>1, <2>2
<1>4. Fits(v) => Fits(w)
  BY <1>3 DEF Fits, Hit, Folders, Same
<1> QED
  BY <1>1, <1>3, <1>4

\* A name is added, or the call stops.
HasAdded(v, r, d, n, i) ==
    /\ r.vol \in Volumes /\ Same(v, r.vol)
    /\ r.ok => /\ r.vol.ents = [v.ents EXCEPT ![d][n] = i]
               /\ Fits(r.vol)
               /\ \/ r.vol.blocks = v.blocks /\ r.vol.free = v.free
                  \/ /\ r.vol.blocks = [v.blocks EXCEPT ![d] = @ + 1]
                     /\ r.vol.free = v.free - 1 /\ v.free # 0

LEMMA DirAddIs ==
  ASSUME NEW v \in Volumes, Fits(v), NEW d \in Inos, NEW n \in Names, NEW i \in Inos,
         NEW r, r = dir_add(v, d, n, i)
  PROVE  HasAdded(v, r, d, n, i)
<1>1. n \in AllNames /\ n # DotDot
  BY Numbers
<1>2. PICK p : p = dcache_put(v, d, n, i)
  OBVIOUS
<1>3. /\ p \in Volumes /\ Same(v, p) /\ p.ents = v.ents
      /\ p.blocks = v.blocks /\ p.free = v.free
      /\ p.cache = [v.cache EXCEPT ![Hash(d, n)] = [dir |-> d, name |-> n, ino |-> i]]
  BY <1>1, <1>2, PutIs
<1>4. PICK c : c = [p EXCEPT !.ents[d][n] = i]
  OBVIOUS
<1>5. /\ c \in Volumes /\ Same(v, c) /\ c.ents = [v.ents EXCEPT ![d][n] = i]
      /\ c.blocks = v.blocks /\ c.free = v.free /\ c.cache = p.cache
  BY <1>1, <1>3, <1>4 DEF Volumes, Same
<1>6. Fits(c)
  <2>1. v.ents \in [Inos -> [AllNames -> Inos \cup {Absent}]]
    BY DEF Volumes
  <2>2. c.ents[d][n] = i
    BY <1>1, <1>5, <2>1
  <2>3. \A e \in Inos, m \in AllNames : (e # d \/ m # n) => c.ents[e][m] = v.ents[e][m]
    BY <1>1, <1>5, <2>1
  <2>4. Folders(v) = Folders(c)
    BY <1>5 DEF Folders, Same
  <2>5. c.cache = [v.cache EXCEPT ![Hash(d, n)] = [dir |-> d, name |-> n, ino |-> i]]
    BY <1>3, <1>5
  <2>6. i \in Inos \cup {Absent} /\ Folders(v) \subseteq Folders(c)
    BY <2>4
  <2>7. c \in Volumes
    BY <1>5
  <2> QED
    BY <1>1, <2>2, <2>3, <2>5, <2>6, <2>7, PutFits
<1>7. CASE HasRoom(v, d)
  <2>1. r = Done(c)
    BY <1>2, <1>4, <1>7 DEF dir_add
  <2>2. r.ok /\ r.vol = c
    BY <2>1 DEF Done
  <2> QED
    BY <1>5, <1>6, <2>2 DEF HasAdded
<1>8. CASE ~HasRoom(v, d) /\ v.free > 0
  <2>1. r = Done(AddBlock(c, d))
    BY <1>2, <1>4, <1>8 DEF dir_add
  <2>2. PICK b : b = AddBlock(c, d)
    OBVIOUS
  <2>3. c \in Volumes /\ c.blocks = v.blocks /\ c.free = v.free /\ c.free # 0
    BY <1>5, <1>8
  <2>4. /\ b \in Volumes /\ Same(c, b) /\ b.ents = c.ents
        /\ b.blocks = [c.blocks EXCEPT ![d] = @ + 1] /\ b.free = c.free - 1
        /\ Fits(c) => Fits(b)
    BY <2>2, <2>3, AddBlockIs
  <2>5. r.ok /\ r.vol = b
    BY <2>1, <2>2 DEF Done
  <2>6. Same(v, b)
    BY <1>5, <2>4 DEF Same
  <2> QED
    BY <1>5, <1>6, <2>3, <2>4, <2>5, <2>6 DEF HasAdded
<1>9. CASE ~HasRoom(v, d) /\ ~(v.free > 0)
  <2>1. r = Stopped(p)
    BY <1>2, <1>9 DEF dir_add
  <2>2. ~r.ok /\ r.vol = p
    BY <2>1 DEF Stopped
  <2> QED
    BY <1>3, <2>2 DEF HasAdded
<1> QED
  BY <1>7, <1>8, <1>9

\* A name is removed.
HasRemoved(v, r, d, n) ==
    /\ r.vol \in Volumes /\ Same(v, r.vol) /\ Fits(r.vol)
    /\ r.ok <=> v.ents[d][n] # Absent
    /\ r.vol.ents = [v.ents EXCEPT ![d][n] = Absent]
    /\ r.vol.blocks = v.blocks /\ r.vol.free = v.free

LEMMA DirRemoveIs ==
  ASSUME NEW v \in Volumes, Fits(v), NEW d \in Inos, NEW n \in Names,
         NEW r, r = dir_remove(v, d, n)
  PROVE  HasRemoved(v, r, d, n)
<1>1. n \in AllNames /\ n # DotDot
  BY Numbers
<1>2. PICK c : c = dcache_inv(v, d, n)
  OBVIOUS
<1>3. /\ c \in Volumes /\ Same(v, c) /\ c.ents = v.ents /\ Fits(c) /\ ~Hit(c, d, n)
      /\ c.blocks = v.blocks /\ c.free = v.free
  BY <1>1, <1>2, InvIs
<1>4. PICK w : w = [c EXCEPT !.ents[d][n] = Absent]
  OBVIOUS
<1>5. /\ w \in Volumes /\ Same(v, w) /\ w.ents = [v.ents EXCEPT ![d][n] = Absent]
      /\ w.cache = c.cache /\ w.blocks = v.blocks /\ w.free = v.free
  BY <1>1, <1>3, <1>4 DEF Volumes, Same
<1>6. v.ents \in [Inos -> [AllNames -> Inos \cup {Absent}]]
  BY DEF Volumes
<1>7. Fits(w)
  <2>1. \A e \in Inos, m \in AllNames : (e # d \/ m # n) => w.ents[e][m] = v.ents[e][m]
    BY <1>1, <1>5, <1>6
  <2>2. Folders(w) = Folders(v) /\ Folders(c) = Folders(v)
    BY <1>3, <1>5 DEF Folders, Same
  <2> QED
    BY <1>3, <1>5, <2>1, <2>2 DEF Fits, Hit
<1>8. CASE v.ents[d][n] = Absent
  <2>1. r = Stopped(c)
    BY <1>2, <1>8 DEF dir_remove
  <2>2. [v.ents EXCEPT ![d][n] = Absent] = v.ents
    BY <1>1, <1>6, <1>8
  <2>3. ~r.ok /\ r.vol = c
    BY <2>1 DEF Stopped
  <2> QED
    BY <1>3, <1>8, <2>2, <2>3 DEF HasRemoved
<1>9. CASE v.ents[d][n] # Absent
  <2>1. r = Done(w)
    BY <1>2, <1>4, <1>9 DEF dir_remove
  <2>3. r.ok /\ r.vol = w
    BY <2>1 DEF Done
  <2> QED
    BY <1>5, <1>7, <1>9, <2>3 DEF HasRemoved
<1> QED
  BY <1>8, <1>9

\* An inode is given back with its blocks; nothing is cached about it that the
\* next one would not say as well.
HasFreed(v, w, i) ==
    /\ w \in Volumes /\ Fits(w)
    /\ w.used = v.used \ {i} /\ w.kind = v.kind /\ w.orphans = v.orphans
    /\ w.links = [v.links EXCEPT ![i] = 0]
    /\ w.ents = [v.ents EXCEPT ![i] = NoEnts]
    /\ w.blocks = [v.blocks EXCEPT ![i] = 0]
    /\ w.free = v.free + v.blocks[i]

LEMMA ReleaseIs ==
  ASSUME NEW v \in Volumes, Fits(v), NEW i \in Inos,
         \A n \in Names : v.ents[i][n] = Absent,
         i \in Folders(v) => "rmdir" \in calls,
         NEW w, w = release_inode(v, i)
  PROVE  HasFreed(v, w, i)
<1>1. PICK fr : fr = v.free + v.blocks[i]
  OBVIOUS
<1>2. fr \in Nat /\ NoEnts \in [AllNames -> Inos \cup {Absent}]
  BY <1>1 DEF Volumes, NoEnts
<1>3. PICK t : t = truncate_inode(v, i)
  OBVIOUS
<1>4. t = [v EXCEPT !.free = fr, !.blocks[i] = 0, !.ents[i] = NoEnts]
  BY <1>1, <1>3 DEF truncate_inode, Volumes
<1>8. /\ t \in Volumes
      /\ t.used = v.used /\ t.kind = v.kind /\ t.orphans = v.orphans
      /\ t.links = v.links /\ t.cache = v.cache
      /\ t.ents = [v.ents EXCEPT ![i] = NoEnts]
      /\ t.blocks = [v.blocks EXCEPT ![i] = 0] /\ t.free = fr
  BY <1>2, <1>4 DEF Volumes
<1>9. w = [t EXCEPT !.used = @ \ {i}, !.links[i] = 0]
  BY <1>3 DEF release_inode
<1>5. /\ w \in Volumes
      /\ w.used = v.used \ {i} /\ w.kind = v.kind /\ w.orphans = v.orphans
      /\ w.links = [v.links EXCEPT ![i] = 0] /\ w.cache = v.cache
      /\ w.ents = [v.ents EXCEPT ![i] = NoEnts]
      /\ w.blocks = [v.blocks EXCEPT ![i] = 0] /\ w.free = fr
  <2>1. PICK us, ls : us = t.used \ {i} /\ ls = [t.links EXCEPT ![i] = 0]
    OBVIOUS
  <2>2. us \in SUBSET Inos /\ ls \in [Inos -> Nat]
    BY <1>8, <2>1 DEF Volumes
  <2>3. w = [t EXCEPT !.used = us, !.links = ls]
    BY <1>8, <1>9, <2>1 DEF Volumes
  <2>4. /\ w \in Volumes
        /\ w.used = us /\ w.kind = t.kind /\ w.orphans = t.orphans /\ w.links = ls
        /\ w.cache = t.cache /\ w.ents = t.ents /\ w.blocks = t.blocks /\ w.free = t.free
    BY <1>8, <2>2, <2>3 DEF Volumes
  <2> QED
    BY <1>8, <2>1, <2>4
<1>6. ASSUME NEW e \in Inos, NEW m \in AllNames, Hit(v, e, m)
      PROVE  /\ w.ents[e][m] = v.ents[e][m]
             /\ m = DotDot => e \in Folders(w)
  <2>1. v.ents \in [Inos -> [AllNames -> Inos \cup {Absent}]]
    BY DEF Volumes
  <2>2. m = DotDot => e \in Folders(v) /\ e # i
    BY <1>6 DEF Fits
  <2>3. m # DotDot => m \in Names
    BY DEF AllNames
  <2>4. w.ents[e][m] = v.ents[e][m]
    BY <1>5, <2>1, <2>2, <2>3 DEF NoEnts
  <2> QED
    BY <1>5, <2>2, <2>4 DEF Folders
<1>7. Fits(w)
  BY <1>5, <1>6, FitsKept
<1> QED
  BY <1>1, <1>5, <1>7 DEF HasFreed

\* A count of links is set.
HasCount(v, w, i, c) ==
    /\ w \in Volumes /\ Fits(w)
    /\ w.used = v.used /\ w.kind = v.kind /\ w.orphans = v.orphans
    /\ w.links = [v.links EXCEPT ![i] = c]
    /\ w.ents = v.ents /\ w.blocks = v.blocks /\ w.free = v.free

LEMMA CountIs ==
  ASSUME NEW v \in Volumes, Fits(v), NEW i \in Inos, NEW c \in Nat
  PROVE  HasCount(v, [v EXCEPT !.links[i] = c], i, c)
<1> DEFINE w == [v EXCEPT !.links[i] = c]
<1>1. /\ w \in Volumes
      /\ w.used = v.used /\ w.kind = v.kind /\ w.orphans = v.orphans
      /\ w.links = [v.links EXCEPT ![i] = c] /\ w.cache = v.cache
      /\ w.ents = v.ents /\ w.blocks = v.blocks /\ w.free = v.free
  BY DEF Volumes
<1>2. Fits(w)
  BY <1>1 DEF Fits, Hit, Folders
<1> QED
  BY <1>1, <1>2 DEF HasCount

\* A directory learns its new parent.
HasParent(v, w, i, d) ==
    /\ w \in Volumes /\ Fits(w) /\ Same(v, w)
    /\ w.ents = [v.ents EXCEPT ![i][DotDot] = d]
    /\ w.blocks = v.blocks /\ w.free = v.free

LEMMA SetDotdotIs ==
  ASSUME NEW v \in Volumes, Fits(v), NEW i \in Folders(v), NEW d \in Inos,
         "rmdir" \notin calls,
         NEW w, w = set_dotdot(v, i, d)
  PROVE  HasParent(v, w, i, d)
<1>1. i \in Inos /\ DotDot \in AllNames /\ d \in Inos \cup {Absent}
  BY Numbers DEF Folders, Volumes
<1>2. PICK p : p = dcache_put(v, i, DotDot, d)
  OBVIOUS
<1>3. /\ p \in Volumes /\ Same(v, p) /\ p.ents = v.ents
      /\ p.blocks = v.blocks /\ p.free = v.free
      /\ p.cache = [v.cache EXCEPT ![Hash(i, DotDot)] = [dir |-> i, name |-> DotDot, ino |-> d]]
  BY <1>1, <1>2, PutIs
<1>4. w = [p EXCEPT !.ents[i][DotDot] = d]
  BY <1>2 DEF set_dotdot
<1>5. /\ w \in Volumes /\ Same(v, w) /\ w.ents = [v.ents EXCEPT ![i][DotDot] = d]
      /\ w.blocks = v.blocks /\ w.free = v.free /\ w.cache = p.cache
  <2>1. PICK m \in AllNames : m = DotDot
    BY <1>1
  <2>4. PICK es : es = [p.ents EXCEPT ![i][m] = d]
    OBVIOUS
  <2>5. es \in [Inos -> [AllNames -> Inos \cup {Absent}]]
    BY <1>1, <1>3, <2>4 DEF Volumes
  <2>2. w = [p EXCEPT !.ents = es]
    BY <1>3, <1>4, <2>1, <2>4 DEF Volumes
  <2>3. /\ w \in Volumes
        /\ w.used = p.used /\ w.kind = p.kind /\ w.links = p.links /\ w.orphans = p.orphans
        /\ w.ents = [p.ents EXCEPT ![i][m] = d]
        /\ w.blocks = p.blocks /\ w.free = p.free /\ w.cache = p.cache
    BY <1>3, <2>2, <2>4, <2>5 DEF Volumes
  <2> QED
    BY <1>3, <2>1, <2>3 DEF Same
<1>6. v.ents \in [Inos -> [AllNames -> Inos \cup {Absent}]]
  BY DEF Volumes
<1>7. \A e \in Inos, m \in AllNames : (e # i \/ m # DotDot) => w.ents[e][m] = v.ents[e][m]
  BY <1>1, <1>5, <1>6
<1>8. w.ents[i][DotDot] = d
  BY <1>1, <1>5, <1>6
<1>9. Folders(v) = Folders(w)
  BY <1>5 DEF Folders, Same
<1>10. w.cache = [v.cache EXCEPT ![Hash(i, DotDot)] = [dir |-> i, name |-> DotDot, ino |-> d]]
  BY <1>3, <1>5
<1>11. Folders(v) \subseteq Folders(w) /\ i \in Folders(w) /\ w \in Volumes
  BY <1>5, <1>9
<1>12. Fits(w)
  BY <1>1, <1>7, <1>8, <1>10, <1>11, PutFits
<1> QED
  BY <1>5, <1>12 DEF HasParent

-----------------------------------------------------------------------------
(* What the calls do to the tree and to the links.                         *)

\* Names and directories are few enough to be counted.
LEMMA Countable ==
  ASSUME NEW v
  PROVE  /\ \A i : IsFiniteSet(Named(v, i)) /\ Cardinality(Named(v, i)) \in Nat
         /\ \A d : IsFiniteSet(Kids(v, d)) /\ Cardinality(Kids(v, d)) \in Nat
<1>1. IsFiniteSet(Inos \X Names)
  BY Numbers, Ext2Assumption, FS_Product
<1>2. \A i : Named(v, i) \subseteq Inos \X Names
  BY DEF Named
<1>3. \A d : Kids(v, d) \subseteq Names
  BY DEF Kids
<1>4. \A i : IsFiniteSet(Named(v, i))
  BY <1>1, <1>2, FS_Subset
<1>5. \A d : IsFiniteSet(Kids(v, d))
  BY <1>3, Ext2Assumption, FS_Subset
<1> QED
  BY <1>4, <1>5, FS_CardinalityType

\* One element for another.
LEMMA Swapped ==
  ASSUME NEW S, NEW T, NEW x \in S, NEW y, IsFiniteSet(S), y \notin S, T = (S \ {x}) \cup {y}
  PROVE  Cardinality(T) = Cardinality(S)
<1>1. PICK R : R = S \ {x}
  OBVIOUS
<1>2. IsFiniteSet(R) /\ Cardinality(R) = Cardinality(S) - 1 /\ y \notin R
  BY <1>1, FS_RemoveElement
<1>3. Cardinality(R \cup {y}) = Cardinality(R) + 1
  BY <1>2, FS_AddElement
<1>4. Cardinality(S) \in Nat /\ Cardinality(R) \in Nat
  BY <1>2, FS_CardinalityType
<1> QED
  BY <1>1, <1>2, <1>3, <1>4

\* The types of a volume and what is a directory.
LEMMA TreeTypes ==
  ASSUME NEW v \in Volumes, Tree(v)
  PROVE  /\ v.ents \in [Inos -> [AllNames -> Inos \cup {Absent}]]
         /\ v.kind \in [Inos -> Kinds] /\ v.links \in [Inos -> Nat] /\ v.used \subseteq Inos
         /\ Folders(v) \subseteq v.used /\ Folders(v) \subseteq Inos
         /\ Absent \notin Folders(v) /\ Absent \notin v.used /\ Root \in Folders(v)
         /\ \A e \in Folders(v) : v.ents[e][DotDot] \in Folders(v)
<1>1. /\ v.ents \in [Inos -> [AllNames -> Inos \cup {Absent}]]
      /\ v.kind \in [Inos -> Kinds] /\ v.links \in [Inos -> Nat] /\ v.used \subseteq Inos
  BY DEF Volumes
<1>2. Folders(v) \subseteq v.used
  BY DEF Folders
<1> QED
  BY <1>1, <1>2, Numbers DEF Tree

\* Where names lead, and what they are.
LEMMA TreeNames ==
  ASSUME NEW v \in Volumes, Tree(v)
  PROVE  /\ \A d \in Inos, n \in Names : v.ents[d][n] # Absent =>
               d \in Folders(v) /\ v.ents[d][n] \in v.used \ {Root}
         /\ \A n \in Names : n \in AllNames /\ n # DotDot
<1>1. \A n \in Names : n \in AllNames /\ n # DotDot
  BY Numbers
<1> QED
  BY <1>1 DEF Tree

\* Where the names of files change, the directories stay as they are.
OnlyFilesMove(v, w) ==
    /\ Folders(w) = Folders(v)
    /\ \A e \in Inos : w.ents[e][DotDot] = v.ents[e][DotDot]
    /\ \A e \in Inos, m \in Names :
          \/ w.ents[e][m] = v.ents[e][m]
          \/ e \in Folders(v) /\ v.ents[e][m] \notin Folders(v) /\ w.ents[e][m] \notin Folders(v)
    /\ \A e \in Inos, m \in Names : w.ents[e][m] # Absent => w.ents[e][m] \in w.used \ {Root}
    /\ \A e \in Folders(v) : w.links[e] = v.links[e]

LEMMA OnlyFiles ==
  ASSUME NEW v \in Volumes, NEW w \in Volumes, Tree(v), Links(v), OnlyFilesMove(v, w)
  PROVE  /\ Tree(w)
         /\ \A e \in Folders(w) : w.links[e] = 2 + Cardinality(Kids(w, e))
<1> USE DEF OnlyFilesMove
<1>1. Tree(w)
  <2>1. Root \in Folders(w) /\ w.ents[Root][DotDot] = Root
    BY Numbers DEF Tree
  <2>2. \A e \in Inos, m \in AllNames : w.ents[e][m] # Absent => e \in Folders(w)
    <3>1. \A m \in AllNames : m = DotDot \/ m \in Names
      BY DEF AllNames
    <3> QED
      BY <3>1, Numbers DEF Tree
  <2>3. \A e \in Inos, m \in Names :
          w.ents[e][m] \in Folders(w) =>
              /\ w.ents[w.ents[e][m]][DotDot] = e
              /\ \A l \in Names : w.ents[e][l] = w.ents[e][m] => l = m
    <3> SUFFICES ASSUME NEW e \in Inos, NEW m \in Names, w.ents[e][m] \in Folders(v)
                 PROVE  /\ w.ents[w.ents[e][m]][DotDot] = e
                        /\ \A l \in Names : w.ents[e][l] = w.ents[e][m] => l = m
      OBVIOUS
    <3>1. w.ents[e][m] \in Inos
      BY TreeTypes
    <3>2. \A l \in Names : w.ents[e][l] \in Folders(v) => w.ents[e][l] = v.ents[e][l]
      OBVIOUS
    <3>3. w.ents[e][m] = v.ents[e][m]
      BY <3>2
    <3> QED
      BY <3>1, <3>2, <3>3 DEF Tree
  <2>4. \A e \in Folders(w) \ {Root} : \E m \in Names : w.ents[w.ents[e][DotDot]][m] = e
    <3> SUFFICES ASSUME NEW e \in Folders(v) \ {Root}
                 PROVE  \E m \in Names : w.ents[w.ents[e][DotDot]][m] = e
      OBVIOUS
    <3>1. PICK m \in Names : v.ents[v.ents[e][DotDot]][m] = e
      BY DEF Tree
    <3>2. e \in Inos /\ v.ents[e][DotDot] \in Inos
      BY TreeTypes
    <3>3. w.ents[v.ents[e][DotDot]][m] = e
      BY <3>1, <3>2
    <3> QED
      BY <3>2, <3>3
  <2>5. \A e \in Folders(w) : w.ents[e][DotDot] \in Folders(w)
    BY TreeTypes
  <2> QED
    BY <2>1, <2>2, <2>3, <2>4, <2>5 DEF Tree
<1>2. ASSUME NEW e \in Folders(v) PROVE w.links[e] = 2 + Cardinality(Kids(w, e))
  <2>1. e \in Inos
    BY TreeTypes
  <2>2. Kids(w, e) = Kids(v, e)
    BY <2>1 DEF Kids
  <2> QED
    BY <2>2 DEF Links
<1> QED
  BY <1>1, <1>2

GainsFile(v, w, d, n, i, kind) ==
    /\ w.used = v.used \cup {i} /\ w.kind = [v.kind EXCEPT ![i] = kind]
    /\ w.links = [v.links EXCEPT ![i] = 1] /\ w.orphans = v.orphans
    /\ w.ents = [v.ents EXCEPT ![d][n] = i]

\* A new inode that is no directory gets its name.
LEMMA NewFile ==
  ASSUME NEW v \in Volumes, NEW w \in Volumes, Tree(v), Links(v),
         NEW d \in Folders(v), NEW n \in Names, v.ents[d][n] = Absent,
         NEW i \in Inos \ v.used, NEW kind \in Kinds, kind # "dir",
         GainsFile(v, w, d, n, i, kind)
  PROVE  Tree(w) /\ Links(w)
<1> /\ w.used = v.used \cup {i} /\ w.kind = [v.kind EXCEPT ![i] = kind]
    /\ w.links = [v.links EXCEPT ![i] = 1] /\ w.orphans = v.orphans
    /\ w.ents = [v.ents EXCEPT ![d][n] = i]
  BY DEF GainsFile
<1>1. /\ d \in Inos /\ d # i /\ i # Root /\ i # Absent /\ n \in AllNames /\ n # DotDot
      /\ v.ents \in [Inos -> [AllNames -> Inos \cup {Absent}]]
      /\ v.kind \in [Inos -> Kinds] /\ v.links \in [Inos -> Nat] /\ v.used \subseteq Inos
  <2>1. /\ v.ents \in [Inos -> [AllNames -> Inos \cup {Absent}]]
        /\ v.kind \in [Inos -> Kinds] /\ v.links \in [Inos -> Nat] /\ v.used \subseteq Inos
    BY DEF Volumes
  <2>2. d \in v.used /\ Root \in v.used
    BY DEF Folders, Tree
  <2> QED
    BY <2>1, <2>2, Numbers
<1>2. \A e \in Inos, m \in AllNames :
        w.ents[e][m] = IF e = d /\ m = n THEN i ELSE v.ents[e][m]
  BY <1>1
<1>3. Folders(w) = Folders(v)
  BY <1>1 DEF Folders
<1>4. \A e \in Inos, m \in Names : v.ents[e][m] # i
  BY <1>1 DEF Tree
<1>5. Tree(w) /\ \A e \in Folders(w) : w.links[e] = 2 + Cardinality(Kids(w, e))
  <2>1. i \notin Folders(v) /\ Absent \notin Folders(v) /\ Folders(v) \subseteq Inos
    BY TreeTypes
  <2>2. \A e \in Inos : w.ents[e][DotDot] = v.ents[e][DotDot]
    BY <1>1, <1>2, Numbers
  <2>3. \A e \in Inos, m \in Names :
          \/ w.ents[e][m] = v.ents[e][m]
          \/ e \in Folders(v) /\ v.ents[e][m] \notin Folders(v) /\ w.ents[e][m] \notin Folders(v)
    BY <1>1, <1>2, <2>1, Numbers
  <2>4. \A e \in Inos, m \in Names : w.ents[e][m] # Absent => w.ents[e][m] \in w.used \ {Root}
    BY <1>1, <1>2, TreeNames
  <2>5. \A e \in Folders(v) : w.links[e] = v.links[e]
    BY <1>1, <2>1
  <2>6. OnlyFilesMove(v, w)
    BY <1>3, <2>2, <2>3, <2>4, <2>5 DEF OnlyFilesMove
  <2> QED
    BY <2>6, OnlyFiles
<1>7. \A j \in w.used \ Folders(w) : w.links[j] = Cardinality(Named(w, j))
  <2>1. Named(w, i) = {<<d, n>>}
    <3>1. \A e \in Inos, m \in Names : w.ents[e][m] = i <=> (e = d /\ m = n)
      BY <1>1, <1>2, <1>4, TreeNames
    <3> QED
      BY <1>1, <3>1 DEF Named
  <2>2. Cardinality({<<d, n>>}) = 1
    BY FS_Singleton
  <2>3. w.links[i] = 1
    BY <1>1
  <2>4. ASSUME NEW j \in v.used \ Folders(v) PROVE w.links[j] = Cardinality(Named(w, j))
    <3>1. j \in Inos /\ j # i
      BY <1>1
    <3>2. Named(w, j) = Named(v, j)
      BY <3>1, <1>1, <1>2, Numbers DEF Named
    <3>3. w.links[j] = v.links[j]
      BY <1>1, <3>1
    <3> QED
      BY <3>2, <3>3 DEF Links
  <2> QED
    BY <1>3, <2>1, <2>2, <2>3, <2>4
<1>8. \A j \in w.orphans : j \in w.used \ Folders(w) /\ w.links[j] = 0
  BY <1>1, <1>3 DEF Links
<1> QED
  BY <1>5, <1>7, <1>8 DEF Links

\* A new directory gets its "..", its name and a link of its parent.
LEMMA NewDir ==
  ASSUME NEW v \in Volumes, NEW w \in Volumes, Tree(v), Links(v),
         NEW d \in Folders(v), NEW n \in Names, v.ents[d][n] = Absent,
         NEW i \in Inos \ v.used,
         w.used = v.used \cup {i}, w.kind = [v.kind EXCEPT ![i] = "dir"],
         w.links = [[v.links EXCEPT ![i] = 2] EXCEPT ![d] = @ + 1], w.orphans = v.orphans,
         w.ents = [[v.ents EXCEPT ![i][DotDot] = d] EXCEPT ![d][n] = i]
  PROVE  Tree(w) /\ Links(w)
<1>1. /\ d \in Inos /\ d # i /\ i # Root /\ i # Absent /\ n \in AllNames /\ n # DotDot
      /\ v.ents \in [Inos -> [AllNames -> Inos \cup {Absent}]]
      /\ v.kind \in [Inos -> Kinds] /\ v.links \in [Inos -> Nat] /\ v.used \subseteq Inos
  <2>1. /\ v.ents \in [Inos -> [AllNames -> Inos \cup {Absent}]]
        /\ v.kind \in [Inos -> Kinds] /\ v.links \in [Inos -> Nat] /\ v.used \subseteq Inos
    BY DEF Volumes
  <2>2. d \in v.used /\ Root \in v.used
    BY DEF Folders, Tree
  <2> QED
    BY <2>1, <2>2, Numbers
<1>2. \A e \in Inos, m \in AllNames :
        w.ents[e][m] = IF e = d /\ m = n THEN i
                       ELSE IF e = i /\ m = DotDot THEN d ELSE v.ents[e][m]
  BY <1>1, Numbers
<1>3. Folders(w) = Folders(v) \cup {i} /\ i \notin Folders(v) /\ Absent \notin Folders(v)
  BY <1>1, Numbers DEF Folders
<1>4. \A e \in Inos, m \in Names : v.ents[e][m] # i
  BY <1>1 DEF Tree
<1>5. \A m \in AllNames : v.ents[i][m] = Absent
  BY <1>3 DEF Tree
<1>6. Tree(w)
  <2>1. Root \in Folders(w) /\ w.ents[Root][DotDot] = Root
    BY <1>1, <1>2, <1>3, Numbers DEF Tree
  <2>2. \A e \in Inos, m \in AllNames : w.ents[e][m] # Absent => e \in Folders(w)
    BY <1>1, <1>2, <1>3 DEF Tree
  <2>3. \A e \in Inos, m \in Names : w.ents[e][m] # Absent => w.ents[e][m] \in w.used \ {Root}
    BY <1>1, <1>2, Numbers DEF Tree
  <2>4. \A e \in Folders(w) : w.ents[e][DotDot] \in Folders(w)
    <3>1. \A e \in Folders(v) : e \in Inos /\ e # i
      BY <1>1, <1>3 DEF Folders
    <3> QED
      BY <1>1, <1>2, <1>3, <3>1, Numbers DEF Tree
  <2>5. \A e \in Inos, m \in Names :
          w.ents[e][m] \in Folders(w) =>
              /\ w.ents[w.ents[e][m]][DotDot] = e
              /\ \A l \in Names : w.ents[e][l] = w.ents[e][m] => l = m
    BY <1>1, <1>2, <1>3, <1>4, <1>5, Numbers DEF Tree
  <2>6. \A e \in Folders(w) \ {Root} : \E m \in Names : w.ents[w.ents[e][DotDot]][m] = e
    <3> SUFFICES ASSUME NEW e \in Folders(w) \ {Root}
                 PROVE  \E m \in Names : w.ents[w.ents[e][DotDot]][m] = e
      OBVIOUS
    <3>1. CASE e = i
      BY <1>1, <1>2, <3>1, Numbers
    <3>2. CASE e # i
      <4>1. e \in Folders(v) \ {Root} /\ e \in Inos
        BY <1>1, <1>3, <3>2 DEF Folders
      <4>2. PICK m \in Names : v.ents[v.ents[e][DotDot]][m] = e
        BY <4>1 DEF Tree
      <4>3. v.ents[e][DotDot] \in Folders(v) /\ v.ents[e][DotDot] \in Inos
        BY <4>1 DEF Tree, Folders, Volumes
      <4>4. w.ents[e][DotDot] = v.ents[e][DotDot]
        BY <1>1, <1>2, <3>2, <4>1, Numbers
      <4>5. w.ents[v.ents[e][DotDot]][m] = e
        BY <1>1, <1>2, <4>1, <4>2, <4>3, Numbers
      <4> QED
        BY <4>4, <4>5
    <3> QED
      BY <3>1, <3>2
  <2> QED
    BY <2>1, <2>2, <2>3, <2>4, <2>5, <2>6 DEF Tree
<1>7. \A e \in Folders(w) : w.links[e] = 2 + Cardinality(Kids(w, e))
  <2>1. Kids(w, i) = {} /\ w.links[i] = 2
    BY <1>1, <1>2, <1>3, <1>5, Numbers DEF Kids
  <2>2. w.links[i] = 2 + Cardinality(Kids(w, i))
    <3>1. Cardinality({}) = 0
      BY FS_EmptySet
    <3> QED
      BY <2>1, <3>1
  <2>3. Kids(w, d) = Kids(v, d) \cup {n} /\ n \notin Kids(v, d)
    BY <1>1, <1>2, <1>3, <1>4, Numbers DEF Kids
  <2>4. Cardinality(Kids(w, d)) = Cardinality(Kids(v, d)) + 1
    BY <2>3, Countable, FS_AddElement
  <2>5. w.links[d] = v.links[d] + 1
    BY <1>1
  <2>6. v.links[d] = 2 + Cardinality(Kids(v, d)) /\ Cardinality(Kids(v, d)) \in Nat
    BY Countable DEF Links
  <2>7. w.links[d] = 2 + Cardinality(Kids(w, d))
    BY <2>4, <2>5, <2>6
  <2>8. ASSUME NEW e \in Folders(v), e # d PROVE w.links[e] = 2 + Cardinality(Kids(w, e))
    <3>1. e \in Inos /\ e # i
      BY <1>1, <1>3 DEF Folders
    <3>2. Kids(w, e) = Kids(v, e)
      BY <1>1, <1>2, <1>3, <1>4, <2>8, <3>1, Numbers DEF Kids
    <3>3. w.links[e] = v.links[e]
      BY <1>1, <2>8, <3>1
    <3> QED
      BY <3>2, <3>3 DEF Links
  <2> QED
    BY <1>3, <2>2, <2>7, <2>8
<1>8. \A j \in w.used \ Folders(w) : w.links[j] = Cardinality(Named(w, j))
  <2> SUFFICES ASSUME NEW j \in v.used \ Folders(v) PROVE w.links[j] = Cardinality(Named(w, j))
    BY <1>3
  <2>1. j \in Inos /\ j # i /\ j # d
    BY <1>1
  <2>2. Named(w, j) = Named(v, j)
    BY <2>1, <1>1, <1>2, <1>4, Numbers DEF Named
  <2>3. w.links[j] = v.links[j]
    BY <1>1, <2>1
  <2> QED
    BY <2>2, <2>3 DEF Links
<1>9. \A j \in w.orphans : j \in w.used \ Folders(w) /\ w.links[j] = 0
  <2>1. \A j \in v.orphans : j \in v.used \ Folders(v) /\ v.links[j] = 0 /\ j \in Inos /\ j # i /\ j # d
    BY <1>1, <1>3 DEF Links
  <2> QED
    BY <1>1, <1>3, <2>1
<1> QED
  BY <1>6, <1>7, <1>8, <1>9 DEF Links

\* A file gets one more name and link.
LEMMA NameAdded ==
  ASSUME NEW v \in Volumes, NEW w \in Volumes, Tree(v), Links(v),
         NEW d \in Folders(v), NEW n \in Names, v.ents[d][n] = Absent,
         NEW i \in v.used \ Folders(v), Named(v, i) # {},
         w.used = v.used, w.kind = v.kind,
         w.links = [v.links EXCEPT ![i] = @ + 1], w.orphans = v.orphans,
         w.ents = [v.ents EXCEPT ![d][n] = i]
  PROVE  Tree(w) /\ Links(w)
<1>1. /\ d \in Inos /\ i \in Inos /\ d # i /\ i # Root /\ i # Absent
      /\ n \in AllNames /\ n # DotDot
  BY TreeTypes, Numbers
<1>2. \A e \in Inos, m \in AllNames :
        w.ents[e][m] = IF e = d /\ m = n THEN i ELSE v.ents[e][m]
  BY <1>1, TreeTypes
<1>3. Folders(w) = Folders(v)
  BY DEF Folders
<1>4. \A e \in Inos : w.ents[e][DotDot] = v.ents[e][DotDot]
  BY <1>1, <1>2, Numbers
<1>5. Tree(w) /\ \A e \in Folders(w) : w.links[e] = 2 + Cardinality(Kids(w, e))
  <2>1. i \notin Folders(v) /\ Absent \notin Folders(v)
    BY TreeTypes
  <2>2. \A e \in Inos, m \in Names :
          \/ w.ents[e][m] = v.ents[e][m]
          \/ e \in Folders(v) /\ v.ents[e][m] \notin Folders(v) /\ w.ents[e][m] \notin Folders(v)
    BY <1>1, <1>2, <2>1, TreeNames
  <2>3. \A e \in Inos, m \in Names : w.ents[e][m] # Absent => w.ents[e][m] \in w.used \ {Root}
    BY <1>1, <1>2, TreeNames
  <2>4. \A e \in Folders(v) : w.links[e] = v.links[e]
    BY <1>1, <2>1, TreeTypes
  <2>5. OnlyFilesMove(v, w)
    BY <1>3, <1>4, <2>2, <2>3, <2>4 DEF OnlyFilesMove
  <2> QED
    BY <2>5, OnlyFiles
<1>7. \A j \in w.used \ Folders(w) : w.links[j] = Cardinality(Named(w, j))
  <2>1. Named(w, i) = Named(v, i) \cup {<<d, n>>} /\ <<d, n>> \notin Named(v, i)
    BY <1>1, <1>2, Numbers DEF Named
  <2>2. Cardinality(Named(w, i)) = Cardinality(Named(v, i)) + 1
    BY <2>1, Countable, FS_AddElement
  <2>3. w.links[i] = v.links[i] + 1 /\ v.links[i] = Cardinality(Named(v, i))
    BY <1>1, TreeTypes DEF Links
  <2>4. ASSUME NEW j \in v.used \ Folders(v), j # i PROVE w.links[j] = Cardinality(Named(w, j))
    <3>1. j \in Inos /\ j # Absent
      BY TreeTypes
    <3>2. Named(w, j) = Named(v, j)
      BY <2>4, <3>1, <1>1, <1>2, Numbers DEF Named
    <3>3. w.links[j] = v.links[j]
      BY <2>4, <3>1, TreeTypes
    <3> QED
      BY <3>2, <3>3 DEF Links
  <2> QED
    BY <1>3, <2>2, <2>3, <2>4
<1>8. \A j \in w.orphans : j \in w.used \ Folders(w) /\ w.links[j] = 0
  <2>1. Cardinality(Named(v, i)) # 0
    BY Countable, FS_EmptySet
  <2>2. i \notin v.orphans
    BY <2>1 DEF Links
  <2>3. \A j \in v.orphans : j \in v.used \ Folders(v) /\ v.links[j] = 0 /\ j \in Inos
    BY TreeTypes DEF Links
  <2> QED
    BY <1>3, <2>2, <2>3, TreeTypes
<1> QED
  BY <1>5, <1>7, <1>8 DEF Links

\* A file loses a name and a link.
LEMMA NameRemoved ==
  ASSUME NEW v \in Volumes, NEW w \in Volumes, Tree(v), Links(v),
         NEW d \in Inos, NEW n \in Names, v.ents[d][n] \in v.used \ Folders(v),
         NEW i, i = v.ents[d][n],
         w.used = v.used, w.kind = v.kind,
         w.links = [v.links EXCEPT ![i] = Less(@)], w.orphans = v.orphans,
         w.ents = [v.ents EXCEPT ![d][n] = Absent]
  PROVE  Tree(w) /\ Links(w) /\ v.links[i] # 0 /\ i \notin v.orphans
<1>1. i \in Inos /\ i # Root /\ i # Absent /\ n \in AllNames /\ n # DotDot
  BY TreeTypes, Numbers
<1>2. \A e \in Inos, m \in AllNames :
        w.ents[e][m] = IF e = d /\ m = n THEN Absent ELSE v.ents[e][m]
  BY <1>1, TreeTypes
<1>3. Folders(w) = Folders(v)
  BY DEF Folders
<1>4. \A e \in Inos : w.ents[e][DotDot] = v.ents[e][DotDot]
  BY <1>1, <1>2, Numbers
<1>5. Tree(w) /\ \A e \in Folders(w) : w.links[e] = 2 + Cardinality(Kids(w, e))
  <2>1. i \notin Folders(v) /\ Absent \notin Folders(v)
    BY TreeTypes
  <2>2. \A e \in Inos, m \in Names :
          \/ w.ents[e][m] = v.ents[e][m]
          \/ e \in Folders(v) /\ v.ents[e][m] \notin Folders(v) /\ w.ents[e][m] \notin Folders(v)
    BY <1>1, <1>2, <2>1, TreeNames
  <2>3. \A e \in Inos, m \in Names : w.ents[e][m] # Absent => w.ents[e][m] \in w.used \ {Root}
    BY <1>1, <1>2, TreeNames
  <2>4. \A e \in Folders(v) : w.links[e] = v.links[e]
    BY <1>1, <2>1, TreeTypes
  <2>5. OnlyFilesMove(v, w)
    BY <1>3, <1>4, <2>2, <2>3, <2>4 DEF OnlyFilesMove
  <2> QED
    BY <2>5, OnlyFiles
<1>9. Named(w, i) = Named(v, i) \ {<<d, n>>} /\ <<d, n>> \in Named(v, i)
  BY <1>1, <1>2, Numbers DEF Named
<1>10. Cardinality(Named(w, i)) = Cardinality(Named(v, i)) - 1
  <2>1. PICK S, x : S = Named(v, i) /\ x = <<d, n>>
    OBVIOUS
  <2>3. IsFiniteSet(S) /\ x \in S
    BY <1>9, <2>1, Countable
  <2>2. Cardinality(S \ {x}) = Cardinality(S) - 1
    BY <2>3, FS_RemoveElement
  <2> QED
    BY <1>9, <2>1, <2>2
<1>11. Cardinality(Named(v, i)) \in Nat /\ Cardinality(Named(w, i)) \in Nat
  BY Countable
<1>12. v.links[i] = Cardinality(Named(v, i)) /\ v.links[i] # 0
  BY <1>10, <1>11 DEF Links
<1>13. i \notin v.orphans
  BY <1>12 DEF Links
<1>7. \A j \in w.used \ Folders(w) : w.links[j] = Cardinality(Named(w, j))
  <2>3. w.links[i] = v.links[i] - 1
    BY <1>1, <1>12, TreeTypes DEF Less
  <2>4. ASSUME NEW j \in v.used \ Folders(v), j # i PROVE w.links[j] = Cardinality(Named(w, j))
    <3>1. j \in Inos /\ j # Absent
      BY TreeTypes
    <3>2. Named(w, j) = Named(v, j)
      BY <2>4, <3>1, <1>1, <1>2, Numbers DEF Named
    <3>3. w.links[j] = v.links[j]
      BY <2>4, <3>1, TreeTypes
    <3> QED
      BY <3>2, <3>3 DEF Links
  <2> QED
    BY <1>3, <1>10, <1>12, <2>3, <2>4
<1>8. \A j \in w.orphans : j \in w.used \ Folders(w) /\ w.links[j] = 0
  <2>3. \A j \in v.orphans : j \in v.used \ Folders(v) /\ v.links[j] = 0 /\ j \in Inos
    BY TreeTypes DEF Links
  <2> QED
    BY <1>3, <1>13, <2>3, TreeTypes
<1> QED
  BY <1>5, <1>7, <1>8, <1>12, <1>13 DEF Links

\* A file without links is freed; no name leads to it.
LEMMA FileFreed ==
  ASSUME NEW v \in Volumes, NEW w \in Volumes, Tree(v), Links(v),
         NEW i \in v.used \ Folders(v), v.links[i] = 0,
         w.used = v.used \ {i}, w.kind = v.kind,
         w.links = [v.links EXCEPT ![i] = 0], w.orphans = v.orphans \ {i},
         w.ents = [v.ents EXCEPT ![i] = NoEnts]
  PROVE  Tree(w) /\ Links(w)
<1>1. i \in Inos /\ i # Root /\ i # Absent
  BY TreeTypes
<1>2. Cardinality(Named(v, i)) = 0
  BY DEF Links
<1>3. Named(v, i) = {}
  <2>1. PICK S : S = Named(v, i)
    OBVIOUS
  <2>2. IsFiniteSet(S) /\ Cardinality(S) = 0
    BY <1>2, <2>1, Countable
  <2>3. S = {}
    BY <2>2, FS_EmptySet
  <2> QED
    BY <2>1, <2>3
<1>4. \A e \in Inos, m \in Names : v.ents[e][m] # i
  <2> SUFFICES ASSUME NEW e \in Inos, NEW m \in Names, v.ents[e][m] = i PROVE FALSE
    OBVIOUS
  <2>1. <<e, m>> \in Named(v, i)
    BY DEF Named
  <2> QED
    BY <1>3, <2>1
<1>5. w.ents = v.ents
  <2>1. v.ents[i] \in [AllNames -> Inos \cup {Absent}]
    BY <1>1, TreeTypes
  <2>2. \A n \in AllNames : v.ents[i][n] = Absent
    BY <1>1 DEF Tree
  <2>3. v.ents[i] = NoEnts
    BY <2>1, <2>2 DEF NoEnts
  <2> QED
    BY <1>1, <2>3, TreeTypes
<1>6. Folders(w) = Folders(v)
  BY DEF Folders
<1>7. Tree(w) /\ \A e \in Folders(w) : w.links[e] = 2 + Cardinality(Kids(w, e))
  <2>1. \A e \in Folders(v) : w.links[e] = v.links[e]
    BY <1>1, TreeTypes
  <2>2. \A e \in Inos, m \in Names : w.ents[e][m] # Absent => w.ents[e][m] \in w.used \ {Root}
    BY <1>4, <1>5 DEF Tree
  <2>3. OnlyFilesMove(v, w)
    BY <1>5, <1>6, <2>1, <2>2 DEF OnlyFilesMove
  <2> QED
    BY <2>3, OnlyFiles
<1>8. \A j \in w.used \ Folders(w) : w.links[j] = Cardinality(Named(w, j))
  <2> SUFFICES ASSUME NEW j \in v.used \ Folders(v), j # i
               PROVE  w.links[j] = Cardinality(Named(w, j))
    BY <1>6
  <2>1. Named(w, j) = Named(v, j)
    BY <1>5 DEF Named
  <2>2. w.links[j] = v.links[j]
    BY TreeTypes
  <2> QED
    BY <2>1, <2>2 DEF Links
<1>9. \A j \in w.orphans : j \in w.used \ Folders(w) /\ w.links[j] = 0
  <2>1. \A j \in v.orphans : j \in v.used \ Folders(v) /\ v.links[j] = 0 /\ j \in Inos
    BY TreeTypes DEF Links
  <2> QED
    BY <1>6, <2>1, TreeTypes
<1> QED
  BY <1>7, <1>8, <1>9 DEF Links

\* A directory without entries loses its name and is freed; its parent loses a
\* link.
LEMMA DirFreed ==
  ASSUME NEW v \in Volumes, NEW w \in Volumes, Tree(v), Links(v),
         NEW d \in Inos, NEW n \in Names, v.ents[d][n] \in Folders(v),
         NEW i, i = v.ents[d][n], \A m \in Names : v.ents[i][m] = Absent,
         w.used = v.used \ {i}, w.kind = v.kind,
         w.links = [[v.links EXCEPT ![i] = 0] EXCEPT ![d] = Less(@)], w.orphans = v.orphans,
         w.ents = [[v.ents EXCEPT ![d][n] = Absent] EXCEPT ![i] = NoEnts]
  PROVE  Tree(w) /\ Links(w)
<1>1. /\ i \in Inos /\ i # Root /\ i # Absent /\ n \in AllNames /\ n # DotDot
      /\ d \in Folders(v) /\ d # i
  <2>1. i \in Inos /\ i # Absent /\ n \in AllNames /\ n # DotDot
    BY TreeTypes, Numbers
  <2>2. i # Root /\ d \in Folders(v)
    BY <2>1 DEF Tree
  <2> QED
    BY <2>1, <2>2
<1>2. \A e \in Inos, m \in AllNames :
        w.ents[e][m] = IF (e = d /\ m = n) \/ e = i THEN Absent ELSE v.ents[e][m]
  BY <1>1, TreeTypes DEF NoEnts
<1>3. Folders(w) = Folders(v) \ {i}
  BY DEF Folders
<1>4. \A e \in Inos, m \in Names : v.ents[e][m] = i => e = d /\ m = n
  BY <1>1 DEF Tree
<1>5. \A e \in Folders(v) : e # i => v.ents[e][DotDot] # i
  <2> SUFFICES ASSUME NEW e \in Folders(v), e # i, v.ents[e][DotDot] = i PROVE FALSE
    OBVIOUS
  <2>1. e # Root
    BY <1>1 DEF Tree
  <2>2. PICK m \in Names : v.ents[v.ents[e][DotDot]][m] = e
    BY <2>1 DEF Tree
  <2> QED
    BY <2>2, TreeTypes
<1>6. \A e \in Inos : e # i => w.ents[e][DotDot] = v.ents[e][DotDot]
  BY <1>1, <1>2, Numbers
<1>7. Tree(w)
  <2>1. Root \in Folders(w) /\ w.ents[Root][DotDot] = Root
    BY <1>1, <1>3, <1>6, Numbers DEF Tree
  <2>2. \A e \in Inos, m \in AllNames : w.ents[e][m] # Absent => e \in Folders(w)
    BY <1>2, <1>3 DEF Tree
  <2>3. \A e \in Inos, m \in Names : w.ents[e][m] # Absent => w.ents[e][m] \in w.used \ {Root}
    BY <1>1, <1>2, <1>4, Numbers DEF Tree
  <2>4. \A e \in Folders(w) : w.ents[e][DotDot] \in Folders(w)
    BY <1>3, <1>5, <1>6, TreeTypes
  <2>5. \A e \in Inos, m \in Names :
          w.ents[e][m] \in Folders(w) =>
              /\ w.ents[w.ents[e][m]][DotDot] = e
              /\ \A l \in Names : w.ents[e][l] = w.ents[e][m] => l = m
    <3> SUFFICES ASSUME NEW e \in Inos, NEW m \in Names, w.ents[e][m] \in Folders(w)
                 PROVE  /\ w.ents[w.ents[e][m]][DotDot] = e
                        /\ \A l \in Names : w.ents[e][l] = w.ents[e][m] => l = m
      OBVIOUS
    <3>1. /\ w.ents[e][m] \in Folders(v) /\ w.ents[e][m] # i /\ w.ents[e][m] # Absent
          /\ w.ents[e][m] \in Inos
      BY <1>3, TreeTypes
    <3>2. \A l \in Names : w.ents[e][l] # Absent => w.ents[e][l] = v.ents[e][l]
      BY <1>2, Numbers
    <3>3. w.ents[e][m] = v.ents[e][m]
      BY <3>1, <3>2
    <3> QED
      BY <1>6, <3>1, <3>2, <3>3 DEF Tree
  <2>6. \A e \in Folders(w) \ {Root} : \E m \in Names : w.ents[w.ents[e][DotDot]][m] = e
    <3> SUFFICES ASSUME NEW e \in Folders(v) \ {Root}, e # i
                 PROVE  \E m \in Names : w.ents[w.ents[e][DotDot]][m] = e
      BY <1>3
    <3>1. PICK m \in Names : v.ents[v.ents[e][DotDot]][m] = e
      BY DEF Tree
    <3>2. e \in Inos /\ v.ents[e][DotDot] \in Inos /\ v.ents[e][DotDot] # i
      BY <1>5, TreeTypes
    <3>4. ~(v.ents[e][DotDot] = d /\ m = n) /\ m \in AllNames
      BY <3>1, Numbers
    <3>3. w.ents[v.ents[e][DotDot]][m] = e
      BY <1>2, <3>1, <3>2, <3>4
    <3> QED
      BY <1>6, <3>2, <3>3
  <2> QED
    BY <2>1, <2>2, <2>3, <2>4, <2>5, <2>6 DEF Tree
<1>8. \A e \in Folders(w) : w.links[e] = 2 + Cardinality(Kids(w, e))
  <2>1. Kids(w, d) = Kids(v, d) \ {n} /\ n \in Kids(v, d)
    BY <1>1, <1>2, <1>3, <1>4, TreeTypes, Numbers DEF Kids
  <2>2. Cardinality(Kids(w, d)) = Cardinality(Kids(v, d)) - 1
    <3>1. PICK S : S = Kids(v, d)
      OBVIOUS
    <3>2. IsFiniteSet(S) /\ n \in S
      BY <2>1, <3>1, Countable
    <3>3. Cardinality(S \ {n}) = Cardinality(S) - 1
      BY <3>2, FS_RemoveElement
    <3> QED
      BY <2>1, <3>1, <3>3
  <2>3. /\ Cardinality(Kids(v, d)) \in Nat /\ Cardinality(Kids(w, d)) \in Nat
        /\ v.links[d] = 2 + Cardinality(Kids(v, d))
    BY <1>1, Countable DEF Links
  <2>4. w.links[d] = Less(v.links[d])
    BY <1>1, TreeTypes
  <2>5. w.links[d] = 2 + Cardinality(Kids(w, d))
    BY <2>2, <2>3, <2>4 DEF Less
  <2>6. ASSUME NEW e \in Folders(v), e # d, e # i PROVE w.links[e] = 2 + Cardinality(Kids(w, e))
    <3>1. e \in Inos
      BY TreeTypes
    <3>2. \A m \in Names : w.ents[e][m] = v.ents[e][m] /\ v.ents[e][m] # i
      BY <1>2, <1>4, <2>6, <3>1, Numbers
    <3>3. Kids(w, e) = Kids(v, e)
      BY <1>3, <3>2 DEF Kids
    <3>4. w.links[e] = v.links[e]
      BY <2>6, <3>1, TreeTypes
    <3> QED
      BY <3>3, <3>4 DEF Links
  <2> QED
    BY <1>3, <2>5, <2>6
<1>9. \A j \in w.used \ Folders(w) : w.links[j] = Cardinality(Named(w, j))
  <2> SUFFICES ASSUME NEW j \in v.used \ Folders(v), j # i
               PROVE  w.links[j] = Cardinality(Named(w, j))
    BY <1>3
  <2>1. j \in Inos /\ j # Absent /\ j # d
    BY <1>1, TreeTypes
  <2>2. \A e \in Inos, m \in Names : w.ents[e][m] = j <=> v.ents[e][m] = j
    BY <1>1, <1>2, <2>1, Numbers
  <2>3. Named(w, j) = Named(v, j)
    BY <2>2 DEF Named
  <2>4. w.links[j] = v.links[j]
    BY <2>1, TreeTypes
  <2> QED
    BY <2>3, <2>4 DEF Links
<1>10. \A j \in w.orphans : j \in w.used \ Folders(w) /\ w.links[j] = 0
  <2>1. \A j \in v.orphans : j \in v.used \ Folders(v) /\ v.links[j] = 0 /\ j \in Inos
    BY TreeTypes DEF Links
  <2>2. \A j \in v.orphans : j # i /\ j # d
    BY <1>1, <2>1
  <2> QED
    BY <1>1, <1>3, <2>1, <2>2, TreeTypes
<1> QED
  BY <1>7, <1>8, <1>9, <1>10 DEF Links

\* A name is moved and stays in the directory its inode hangs from, or is a
\* file's.
LEMMA NameMoved ==
  ASSUME NEW v \in Volumes, NEW w \in Volumes, Tree(v), Links(v),
         NEW sd \in Folders(v), NEW sn \in Names, v.ents[sd][sn] # Absent,
         NEW d \in Folders(v), NEW n \in Names, v.ents[d][n] = Absent,
         NEW i, i = v.ents[sd][sn], i \notin Folders(v) \/ sd = d,
         w.used = v.used, w.kind = v.kind, w.links = v.links, w.orphans = v.orphans,
         w.ents = [[v.ents EXCEPT ![d][n] = i] EXCEPT ![sd][sn] = Absent]
  PROVE  Tree(w) /\ Links(w)
<1>1. /\ d \in Inos /\ sd \in Inos /\ i \in Inos /\ i # Absent
      /\ n \in AllNames /\ n # DotDot /\ sn \in AllNames /\ sn # DotDot
  <2>1. /\ d \in Inos /\ sd \in Inos
        /\ n \in AllNames /\ n # DotDot /\ sn \in AllNames /\ sn # DotDot
    BY TreeTypes, Numbers
  <2>2. v.ents[sd][sn] \in Inos \cup {Absent}
    BY <2>1, TreeTypes
  <2> QED
    BY <2>1, <2>2
<1>2. i \in v.used \ {Root} /\ ~(d = sd /\ n = sn)
  BY <1>1 DEF Tree
<1>3. \A e \in Inos, m \in AllNames :
        w.ents[e][m] = IF e = sd /\ m = sn THEN Absent
                       ELSE IF e = d /\ m = n THEN i ELSE v.ents[e][m]
  BY <1>1, TreeTypes
<1>4. Folders(w) = Folders(v)
  BY DEF Folders
<1>5. \A e \in Inos : w.ents[e][DotDot] = v.ents[e][DotDot]
  BY <1>1, <1>3, Numbers
<1>6. \A e \in Inos, m \in Names : w.ents[e][m] # Absent => w.ents[e][m] \in w.used \ {Root}
  BY <1>2, <1>3, Numbers DEF Tree
<1>7. Tree(w) /\ \A e \in Folders(w) : w.links[e] = 2 + Cardinality(Kids(w, e))
  <2>1. CASE i \notin Folders(v)
    <3>1. \A e \in Inos, m \in Names :
            \/ w.ents[e][m] = v.ents[e][m]
            \/ e \in Folders(v) /\ v.ents[e][m] \notin Folders(v) /\ w.ents[e][m] \notin Folders(v)
      <4>1. Absent \notin Folders(v)
        BY TreeTypes
      <4> QED
        BY <1>3, <2>1, <4>1, Numbers
    <3>2. OnlyFilesMove(v, w)
      BY <1>4, <1>5, <1>6, <3>1 DEF OnlyFilesMove
    <3> QED
      BY <3>2, OnlyFiles
  <2>2. CASE i \in Folders(v) /\ sd = d
    <3>0. \A e \in Inos, m \in Names : v.ents[e][m] = i => e = d /\ m = sn
      BY <1>1, <2>2 DEF Tree
    <3>1. Root \in Folders(w) /\ w.ents[Root][DotDot] = Root
      BY <1>4, <1>5, Numbers DEF Tree
    <3>2. \A e \in Inos, m \in AllNames : w.ents[e][m] # Absent => e \in Folders(w)
      BY <1>3, <1>4 DEF Tree
    <3>3. \A e \in Inos, m \in Names :
            w.ents[e][m] \in Folders(w) =>
                /\ w.ents[w.ents[e][m]][DotDot] = e
                /\ \A l \in Names : w.ents[e][l] = w.ents[e][m] => l = m
      <4> SUFFICES ASSUME NEW e \in Inos, NEW m \in Names, w.ents[e][m] \in Folders(v)
                   PROVE  /\ w.ents[w.ents[e][m]][DotDot] = e
                          /\ \A l \in Names : w.ents[e][l] = w.ents[e][m] => l = m
        BY <1>4
      <4>1. w.ents[e][m] \in Inos /\ w.ents[e][m] # Absent
        BY TreeTypes
      <4>2. CASE e = d /\ m = n
        <5>1. w.ents[e][m] = i /\ v.ents[i][DotDot] = d
          BY <1>1, <1>2, <1>3, <2>2, <4>2 DEF Tree
        <5>2. \A l \in Names : w.ents[d][l] = i => l = n
          BY <1>1, <1>2, <1>3, <2>2, <3>0, Numbers
        <5> QED
          BY <1>1, <1>5, <4>2, <5>1, <5>2
      <4>3. CASE ~(e = d /\ m = n)
        <5>1. w.ents[e][m] = v.ents[e][m] /\ w.ents[e][m] # i
          BY <1>3, <2>2, <3>0, <4>1, <4>3, Numbers
        <5>2. \A l \in Names : w.ents[e][l] = w.ents[e][m] => w.ents[e][l] = v.ents[e][l]
          BY <1>3, <4>1, <5>1, Numbers
        <5>3. /\ v.ents[v.ents[e][m]][DotDot] = e
              /\ \A l \in Names : v.ents[e][l] = v.ents[e][m] => l = m
          BY <5>1 DEF Tree
        <5> QED
          BY <1>5, <4>1, <5>1, <5>2, <5>3
      <4> QED
        BY <4>2, <4>3
    <3>4. \A e \in Folders(w) \ {Root} : \E m \in Names : w.ents[w.ents[e][DotDot]][m] = e
      <4> SUFFICES ASSUME NEW e \in Folders(v) \ {Root}
                   PROVE  \E m \in Names : w.ents[w.ents[e][DotDot]][m] = e
        BY <1>4
      <4>1. PICK m \in Names : v.ents[v.ents[e][DotDot]][m] = e
        BY DEF Tree
      <4>2. e \in Inos /\ v.ents[e][DotDot] \in Inos /\ e # Absent /\ m \in AllNames
        BY TreeTypes, Numbers
      <4>3. CASE e = i
        <5>1. v.ents[e][DotDot] = d
          BY <3>0, <4>1, <4>2, <4>3
        <5>2. w.ents[d][n] = e
          BY <1>1, <1>2, <1>3, <2>2, <4>3
        <5> QED
          BY <1>5, <4>2, <5>1, <5>2
      <4>4. CASE e # i
        <5>1. w.ents[v.ents[e][DotDot]][m] = e
          BY <1>3, <2>2, <4>1, <4>2, <4>4
        <5> QED
          BY <1>5, <4>2, <5>1
      <4> QED
        BY <4>3, <4>4
    <3>5. Tree(w)
      BY <1>4, <1>5, <1>6, <3>1, <3>2, <3>3, <3>4, TreeTypes DEF Tree
    <3>6. ASSUME NEW e \in Folders(v) PROVE w.links[e] = 2 + Cardinality(Kids(w, e))
      <4>1. e \in Inos /\ Absent \notin Folders(v)
        BY TreeTypes
      <4>2. CASE e # d
        <5>1. \A m \in Names : w.ents[e][m] = v.ents[e][m]
          BY <1>3, <2>2, <4>1, <4>2, Numbers
        <5>2. Kids(w, e) = Kids(v, e)
          BY <1>4, <5>1 DEF Kids
        <5> QED
          BY <5>2 DEF Links
      <4>3. CASE e = d
        <5>1. Kids(w, e) = (Kids(v, e) \ {sn}) \cup {n} /\ sn \in Kids(v, e) /\ n \notin Kids(v, e)
          BY <1>1, <1>2, <1>3, <1>4, <2>2, <4>1, <4>3, Numbers DEF Kids
        <5>2. Cardinality(Kids(w, e)) = Cardinality(Kids(v, e))
          BY <5>1, Countable, Swapped
        <5> QED
          BY <5>2 DEF Links
      <4> QED
        BY <4>2, <4>3
    <3> QED
      BY <1>4, <3>5, <3>6
  <2> QED
    BY <2>1, <2>2
<1>8. \A j \in w.used \ Folders(w) : w.links[j] = Cardinality(Named(w, j))
  <2> SUFFICES ASSUME NEW j \in v.used \ Folders(v) PROVE w.links[j] = Cardinality(Named(w, j))
    BY <1>4
  <2>1. j \in Inos /\ j # Absent
    BY TreeTypes
  <2>2. CASE j # i
    <3>1. \A e \in Inos, m \in Names : w.ents[e][m] = j <=> v.ents[e][m] = j
      BY <1>1, <1>3, <2>1, <2>2, Numbers
    <3>2. Named(w, j) = Named(v, j)
      BY <3>1 DEF Named
    <3> QED
      BY <3>2 DEF Links
  <2>3. CASE j = i
    <3>1. /\ Named(w, j) = (Named(v, j) \ {<<sd, sn>>}) \cup {<<d, n>>}
          /\ <<sd, sn>> \in Named(v, j) /\ <<d, n>> \notin Named(v, j)
      <4>1. \A e \in Inos, m \in Names :
              w.ents[e][m] = i <=> (e = d /\ m = n) \/ (v.ents[e][m] = i /\ ~(e = sd /\ m = sn))
        BY <1>1, <1>2, <1>3, Numbers
      <4>2. v.ents[sd][sn] = i /\ v.ents[d][n] # i
        BY <1>1
      <4> QED
        BY <1>1, <2>3, <4>1, <4>2 DEF Named
    <3>2. Cardinality(Named(w, j)) = Cardinality(Named(v, j))
      BY <3>1, Countable, Swapped
    <3> QED
      BY <3>2 DEF Links
  <2> QED
    BY <2>2, <2>3
<1>9. \A j \in w.orphans : j \in w.used \ Folders(w) /\ w.links[j] = 0
  BY <1>4 DEF Links
<1> QED
  BY <1>7, <1>8, <1>9 DEF Links

\* A directory is moved to another one.
MovesDir(v, w, sd, sn, d, n, i) ==
    /\ \A e \in Inos, m \in Names :
          w.ents[e][m] = IF e = sd /\ m = sn THEN Absent
                         ELSE IF e = d /\ m = n THEN i ELSE v.ents[e][m]
    /\ \A e \in Inos : w.ents[e][DotDot] = IF e = i THEN d ELSE v.ents[e][DotDot]
    /\ \A e \in Inos : w.links[e] = IF e = d THEN v.links[e] + 1
                                     ELSE IF e = sd THEN Less(v.links[e]) ELSE v.links[e]
    /\ w.used = v.used /\ w.kind = v.kind /\ w.orphans = v.orphans

LEMMA DirMoved ==
  ASSUME NEW v \in Volumes, NEW w \in Volumes, Tree(v), Links(v),
         NEW sd \in Folders(v), NEW sn \in Names, NEW d \in Folders(v), NEW n \in Names,
         v.ents[d][n] = Absent, NEW i \in Folders(v), v.ents[sd][sn] = i, sd # d,
         MovesDir(v, w, sd, sn, d, n, i)
  PROVE  Tree(w) /\ Links(w)
<1>1. /\ d \in Inos /\ sd \in Inos /\ i \in Inos /\ i # Absent
      /\ n \in AllNames /\ n # DotDot /\ sn \in AllNames /\ sn # DotDot /\ DotDot \in AllNames
  BY TreeTypes, Numbers
<1>2. i \in v.used \ {Root} /\ v.ents[i][DotDot] = sd
  BY <1>1 DEF Tree
<1>4. Folders(w) = Folders(v) /\ w.used = v.used
  BY DEF MovesDir, Folders
<1>5. /\ \A e \in Inos : e # i => w.ents[e][DotDot] = v.ents[e][DotDot]
      /\ w.ents[i][DotDot] = d /\ v.ents[i][DotDot] = sd
  BY <1>1, <1>2 DEF MovesDir
<1>6. \A e \in Inos, m \in Names :
        w.ents[e][m] = IF e = sd /\ m = sn THEN Absent
                       ELSE IF e = d /\ m = n THEN i ELSE v.ents[e][m]
  BY DEF MovesDir
<1>12. \A e \in Inos : w.links[e] = IF e = d THEN v.links[e] + 1
                                    ELSE IF e = sd THEN Less(v.links[e]) ELSE v.links[e]
  BY DEF MovesDir
<1>7. \A e \in Inos, m \in Names : v.ents[e][m] = i => e = sd /\ m = sn
  BY <1>1, <1>5 DEF Tree
<1>8. Tree(w)
  <2>1. Root \in Folders(w) /\ w.ents[Root][DotDot] = Root
    BY <1>2, <1>4, <1>5, Numbers DEF Tree
  <2>2. \A e \in Inos, m \in AllNames : w.ents[e][m] # Absent => e \in Folders(w)
    <3>1. \A m \in AllNames : m = DotDot \/ m \in Names
      BY DEF AllNames
    <3>2. \A e \in Inos : w.ents[e][DotDot] # Absent => e \in Folders(w)
      BY <1>1, <1>4, <1>5 DEF Tree
    <3>3. \A e \in Inos, m \in Names : w.ents[e][m] # Absent => e \in Folders(w)
      BY <1>1, <1>4, <1>6, Numbers DEF Tree
    <3> QED
      BY <3>1, <3>2, <3>3
  <2>3. \A e \in Inos, m \in Names : w.ents[e][m] # Absent => w.ents[e][m] \in w.used \ {Root}
    BY <1>2, <1>4, <1>6 DEF Tree
  <2>4. \A e \in Folders(w) : w.ents[e][DotDot] \in Folders(w)
    BY <1>4, <1>5, TreeTypes
  <2>5. \A e \in Inos, m \in Names :
          w.ents[e][m] \in Folders(w) =>
              /\ w.ents[w.ents[e][m]][DotDot] = e
              /\ \A l \in Names : w.ents[e][l] = w.ents[e][m] => l = m
    <3> SUFFICES ASSUME NEW e \in Inos, NEW m \in Names, w.ents[e][m] \in Folders(v)
                 PROVE  /\ w.ents[w.ents[e][m]][DotDot] = e
                        /\ \A l \in Names : w.ents[e][l] = w.ents[e][m] => l = m
      BY <1>4
    <3>1. w.ents[e][m] \in Inos /\ w.ents[e][m] # Absent
      BY TreeTypes
    <3>2. CASE e = d /\ m = n
      <4>1. w.ents[e][m] = i
        BY <1>6, <3>2
      <4>2. \A l \in Names : w.ents[d][l] = i => l = n
        BY <1>1, <1>6, <1>7
      <4> QED
        BY <1>5, <3>2, <4>1, <4>2
    <3>3. CASE ~(e = d /\ m = n)
      <4>1. w.ents[e][m] = v.ents[e][m] /\ w.ents[e][m] # i
        BY <1>6, <1>7, <3>1, <3>3
      <4>2. \A l \in Names : w.ents[e][l] = w.ents[e][m] => w.ents[e][l] = v.ents[e][l]
        BY <1>6, <3>1, <4>1
      <4>3. /\ v.ents[v.ents[e][m]][DotDot] = e
            /\ \A l \in Names : v.ents[e][l] = v.ents[e][m] => l = m
        BY <4>1 DEF Tree
      <4> QED
        BY <1>5, <3>1, <4>1, <4>2, <4>3
    <3> QED
      BY <3>2, <3>3
  <2>6. \A e \in Folders(w) \ {Root} : \E m \in Names : w.ents[w.ents[e][DotDot]][m] = e
    <3> SUFFICES ASSUME NEW e \in Folders(v) \ {Root}
                 PROVE  \E m \in Names : w.ents[w.ents[e][DotDot]][m] = e
      BY <1>4
    <3>1. CASE e = i
      <4>1. w.ents[d][n] = e
        BY <1>1, <1>6, <3>1
      <4> QED
        BY <1>5, <3>1, <4>1
    <3>2. CASE e # i
      <4>1. PICK m \in Names : v.ents[v.ents[e][DotDot]][m] = e
        BY DEF Tree
      <4>2. e \in Inos /\ v.ents[e][DotDot] \in Inos /\ e # Absent
        BY TreeTypes
      <4>3. w.ents[v.ents[e][DotDot]][m] = e
        BY <1>6, <3>2, <4>1, <4>2
      <4> QED
        BY <1>5, <3>2, <4>2, <4>3
    <3> QED
      BY <3>1, <3>2
  <2> QED
    BY <2>1, <2>2, <2>3, <2>4, <2>5, <2>6 DEF Tree
<1>9. \A e \in Folders(w) : w.links[e] = 2 + Cardinality(Kids(w, e))
  <2>1. Absent \notin Folders(v)
    BY TreeTypes
  <2>2. Kids(w, d) = Kids(v, d) \cup {n} /\ n \notin Kids(v, d)
    BY <1>1, <1>4, <1>6, <2>1 DEF Kids
  <2>3. Kids(w, sd) = Kids(v, sd) \ {sn} /\ sn \in Kids(v, sd)
    BY <1>1, <1>4, <1>6, <2>1 DEF Kids
  <2>4. Cardinality(Kids(w, d)) = Cardinality(Kids(v, d)) + 1
    BY <2>2, Countable, FS_AddElement
  <2>5. Cardinality(Kids(w, sd)) = Cardinality(Kids(v, sd)) - 1
    <3>1. PICK S : S = Kids(v, sd)
      OBVIOUS
    <3>2. IsFiniteSet(S) /\ sn \in S
      BY <2>3, <3>1, Countable
    <3>3. Cardinality(S \ {sn}) = Cardinality(S) - 1
      BY <3>2, FS_RemoveElement
    <3> QED
      BY <2>3, <3>1, <3>3
  <2>6. /\ v.links[d] = 2 + Cardinality(Kids(v, d)) /\ Cardinality(Kids(v, d)) \in Nat
        /\ v.links[sd] = 2 + Cardinality(Kids(v, sd)) /\ Cardinality(Kids(v, sd)) \in Nat
        /\ Cardinality(Kids(w, sd)) \in Nat
    BY Countable DEF Links
  <2>7. w.links[d] = v.links[d] + 1 /\ w.links[sd] = Less(v.links[sd])
    BY <1>1, <1>12
  <2>8. w.links[d] = 2 + Cardinality(Kids(w, d))
    BY <2>4, <2>6, <2>7
  <2>9. w.links[sd] = 2 + Cardinality(Kids(w, sd))
    BY <2>5, <2>6, <2>7 DEF Less
  <2>10. ASSUME NEW e \in Folders(v), e # d, e # sd PROVE w.links[e] = 2 + Cardinality(Kids(w, e))
    <3>1. e \in Inos
      BY TreeTypes
    <3>2. \A m \in Names : w.ents[e][m] = v.ents[e][m]
      BY <1>6, <2>10, <3>1
    <3>3. Kids(w, e) = Kids(v, e)
      BY <1>4, <3>2 DEF Kids
    <3>4. w.links[e] = v.links[e]
      BY <1>12, <2>10, <3>1
    <3> QED
      BY <3>3, <3>4 DEF Links
  <2> QED
    BY <1>4, <2>8, <2>9, <2>10
<1>10. \A j \in w.used \ Folders(w) : w.links[j] = Cardinality(Named(w, j))
  <2> SUFFICES ASSUME NEW j \in v.used \ Folders(v)
               PROVE  w.links[j] = Cardinality(Named(w, j))
    BY <1>4
  <2>1. j \in Inos /\ j # Absent /\ j # d /\ j # sd /\ j # i
    BY TreeTypes
  <2>2. \A e \in Inos, m \in Names : w.ents[e][m] = j <=> v.ents[e][m] = j
    BY <1>6, <2>1
  <2>3. Named(w, j) = Named(v, j)
    BY <2>2 DEF Named
  <2>4. w.links[j] = v.links[j]
    BY <1>12, <2>1
  <2> QED
    BY <2>3, <2>4 DEF Links
<1>11. \A j \in w.orphans : j \in w.used \ Folders(w) /\ w.links[j] = 0
  <2>1. \A j \in v.orphans : j \in v.used \ Folders(v) /\ v.links[j] = 0 /\ j \in Inos
    BY TreeTypes DEF Links
  <2>2. \A j \in v.orphans : j # sd /\ j # d
    BY <1>1, <2>1
  <2> QED
    BY <1>4, <1>12, <2>1, <2>2 DEF MovesDir
<1> QED
  BY <1>8, <1>9, <1>10, <1>11 DEF Links

-----------------------------------------------------------------------------
(* Sums over inodes: the blocks of those in use.                           *)

Pick(s) == CHOOSE x \in s : TRUE

\* f sums up b over the subsets of S of at most m elements.
SumsTo(f, b, S, m) ==
    f = [s \in SUBSET S |-> IF s = {} \/ Cardinality(s) > m THEN 0 ELSE b[Pick(s)] + f[s \ {Pick(s)}]]
Sums(f, b, S) ==
    f = [s \in SUBSET S |-> IF s = {} THEN 0 ELSE b[Pick(s)] + f[s \ {Pick(s)}]]

\* One element less.
LEMMA Without ==
  ASSUME NEW s, IsFiniteSet(s), NEW x \in s
  PROVE  /\ IsFiniteSet(s \ {x}) /\ Cardinality(s \ {x}) \in Nat /\ Cardinality(s) \in Nat
         /\ Cardinality(s) = Cardinality(s \ {x}) + 1
<1>1. PICK t : t = s \ {x}
  OBVIOUS
<1>2. IsFiniteSet(t) /\ Cardinality(t) = Cardinality(s) - 1
  BY <1>1, FS_RemoveElement
<1>3. Cardinality(t) \in Nat /\ Cardinality(s) \in Nat
  BY <1>2, FS_CardinalityType
<1> QED
  BY <1>1, <1>2, <1>3

LEMMA Picked ==
  ASSUME NEW s, s # {}
  PROVE  Pick(s) \in s
BY DEF Pick

LEMMA SomeSumTo ==
  ASSUME NEW S, IsFiniteSet(S), NEW b, NEW m \in Nat
  PROVE  \E f : SumsTo(f, b, S, m)
<1> DEFINE T == {k \in Nat : ~\E f : SumsTo(f, b, S, k)}
<1>0. \A s \in SUBSET S : IsFiniteSet(s) /\ Cardinality(s) \in Nat /\ (Cardinality(s) = 0 <=> s = {})
  BY FS_Subset, FS_CardinalityType, FS_EmptySet
<1>1. ASSUME NEW k \in T, \A j \in T : k <= j
      PROVE  FALSE
  <2>1. CASE k = 0
    <3>1. PICK f : f = [s \in SUBSET S |-> 0]
      OBVIOUS
    <3>2. f = [s \in SUBSET S |-> IF s = {} \/ Cardinality(s) > 0 THEN 0
                                  ELSE b[Pick(s)] + f[s \ {Pick(s)}]]
      BY <1>0, <3>1
    <3> QED
      BY <2>1, <3>2 DEF SumsTo
  <2>2. CASE k # 0
    <3>1. k \in Nat /\ k - 1 \in Nat /\ k - 1 \notin T
      BY <1>1, <2>2
    <3>2. PICK f : SumsTo(f, b, S, k - 1)
      BY <3>1
    <3>3. PICK g : g = [s \in SUBSET S |-> IF Cardinality(s) < k THEN f[s]
                                           ELSE IF Cardinality(s) = k
                                                THEN b[Pick(s)] + f[s \ {Pick(s)}] ELSE 0]
      OBVIOUS
    <3>5. \A s \in SUBSET S : f[s] = IF s = {} \/ Cardinality(s) > k - 1 THEN 0
                                     ELSE b[Pick(s)] + f[s \ {Pick(s)}]
      BY <3>2, Zenon DEF SumsTo
    <3>6. \A s \in SUBSET S : g[s] = IF Cardinality(s) < k THEN f[s]
                                           ELSE IF Cardinality(s) = k
                                                THEN b[Pick(s)] + f[s \ {Pick(s)}] ELSE 0
      BY <3>3, Zenon
    <3>4. \A s \in SUBSET S : g[s] = IF s = {} \/ Cardinality(s) > k THEN 0
                                     ELSE b[Pick(s)] + g[s \ {Pick(s)}]
      <4> SUFFICES ASSUME NEW s \in SUBSET S
                   PROVE  g[s] = IF s = {} \/ Cardinality(s) > k THEN 0
                                 ELSE b[Pick(s)] + g[s \ {Pick(s)}]
        OBVIOUS
      <4>1. CASE s = {}
        <5>1. Cardinality(s) < k
          BY <1>0, <3>1, <2>2, <4>1
        <5> QED
          BY <3>5, <3>6, <4>1, <5>1
      <4>2. CASE s # {}
        <5>1. PICK t \in SUBSET S : t = s \ {Pick(s)}
          BY Picked
        <5>2. Cardinality(t) \in Nat /\ Cardinality(s) \in Nat /\ Cardinality(s) = Cardinality(t) + 1
          BY <1>0, <4>2, <5>1, Picked, Without
        <5>3. CASE Cardinality(s) > k
          <6>1. ~(Cardinality(s) < k) /\ Cardinality(s) # k
            BY <3>1, <5>2, <5>3
          <6>2. g[s] = 0
            BY <3>6, <6>1
          <6> QED
            BY <5>3, <6>2
        <5>4. CASE Cardinality(s) <= k
          <6>1. /\ ~(Cardinality(s) > k) /\ Cardinality(t) < k
                /\ Cardinality(s) < k => ~(Cardinality(s) > k - 1)
                /\ Cardinality(s) < k \/ Cardinality(s) = k
            BY <3>1, <5>2, <5>4
          <6>2. g[t] = f[t]
            BY <3>6, <6>1
          <6>3. g[s] = b[Pick(s)] + f[t]
            <7>1. CASE Cardinality(s) < k
              <8>1. g[s] = f[s]
                BY <3>6, <7>1
              <8>2. f[s] = b[Pick(s)] + f[t]
                BY <3>5, <4>2, <5>1, <6>1, <7>1
              <8> QED
                BY <8>1, <8>2
            <7>2. CASE Cardinality(s) = k
              <8>1. ~(Cardinality(s) < k)
                BY <3>1, <7>2
              <8> QED
                BY <3>6, <5>1, <7>2, <8>1
            <7> QED
              BY <6>1, <7>1, <7>2
          <6> QED
            BY <4>2, <5>1, <6>1, <6>2, <6>3
        <5> QED
          BY <3>1, <5>2, <5>3, <5>4
      <4> QED
        BY <4>1, <4>2
    <3>7. SumsTo(g, b, S, k)
      BY <3>3, <3>4 DEF SumsTo
    <3> QED
      BY <3>7
  <2> QED
    BY <2>1, <2>2
<1>2. T = {}
  <2>1. T \subseteq Nat
    OBVIOUS
  <2>2. T # {} => Min(T) \in T /\ \A j \in T : Min(T) <= j
    BY <2>1, LeastNumber
  <2> QED
    BY <1>1, <2>2
<1> QED
  BY <1>2

LEMMA SomeSum ==
  ASSUME NEW S, IsFiniteSet(S), NEW b
  PROVE  \E f : Sums(f, b, S)
<1>1. Cardinality(S) \in Nat
  BY FS_CardinalityType
<1>2. PICK f : SumsTo(f, b, S, Cardinality(S))
  BY <1>1, SomeSumTo
<1>3. \A s \in SUBSET S : ~(Cardinality(s) > Cardinality(S))
  <2> SUFFICES ASSUME NEW s \in SUBSET S PROVE ~(Cardinality(s) > Cardinality(S))
    OBVIOUS
  <2>1. Cardinality(s) \in Nat /\ Cardinality(s) <= Cardinality(S)
    BY FS_Subset, FS_CardinalityType
  <2> QED
    BY <1>1, <2>1
<1>4. f = [s \in SUBSET S |-> IF s = {} THEN 0 ELSE b[Pick(s)] + f[s \ {Pick(s)}]]
  BY <1>2, <1>3, Zenon DEF SumsTo
<1> QED
  BY <1>4 DEF Sums

LEMMA TotalIs ==
  ASSUME NEW S, IsFiniteSet(S), NEW b
  PROVE  \E f : Sums(f, b, S) /\ Total(b, S) = f[S]
<1>1. \E f : Sums(f, b, S)
  BY SomeSum
<1>2. \E f : f = [s \in SUBSET S |-> IF s = {} THEN 0
                                     ELSE b[CHOOSE x \in s : TRUE] + f[s \ {CHOOSE x \in s : TRUE}]]
  BY <1>1, Zenon DEF Sums, Pick
<1> QED
  BY <1>2 DEF Total, MapThenSumSet, MapThenFoldSet, Sums, Pick

\* What f sums up, one element after the other.
LEMMA SumsIs ==
  ASSUME NEW S, NEW b, NEW f, Sums(f, b, S), NEW s \in SUBSET S
  PROVE  f[s] = IF s = {} THEN 0 ELSE b[Pick(s)] + f[s \ {Pick(s)}]
<1>1. \A t \in SUBSET S : f[t] = IF t = {} THEN 0 ELSE b[Pick(t)] + f[t \ {Pick(t)}]
  BY Zenon DEF Sums
<1> QED
  BY <1>1

\* Sums are the same where the elements are.
LEMMA SumsAgree ==
  ASSUME NEW S, NEW R, IsFiniteSet(S), NEW b, NEW e, NEW f, NEW g, Sums(f, b, S), Sums(g, e, R),
         NEW r, r \subseteq S, r \subseteq R, \A x \in r : b[x] = e[x]
  PROVE  f[r] = g[r]
<1> DEFINE T == {k \in Nat : \E s \in SUBSET r : Cardinality(s) = k /\ f[s] # g[s]}
<1>0. \A s \in SUBSET r : IsFiniteSet(s) /\ Cardinality(s) \in Nat /\ s \in SUBSET S /\ s \in SUBSET R
  BY FS_Subset, FS_CardinalityType
<1>1. ASSUME NEW k \in T, \A j \in T : k <= j
      PROVE  FALSE
  <2>1. PICK s \in SUBSET r : Cardinality(s) = k /\ f[s] # g[s]
    BY <1>1
  <2>2. f[s] = IF s = {} THEN 0 ELSE b[Pick(s)] + f[s \ {Pick(s)}]
    BY <1>0, SumsIs
  <2>3. g[s] = IF s = {} THEN 0 ELSE e[Pick(s)] + g[s \ {Pick(s)}]
    BY <1>0, SumsIs
  <2>4. s # {}
    BY <2>1, <2>2, <2>3
  <2>5. Pick(s) \in s
    BY <2>4, Picked
  <2>6. PICK t \in SUBSET r : t = s \ {Pick(s)}
    OBVIOUS
  <2>7. Cardinality(t) \in Nat /\ k = Cardinality(t) + 1
    BY <1>0, <2>1, <2>5, <2>6, Without
  <2>8. ~(k <= Cardinality(t))
    BY <2>7
  <2>9. f[t] = g[t]
    BY <1>1, <2>7, <2>8
  <2> QED
    BY <2>1, <2>2, <2>3, <2>4, <2>5, <2>6, <2>9
<1>2. T = {}
  <2>1. T \subseteq Nat
    OBVIOUS
  <2>2. T # {} => Min(T) \in T /\ \A j \in T : Min(T) <= j
    BY <2>1, LeastNumber
  <2> QED
    BY <1>1, <2>2
<1> QED
  BY <1>0, <1>2

\* Any element may be taken first.
LEMMA SumsAny ==
  ASSUME NEW S, IsFiniteSet(S), NEW b, \A x \in S : b[x] \in Nat, NEW f, Sums(f, b, S)
  PROVE  \A s \in SUBSET S : f[s] \in Nat /\ \A x \in s : f[s] = b[x] + f[s \ {x}]
<1> DEFINE P(s) == f[s] \in Nat /\ \A x \in s : f[s] = b[x] + f[s \ {x}]
<1> DEFINE T == {k \in Nat : \E s \in SUBSET S : Cardinality(s) = k /\ ~P(s)}
<1>0. \A s \in SUBSET S : IsFiniteSet(s) /\ Cardinality(s) \in Nat
  BY FS_Subset, FS_CardinalityType
<1>1. ASSUME NEW k \in T, \A j \in T : k <= j
      PROVE  FALSE
  <2>1. PICK s \in SUBSET S : Cardinality(s) = k /\ ~P(s)
    BY <1>1
  <2>10. \A t \in SUBSET S : Cardinality(t) < k => P(t)
    <3>1. \A t \in SUBSET S : Cardinality(t) < k => ~(k <= Cardinality(t))
      BY <1>0
    <3> QED
      BY <1>0, <1>1, <3>1
  <2>2. ASSUME NEW t \in SUBSET S, NEW x \in s, t = s \ {x}
        PROVE  P(t) /\ Cardinality(t) \in Nat /\ k = Cardinality(t) + 1
    <3>1. Cardinality(t) \in Nat /\ k = Cardinality(t) + 1
      BY <1>0, <2>1, <2>2, Without
    <3>2. ~(k <= Cardinality(t))
      BY <3>1
    <3> QED
      BY <1>1, <3>1, <3>2
  <2>3. f[s] = IF s = {} THEN 0 ELSE b[Pick(s)] + f[s \ {Pick(s)}]
    BY SumsIs
  <2>4. s # {}
    BY <2>1, <2>3
  <2>5. PICK c \in s : c = Pick(s)
    BY <2>4, Picked
  <2>6. PICK t \in SUBSET S : t = s \ {c}
    OBVIOUS
  <2>7. f[s] = b[c] + f[t] /\ P(t) /\ b[c] \in Nat
    BY <2>2, <2>3, <2>4, <2>5, <2>6
  <2>8. f[s] \in Nat
    BY <2>7
  <2>9. ASSUME NEW x \in s, x # c
        PROVE  f[s] = b[x] + f[s \ {x}]
    <3>1. PICK u \in SUBSET S : u = s \ {x}
      OBVIOUS
    <3>2. PICK z \in SUBSET S : z = u \ {c}
      OBVIOUS
    <3>3. z = t \ {x} /\ x \in t /\ c \in u
      BY <2>6, <2>9, <3>1, <3>2
    <3>4. P(u)
      BY <2>2, <3>1
    <3>5. f[u] = b[c] + f[z]
      BY <3>2, <3>3, <3>4
    <3>6. f[t] = b[x] + f[z]
      BY <2>7, <3>3
    <3>7. f[z] \in Nat
      <4>1. Cardinality(u) \in Nat /\ k = Cardinality(u) + 1
        BY <2>2, <3>1
      <4>2. Cardinality(z) \in Nat /\ Cardinality(u) = Cardinality(z) + 1
        BY <1>0, <3>2, <3>3, Without
      <4>3. Cardinality(z) < k
        BY <4>1, <4>2
      <4> QED
        BY <2>10, <4>3
    <3>8. b[x] \in Nat
      OBVIOUS
    <3> QED
      BY <2>7, <3>1, <3>5, <3>6, <3>7, <3>8
  <2> QED
    BY <2>1, <2>5, <2>6, <2>7, <2>8, <2>9
<1>2. T = {}
  <2>1. T \subseteq Nat
    OBVIOUS
  <2>2. T # {} => Min(T) \in T /\ \A j \in T : Min(T) <= j
    BY <2>1, LeastNumber
  <2> QED
    BY <1>1, <2>2
<1> QED
  BY <1>0, <1>2

\* The sum over inodes: nothing for none, and any of them may be counted first.
LEMMA TotalSame ==
  ASSUME NEW S \in SUBSET Inos, NEW b, NEW e, \A x \in S : b[x] = e[x]
  PROVE  Total(b, S) = Total(e, S)
<1>1. IsFiniteSet(S)
  BY Numbers, FS_Subset
<1>2. PICK f : Sums(f, b, S) /\ Total(b, S) = f[S]
  BY <1>1, TotalIs
<1>3. PICK g : Sums(g, e, S) /\ Total(e, S) = g[S]
  BY <1>1, TotalIs
<1>4. f[S] = g[S]
  BY <1>1, <1>2, <1>3, SumsAgree
<1> QED
  BY <1>2, <1>3, <1>4

LEMMA TotalMore ==
  ASSUME NEW S \in SUBSET Inos, NEW b \in [Inos -> Nat]
  PROVE  /\ Total(b, S) \in Nat
         /\ \A x \in S : Total(b, S) = b[x] + Total(b, S \ {x})
<1>1. IsFiniteSet(S) /\ \A x \in S : b[x] \in Nat
  BY Numbers, FS_Subset
<1>2. PICK f : Sums(f, b, S) /\ Total(b, S) = f[S]
  BY <1>1, TotalIs
<1>3. f[S] \in Nat /\ \A x \in S : f[S] = b[x] + f[S \ {x}]
  <2>1. S \in SUBSET S
    OBVIOUS
  <2> QED
    BY <1>1, <1>2, <2>1, SumsAny
<1>4. ASSUME NEW x \in S
      PROVE  Total(b, S \ {x}) = f[S \ {x}]
  <2>1. PICK R \in SUBSET S : R = S \ {x}
    OBVIOUS
  <2>2. IsFiniteSet(R)
    BY <1>1, FS_Subset
  <2>3. PICK g : Sums(g, b, R) /\ Total(b, R) = g[R]
    BY <2>2, TotalIs
  <2>4. f[R] = g[R]
    BY <1>1, <1>2, <2>3, SumsAgree
  <2> QED
    BY <2>1, <2>3, <2>4
<1> QED
  BY <1>2, <1>3, <1>4

\* One inode.
LEMMA TotalOne ==
  ASSUME NEW b, NEW x \in Inos, b[x] \in Nat
  PROVE  Total(b, {x}) = b[x]
<1>1. IsFiniteSet({x})
  BY FS_Singleton
<1>2. PICK f : Sums(f, b, {x}) /\ Total(b, {x}) = f[{x}]
  BY <1>1, TotalIs
<1>3. PICK Y : Y = {x}
  OBVIOUS
<1>4. Y \in SUBSET Y /\ {} \in SUBSET Y /\ Y # {} /\ x \in Y /\ Y = {x}
  BY <1>3
<1>5. Pick(Y) = x
  BY <1>4, Picked
<1>6. Sums(f, b, Y)
  BY <1>2, <1>3
<1>11. f[Y] = IF Y = {} THEN 0 ELSE b[Pick(Y)] + f[Y \ {Pick(Y)}]
  <2>1. Y \in SUBSET Y
    OBVIOUS
  <2> QED
    BY <1>6, <2>1, SumsIs
<1>7. f[Y] = b[Pick(Y)] + f[Y \ {Pick(Y)}]
  BY <1>4, <1>11
<1>8. f[{}] = 0
  BY <1>4, <1>6, SumsIs
<1>9. Y \ {Pick(Y)} = {}
  BY <1>3, <1>5
<1>10. f[Y] = b[x] + 0
  BY <1>5, <1>7, <1>8, <1>9
<1> QED
  BY <1>2, <1>3, <1>10

-----------------------------------------------------------------------------
(* What the blocks and the files without names come to.                    *)

\* The blocks stay where they are.
SamePaid(v, w) == w.used = v.used /\ w.blocks = v.blocks /\ w.free = v.free

LEMMA PaidSame ==
  ASSUME NEW v, NEW w, Paid(v), SamePaid(v, w)
  PROVE  Paid(w)
BY DEF Paid, SamePaid

\* An inode in use gets one of the free blocks.
MorePaid(v, w, i) ==
    w.used = v.used /\ w.blocks = [v.blocks EXCEPT ![i] = @ + 1] /\ w.free = v.free - 1

LEMMA PaidMore ==
  ASSUME NEW v \in Volumes, NEW w \in Volumes, Paid(v), NEW i \in v.used, MorePaid(v, w, i)
  PROVE  Paid(w)
<1>1. PICK S \in SUBSET Inos : S = v.used /\ S = w.used
  BY DEF MorePaid, Volumes
<1>2. PICK b \in [Inos -> Nat] : b = v.blocks
  BY DEF Volumes
<1>3. PICK e \in [Inos -> Nat] : e = w.blocks
  BY DEF Volumes
<1>4. PICK R \in SUBSET Inos : R = S \ {i}
  OBVIOUS
<1>5. i \in S /\ i \in Inos /\ v.free \in Nat /\ w.free = v.free - 1
  BY <1>1 DEF MorePaid, Volumes
<1>6. e[i] = b[i] + 1 /\ \A x \in R : e[x] = b[x]
  BY <1>2, <1>3, <1>4, <1>5 DEF MorePaid
<1>7. Total(b, S) = b[i] + Total(b, R) /\ Total(e, S) = e[i] + Total(e, R)
  BY <1>4, <1>5, TotalMore
<1>8. Total(e, R) = Total(b, R)
  BY <1>6, TotalSame
<1>9. Total(b, R) \in Nat /\ b[i] \in Nat
  BY <1>5, TotalMore
<1> QED
  BY <1>1, <1>2, <1>3, <1>5, <1>6, <1>7, <1>8, <1>9, Ext2Assumption DEF Paid

\* Those of an inode in use are given back, and the inode perhaps with them.
LessPaid(v, w, i) ==
    /\ w.used = v.used \/ w.used = v.used \ {i}
    /\ w.blocks = [v.blocks EXCEPT ![i] = 0] /\ w.free = v.free + v.blocks[i]

LEMMA PaidLess ==
  ASSUME NEW v \in Volumes, NEW w \in Volumes, Paid(v), NEW i \in v.used, LessPaid(v, w, i)
  PROVE  Paid(w)
<1>1. PICK S \in SUBSET Inos : S = v.used
  BY DEF Volumes
<1>2. PICK b \in [Inos -> Nat] : b = v.blocks
  BY DEF Volumes
<1>3. PICK e \in [Inos -> Nat] : e = w.blocks
  BY DEF Volumes
<1>4. PICK R \in SUBSET Inos : R = S \ {i}
  OBVIOUS
<1>5. i \in S /\ i \in Inos /\ v.free \in Nat /\ w.free = v.free + b[i]
  BY <1>1, <1>2 DEF LessPaid, Volumes
<1>6. e[i] = 0 /\ \A x \in R : e[x] = b[x]
  BY <1>2, <1>3, <1>4, <1>5 DEF LessPaid
<1>7. Total(b, S) = b[i] + Total(b, R) /\ Total(e, S) = e[i] + Total(e, R)
  BY <1>4, <1>5, TotalMore
<1>8. Total(e, R) = Total(b, R)
  BY <1>6, TotalSame
<1>9. Total(b, R) \in Nat /\ b[i] \in Nat
  BY <1>5, TotalMore
<1>10. Total(e, w.used) = Total(b, R)
  <2>1. CASE w.used = S
    BY <1>6, <1>7, <1>8, <1>9, <2>1
  <2>2. CASE w.used = R
    BY <1>8, <2>2
  <2> QED
    BY <1>1, <1>4, <2>1, <2>2 DEF LessPaid
<1>11. Paid(v) <=> v.free + (b[i] + Total(b, R)) = MaxBlocks
  BY <1>1, <1>2, <1>7 DEF Paid
<1>12. Paid(w) <=> v.free + b[i] + Total(b, R) = MaxBlocks
  BY <1>3, <1>5, <1>10 DEF Paid
<1> QED
  BY <1>5, <1>9, <1>11, <1>12, Ext2Assumption

\* A new inode has none.
NewPaid(v, w, i) ==
    w.used = v.used \cup {i} /\ w.blocks = [v.blocks EXCEPT ![i] = 0] /\ w.free = v.free

LEMMA PaidNew ==
  ASSUME NEW v \in Volumes, NEW w \in Volumes, Paid(v), NEW i \in Inos \ v.used, NewPaid(v, w, i)
  PROVE  Paid(w)
<1>1. PICK S \in SUBSET Inos : S = w.used
  BY DEF Volumes
<1>2. PICK b \in [Inos -> Nat] : b = v.blocks
  BY DEF Volumes
<1>3. PICK e \in [Inos -> Nat] : e = w.blocks
  BY DEF Volumes
<1>4. PICK R \in SUBSET Inos : R = S \ {i} /\ R = v.used
  BY <1>1 DEF NewPaid, Volumes
<1>5. i \in S
  BY <1>1 DEF NewPaid
<1>6. e[i] = 0 /\ \A x \in R : e[x] = b[x]
  BY <1>2, <1>3, <1>4 DEF NewPaid
<1>7. Total(e, S) = e[i] + Total(e, R)
  BY <1>4, <1>5, TotalMore
<1>8. Total(e, R) = Total(b, R)
  BY <1>6, TotalSame
<1>9. Total(b, R) \in Nat
  BY TotalMore
<1>10. Total(e, S) = Total(b, R)
  BY <1>6, <1>7, <1>8, <1>9
<1>11. w.free = v.free
  BY DEF NewPaid
<1> QED
  BY <1>1, <1>2, <1>3, <1>4, <1>10, <1>11 DEF Paid

\* A directory gets a name, and perhaps a block for it.
LEMMA PaidAdded ==
  ASSUME NEW v \in Volumes, Paid(v), NEW d \in v.used, NEW n, NEW i,
         NEW r, r.ok, HasAdded(v, r, d, n, i)
  PROVE  Paid(r.vol)
<1>1. PICK w \in Volumes : w = r.vol
  BY DEF HasAdded
<1>2. w.used = v.used
  BY <1>1 DEF HasAdded, Same
<1>3. \/ w.blocks = v.blocks /\ w.free = v.free
      \/ w.blocks = [v.blocks EXCEPT ![d] = @ + 1] /\ w.free = v.free - 1
  BY <1>1 DEF HasAdded
<1>4. SamePaid(v, w) \/ MorePaid(v, w, d)
  BY <1>2, <1>3 DEF SamePaid, MorePaid
<1>5. Paid(w)
  BY <1>4, PaidSame, PaidMore
<1> QED
  BY <1>1, <1>5

\* No file loses its last name but those of S, nor an orphan its place.
Unlost(v, w, S) ==
    \A i \in Nameless(w) \ S : i \in Nameless(v) /\ (i \in v.orphans => i \in w.orphans)

LEMMA UnlostBy ==
  ASSUME NEW v, NEW w, NEW S, v.orphans \subseteq w.orphans,
         \A j \in w.used \ Folders(w) :
            \/ j \in S \/ Named(w, j) # {}
            \/ j \in v.used \ Folders(v) /\ Named(v, j) = {}
  PROVE  Unlost(v, w, S)
BY DEF Unlost, Nameless

LEMMA UnlostAlike ==
  ASSUME NEW v, NEW w, Same(v, w), w.ents = v.ents
  PROVE  Unlost(v, w, {})
BY DEF Unlost, Nameless, Same, Folders, Named

LEMMA UnlostOn ==
  ASSUME NEW v, NEW w, NEW x, NEW S, Unlost(v, w, S), Unlost(w, x, {})
  PROVE  Unlost(v, x, S)
BY DEF Unlost

LEMMA KeptOn ==
  ASSUME NEW v, NEW w, NEW f, NEW S, Kept(v, f), Unlost(v, w, S),
         \A i \in S : i \in w.orphans /\ is_open(f, i)
  PROVE  Kept(w, f)
BY DEF Kept, Orphaned, Unlost

LEMMA KeptSame ==
  ASSUME NEW v, NEW w, NEW f, Kept(v, f), Unlost(v, w, {})
  PROVE  Kept(w, f)
BY KeptOn

\* Descriptors that stay and others beside them.
LEMMA KeptFds ==
  ASSUME NEW v, NEW f, NEW g, Kept(v, f), "mmap" \notin calls /\ NoMaps(f) => NoMaps(g),
         \A i : is_open(f, i) => is_open(g, i)
  PROVE  Kept(v, g)
BY DEF Kept, Orphaned

-----------------------------------------------------------------------------
(* Each call as far as it goes: from a sound volume to a sound one, or it  *)
(* stops half way.                                                         *)

\* Directories that keep their parents stay below the root.
LEMMA RootedKept ==
  ASSUME NEW v, NEW w, Rooted(v), Folders(w) \subseteq Folders(v),
         \A e \in Folders(w) : w.ents[e][DotDot] = v.ents[e][DotDot]
  PROVE  Rooted(w)
<1> SUFFICES ASSUME NEW S \in SUBSET (Folders(w) \ {Root}), \A e \in S : w.ents[e][DotDot] \in S
             PROVE  S = {}
  BY DEF Rooted
<1>1. S \in SUBSET (Folders(v) \ {Root})
  OBVIOUS
<1>2. \A e \in S : v.ents[e][DotDot] \in S
  OBVIOUS
<1> QED
  BY <1>1, <1>2 DEF Rooted

\* So does a new directory.
LEMMA RootedMore ==
  ASSUME NEW v, NEW w, Rooted(v), NEW d \in Folders(v), NEW i, i \notin Folders(v),
         Folders(w) = Folders(v) \cup {i}, w.ents[i][DotDot] = d, Root \in Folders(v),
         \A e \in Folders(v) : w.ents[e][DotDot] = v.ents[e][DotDot] /\ v.ents[e][DotDot] \in Folders(v)
  PROVE  Rooted(w)
<1> SUFFICES ASSUME NEW S \in SUBSET (Folders(w) \ {Root}), \A e \in S : w.ents[e][DotDot] \in S
             PROVE  S = {}
  BY DEF Rooted
<1>1. PICK R : R = S \ {i}
  OBVIOUS
<1>2. R \in SUBSET (Folders(v) \ {Root})
  BY <1>1
<1>3. \A e \in R : v.ents[e][DotDot] \in R
  BY <1>1
<1>4. R = {}
  BY <1>2, <1>3 DEF Rooted
<1>5. i \notin S
  BY <1>1, <1>4
<1> QED
  BY <1>1, <1>4, <1>5

\* And a directory that is moved to one that is not below it.
NotBelow(v, d, i) ==
    \E A \in SUBSET Folders(v) : d \in A /\ i \notin A /\ \A e \in A : v.ents[e][DotDot] \in A

LEMMA RootedMoved ==
  ASSUME NEW v, NEW w, Rooted(v), NEW d, NEW i, NotBelow(v, d, i),
         Folders(w) = Folders(v), w.ents[i][DotDot] = d,
         \A e \in Folders(v) \ {i} : w.ents[e][DotDot] = v.ents[e][DotDot]
  PROVE  Rooted(w)
<1> SUFFICES ASSUME NEW S \in SUBSET (Folders(w) \ {Root}), \A e \in S : w.ents[e][DotDot] \in S
             PROVE  S = {}
  BY DEF Rooted
<1>1. PICK A \in SUBSET Folders(v) : d \in A /\ i \notin A /\ \A e \in A : v.ents[e][DotDot] \in A
  BY DEF NotBelow
<1>2. PICK R : R = S \cap A
  OBVIOUS
<1>3. R \in SUBSET (Folders(v) \ {Root})
  BY <1>2
<1>4. \A e \in R : v.ents[e][DotDot] \in R
  BY <1>1, <1>2
<1>5. R = {}
  BY <1>3, <1>4 DEF Rooted
<1>6. i \notin S
  BY <1>1, <1>2, <1>5
<1>7. \A e \in S : v.ents[e][DotDot] \in S
  BY <1>6
<1> QED
  BY <1>7 DEF Rooted

\* Tree and links do not depend on the cache nor on the blocks.
LEMMA SoundAlike ==
  ASSUME NEW v, NEW w \in Volumes, Sound(v), Same(v, w), w.ents = v.ents, Fits(w), Paid(w)
  PROVE  Sound(w) /\ Folders(w) = Folders(v)
<1>1. Folders(w) = Folders(v)
  BY DEF Same, Folders
<1>2. \A i : Named(w, i) = Named(v, i) /\ Kids(w, i) = Kids(v, i)
  BY <1>1 DEF Named, Kids
<1>3. Tree(w)
  BY <1>1 DEF Sound, Same, Tree
<1>4. Links(w)
  BY <1>1, <1>2 DEF Sound, Same, Links
<1>5. Rooted(w)
  BY <1>1, RootedKept DEF Sound
<1> QED
  BY <1>1, <1>3, <1>4, <1>5 DEF Sound

\* A lookup.
LEMMA LookedSound ==
  ASSUME NEW v, Sound(v), NEW d \in Inos, NEW n \in AllNames,
         n = DotDot => "rmdir" \notin calls /\ d \in Folders(v),
         NEW w, w = Looked(v, d, n)
  PROVE  /\ Found(v, d, n) = v.ents[d][n] /\ Found(v, d, n) \in Inos \cup {Absent}
         /\ Sound(w) /\ Same(v, w) /\ w.ents = v.ents /\ w.blocks = v.blocks /\ w.free = v.free
         /\ Folders(w) = Folders(v)
<1>1. /\ Found(v, d, n) = v.ents[d][n] /\ Found(v, d, n) \in Inos \cup {Absent}
      /\ w \in Volumes /\ Same(v, w) /\ w.ents = v.ents /\ Fits(w)
      /\ w.blocks = v.blocks /\ w.free = v.free
  BY LookedIs DEF Sound
<1>2. Paid(w)
  BY <1>1, PaidSame DEF SamePaid, Same, Sound
<1> QED
  BY <1>1, <1>2, SoundAlike

\* Names are only gained, by a new inode or by one in use.
LEMMA Gained ==
  ASSUME NEW v, NEW w, NEW i, w.used \subseteq v.used \cup {i}, w.orphans = v.orphans,
         NEW d \in Inos, NEW n \in Names, w.ents[d][n] = i,
         Folders(v) \subseteq Folders(w), v.used \cap Folders(w) \subseteq Folders(v) \cup {i},
         \A e \in Inos, m \in Names : v.ents[e][m] # Absent => w.ents[e][m] = v.ents[e][m],
         Absent \notin w.used
  PROVE  Unlost(v, w, {})
<1> SUFFICES ASSUME NEW j \in w.used \ Folders(w), Named(w, j) = {}
             PROVE  j \in v.used \ Folders(v) /\ Named(v, j) = {}
  BY UnlostBy
<1>1. <<d, n>> \in Named(w, i)
  BY DEF Named
<1>2. j # i
  BY <1>1
<1>3. ASSUME NEW x \in Named(v, j) PROVE x \in Named(w, j)
  BY DEF Named
<1> QED
  BY <1>2, <1>3

\* A new inode that is no directory, and its name.
HasInode(v, c, i, kind) ==
    /\ c.used = v.used \cup {i} /\ c.kind = [v.kind EXCEPT ![i] = kind]
    /\ c.links = [v.links EXCEPT ![i] = 1] /\ c.orphans = v.orphans /\ c.ents = v.ents

KindSet(v, w, i, kind) == w.kind = [v.kind EXCEPT ![i] = kind]

LEMMA MadeSound ==
  ASSUME NEW v, Sound(v), NEW d \in Folders(v), NEW n \in Names, v.ents[d][n] = Absent,
         NEW i \in Inos \ v.used, NEW kind \in Kinds, kind # "dir",
         NEW c \in Volumes, Fits(c), Paid(c), HasInode(v, c, i, kind),
         NEW r, r = dir_add(c, d, n, i)
  PROVE  /\ r.vol.used = v.used \cup {i}
         /\ r.ok => Sound(r.vol) /\ KindSet(v, r.vol, i, kind) /\ Unlost(v, r.vol, {})
<1>1. d \in Inos /\ i \in Inos
  BY DEF Folders, Sound, Volumes
<1>2. /\ r.vol \in Volumes /\ Same(c, r.vol)
      /\ r.ok => r.vol.ents = [c.ents EXCEPT ![d][n] = i] /\ Fits(r.vol)
  <2>1. HasAdded(c, r, d, n, i)
    BY <1>1, DirAddIs
  <2> QED
    BY <2>1 DEF HasAdded
<1>3. ASSUME r.ok PROVE Tree(r.vol) /\ Links(r.vol) /\ Rooted(r.vol) /\ Unlost(v, r.vol, {})
  <2>1. PICK w \in Volumes : w = r.vol
    BY <1>2
  <2>2. /\ w.used = v.used \cup {i} /\ w.kind = [v.kind EXCEPT ![i] = kind]
        /\ w.links = [v.links EXCEPT ![i] = 1] /\ w.orphans = v.orphans
        /\ w.ents = [v.ents EXCEPT ![d][n] = i]
    BY <1>2, <1>3, <2>1 DEF Same, HasInode
  <2>4. v \in Volumes /\ Tree(v) /\ Links(v) /\ Rooted(v)
    BY DEF Sound
  <2>3. Tree(w) /\ Links(w)
    <3>1. GainsFile(v, w, d, n, i, kind)
      BY <2>2 DEF GainsFile
    <3> QED
      BY <2>4, <3>1, NewFile
  <2>5. /\ v.ents \in [Inos -> [AllNames -> Inos \cup {Absent}]] /\ v.kind \in [Inos -> Kinds]
        /\ Folders(v) \subseteq Inos
    BY <2>4, TreeTypes
  <2>6. Folders(w) = Folders(v)
    BY <2>2, <2>5 DEF Folders
  <2>7. \A e \in Folders(w) : w.ents[e][DotDot] = v.ents[e][DotDot]
    BY <1>1, <2>2, <2>5, <2>6, Numbers
  <2>8. Rooted(w)
    BY <2>4, <2>6, <2>7, RootedKept
  <2>9. Unlost(v, w, {})
    <3>1. \A e \in Inos, m \in Names : v.ents[e][m] # Absent => w.ents[e][m] = v.ents[e][m]
      BY <1>1, <2>2, <2>5, Numbers
    <3>2. d \in Inos /\ w.ents[d][n] = i
      BY <1>1, <2>2, <2>5, Numbers
    <3>3. Absent \notin w.used
      BY <2>1, Numbers DEF Volumes
    <3> QED
      BY <2>2, <2>6, <3>1, <3>2, <3>3, Gained
  <2> QED
    BY <2>1, <2>3, <2>8, <2>9
<1>4. r.ok => Paid(r.vol)
  <2>1. HasAdded(c, r, d, n, i)
    BY <1>1, DirAddIs
  <2>2. d \in c.used
    BY DEF HasInode, Folders
  <2> QED
    BY <2>1, <2>2, PaidAdded
<1> QED
  BY <1>2, <1>3, <1>4 DEF Sound, Same, HasInode, KindSet

\* A new directory, its name, and the link of its parent.
MakesDir(v, d, n, i, a, b, r, w) ==
    /\ i = FreeInode(v) /\ a = new_inode(v, "dir")
    /\ b = [AddBlock(a, i) EXCEPT !.links[i] = 2, !.ents[i][DotDot] = d]
    /\ r = dir_add(b, d, n, i)
    /\ w = [r.vol EXCEPT !.links[d] = @ + 1]

LEMMA MkdirSound ==
  ASSUME NEW v, Sound(v), NEW d \in Folders(v), NEW n \in Names, v.ents[d][n] = Absent,
         v.used # Inos, NEW i, NEW a, NEW b, NEW r, NEW w,
         MakesDir(v, d, n, i, a, b, r, w), a.free # 0
  PROVE  /\ i \in Inos \ v.used /\ r.vol.used = v.used \cup {i} /\ w.used = v.used \cup {i}
         /\ r.ok => Sound(w) /\ KindSet(v, w, i, "dir") /\ Unlost(v, w, {})
<1>1. d \in Inos /\ d \in v.used /\ "dir" \in Kinds /\ DotDot \in AllNames
  BY Numbers DEF Folders, Sound, Volumes, Kinds
<1>2. /\ i \in Inos \ v.used
      /\ a \in Volumes /\ Fits(a)
      /\ a.used = v.used \cup {i} /\ a.kind = [v.kind EXCEPT ![i] = "dir"]
      /\ a.links = [v.links EXCEPT ![i] = 1] /\ a.orphans = v.orphans
      /\ a.ents = v.ents /\ a.cache = v.cache
      /\ a.blocks = [v.blocks EXCEPT ![i] = 0] /\ a.free = v.free
  <2>1. v \in Volumes /\ Tree(v) /\ Fits(v) /\ i = FreeInode(v) /\ a = new_inode(v, "dir")
    BY DEF Sound, MakesDir
  <2> QED
    BY <1>1, <2>1, NewInodeIs
<1>3. PICK e : e = AddBlock(a, i)
  OBVIOUS
<1>4. /\ e \in Volumes /\ Same(a, e) /\ e.ents = a.ents /\ e.cache = a.cache
      /\ e.blocks = [a.blocks EXCEPT ![i] = @ + 1] /\ e.free = a.free - 1
  BY <1>2, <1>3, AddBlockIs
<1>5. /\ b \in Volumes
      /\ b.used = a.used /\ b.kind = a.kind /\ b.orphans = a.orphans /\ b.cache = a.cache
      /\ b.links = [a.links EXCEPT ![i] = 2] /\ b.ents = [a.ents EXCEPT ![i][DotDot] = d]
      /\ b.blocks = e.blocks /\ b.free = e.free
  <2>1. PICK ls, es : ls = [e.links EXCEPT ![i] = 2] /\ es = [e.ents EXCEPT ![i][DotDot] = d]
    OBVIOUS
  <2>2. e.links \in [Inos -> Nat] /\ e.ents \in [Inos -> [AllNames -> Inos \cup {Absent}]]
    BY <1>4 DEF Volumes
  <2>3. ls \in [Inos -> Nat]
    BY <1>2, <2>1, <2>2
  <2>4. es \in [Inos -> [AllNames -> Inos \cup {Absent}]]
    BY <1>1, <1>2, <2>1, <2>2
  <2>5. b = [e EXCEPT !.links = ls, !.ents = es]
    BY <1>3, <1>4, <2>1 DEF Volumes, MakesDir
  <2>6. /\ b \in Volumes
        /\ b.used = e.used /\ b.kind = e.kind /\ b.orphans = e.orphans /\ b.cache = e.cache
        /\ b.links = ls /\ b.ents = es /\ b.blocks = e.blocks /\ b.free = e.free
    BY <1>4, <2>3, <2>4, <2>5 DEF Volumes
  <2> QED
    BY <1>4, <2>1, <2>6 DEF Same
<1>6. Fits(b)
  <2>1. i \notin Folders(v) /\ Folders(v) \subseteq Folders(b)
    BY <1>2, <1>5 DEF Folders, Sound, Volumes
  <2>2. v.ents \in [Inos -> [AllNames -> Inos \cup {Absent}]] /\ v \in Volumes /\ Fits(v)
    BY DEF Sound, Volumes
  <2>3. ASSUME NEW x \in Inos, NEW m \in AllNames, Hit(v, x, m)
        PROVE  b.ents[x][m] = v.ents[x][m] /\ (m = DotDot => x \in Folders(b))
    <3>1. m = DotDot => x \in Folders(v)
      BY <2>2, <2>3 DEF Fits
    <3>2. ~(x = i /\ m = DotDot)
      BY <2>1, <3>1
    <3> QED
      BY <1>1, <1>2, <1>5, <2>1, <2>2, <3>1, <3>2
  <2>4. b.cache = v.cache
    BY <1>2, <1>5
  <2> QED
    BY <1>5, <2>2, <2>3, <2>4, FitsKept
<1>10. Paid(b)
  <2>1. NewPaid(v, a, i) /\ v \in Volumes /\ Paid(v)
    BY <1>2 DEF NewPaid, Sound
  <2>2. Paid(a)
    BY <1>2, <2>1, PaidNew
  <2>3. MorePaid(a, e, i) /\ i \in a.used
    BY <1>2, <1>4 DEF MorePaid, Same
  <2>4. Paid(e)
    BY <1>2, <1>4, <2>2, <2>3, PaidMore
  <2>5. SamePaid(e, b)
    BY <1>4, <1>5 DEF SamePaid, Same
  <2> QED
    BY <2>4, <2>5, PaidSame
<1>7. /\ r.vol \in Volumes /\ Same(b, r.vol)
      /\ r.ok => r.vol.ents = [b.ents EXCEPT ![d][n] = i] /\ Fits(r.vol) /\ Paid(r.vol)
  <2>1. r = dir_add(b, d, n, i) /\ i \in Inos /\ b \in Volumes
    BY <1>2, <1>5 DEF MakesDir
  <2>2. HasAdded(b, r, d, n, i)
    BY <1>1, <1>6, <2>1, DirAddIs
  <2>3. d \in b.used
    BY <1>1, <1>2, <1>5
  <2>4. r.ok => Paid(r.vol)
    BY <1>10, <2>1, <2>2, <2>3, PaidAdded
  <2> QED
    BY <2>2, <2>4 DEF HasAdded
<1>8. w.used = v.used \cup {i} /\ r.vol.used = v.used \cup {i}
  <2>1. w = [r.vol EXCEPT !.links[d] = @ + 1]
    BY DEF MakesDir
  <2>2. w.used = r.vol.used
    BY <1>7, <2>1 DEF Volumes
  <2> QED
    BY <1>2, <1>5, <1>7, <2>2 DEF Same
<1>9. ASSUME r.ok PROVE Sound(w) /\ w.kind = [v.kind EXCEPT ![i] = "dir"] /\ Unlost(v, w, {})
  <2>1. PICK u \in Volumes : u = r.vol
    BY <1>7
  <2>2. PICK c \in Nat : c = u.links[d] + 1
    BY <1>1, <2>1 DEF Volumes
  <2>3. w = [u EXCEPT !.links[d] = c] /\ Fits(u)
    BY <1>1, <1>7, <1>9, <2>1, <2>2 DEF Volumes, MakesDir
  <2>4. /\ w \in Volumes /\ Fits(w)
        /\ w.used = u.used /\ w.kind = u.kind /\ w.orphans = u.orphans
        /\ w.links = [u.links EXCEPT ![d] = c] /\ w.ents = u.ents
        /\ w.blocks = u.blocks /\ w.free = u.free
    <3>1. HasCount(u, w, d, c)
      BY <1>1, <2>3, CountIs
    <3> QED
      BY <3>1 DEF HasCount
  <2>5. u.links = b.links /\ b.links = [v.links EXCEPT ![i] = 2]
    BY <1>2, <1>5, <1>7, <2>1 DEF Same, Sound, Volumes
  <2>6. w.links = [[v.links EXCEPT ![i] = 2] EXCEPT ![d] = @ + 1]
    BY <1>1, <1>2, <2>2, <2>4, <2>5 DEF Sound, Volumes
  <2>7. w.ents = [[v.ents EXCEPT ![i][DotDot] = d] EXCEPT ![d][n] = i]
    BY <1>2, <1>5, <1>7, <1>9, <2>1, <2>4
  <2>8. w.used = v.used \cup {i} /\ w.kind = [v.kind EXCEPT ![i] = "dir"] /\ w.orphans = v.orphans
    BY <1>2, <1>5, <1>7, <2>1, <2>4 DEF Same
  <2>9. v \in Volumes /\ Tree(v) /\ Links(v)
    BY DEF Sound
  <2>10. Tree(w) /\ Links(w)
    BY <1>2, <2>4, <2>6, <2>7, <2>8, <2>9, NewDir
  <2>12. Paid(w)
    <3>1. SamePaid(u, w) /\ Paid(u)
      BY <1>7, <1>9, <2>1, <2>4 DEF SamePaid
    <3> QED
      BY <3>1, PaidSame
  <2>13. Unlost(v, w, {})
    <3>1. /\ v.ents \in [Inos -> [AllNames -> Inos \cup {Absent}]] /\ v.kind \in [Inos -> Kinds]
          /\ Folders(v) \subseteq Inos /\ v.used \subseteq Inos
      BY <2>9, TreeTypes
    <3>2. \A m \in Names : m # DotDot /\ m \in AllNames
      BY Numbers
    <3>3. Folders(w) = Folders(v) \cup {i}
      BY <1>2, <2>8, <3>1 DEF Folders
    <3>4. PICK es : es = [v.ents EXCEPT ![i][DotDot] = d]
      OBVIOUS
    <3>5. /\ es \in [Inos -> [AllNames -> Inos \cup {Absent}]]
          /\ \A x \in Inos, m \in Names : es[x][m] = v.ents[x][m]
      BY <1>1, <1>2, <3>1, <3>2, <3>4
    <3>6. \A x \in Inos, m \in Names : w.ents[x][m] = IF x = d /\ m = n THEN i ELSE v.ents[x][m]
      BY <1>1, <1>2, <2>7, <3>2, <3>4, <3>5
    <3>7. \A x \in Inos, m \in Names : v.ents[x][m] # Absent => w.ents[x][m] = v.ents[x][m]
      BY <3>6
    <3>8. w.ents[d][n] = i
      BY <1>1, <3>6
    <3>9. Absent \notin w.used
      BY <2>4, Numbers DEF Volumes
    <3> QED
      BY <1>1, <2>8, <3>3, <3>7, <3>8, <3>9, Gained
  <2>11. Rooted(w)
    <3>1. /\ v.ents \in [Inos -> [AllNames -> Inos \cup {Absent}]] /\ v.kind \in [Inos -> Kinds]
          /\ Folders(v) \subseteq v.used /\ Folders(v) \subseteq Inos /\ Root \in Folders(v)
          /\ \A x \in Folders(v) : v.ents[x][DotDot] \in Folders(v)
      BY <2>9, TreeTypes
    <3>2. i \notin Folders(v) /\ i \in Inos /\ n # DotDot /\ n \in AllNames
      BY <1>2, <3>1, Numbers
    <3>3. Folders(w) = Folders(v) \cup {i}
      BY <2>8, <3>1, <3>2 DEF Folders
    <3>4. /\ w.ents[i][DotDot] = d
          /\ \A x \in Folders(v) : w.ents[x][DotDot] = v.ents[x][DotDot]
      <4>1. PICK es : es = [v.ents EXCEPT ![i][DotDot] = d]
        OBVIOUS
      <4>2. /\ es \in [Inos -> [AllNames -> Inos \cup {Absent}]] /\ es[i][DotDot] = d
            /\ \A x \in Inos \ {i} : es[x] = v.ents[x]
        BY <1>1, <3>1, <3>2, <4>1
      <4>3. \A x \in Inos : w.ents[x][DotDot] = es[x][DotDot]
        BY <1>1, <2>7, <3>2, <4>1, <4>2
      <4> QED
        BY <3>1, <3>2, <4>2, <4>3
    <3>5. Rooted(v)
      BY DEF Sound
    <3> QED
      BY <3>1, <3>2, <3>3, <3>4, <3>5, RootedMore
  <2> QED
    BY <2>4, <2>8, <2>10, <2>11, <2>12, <2>13 DEF Sound
<1> QED
  BY <1>2, <1>8, <1>9 DEF KindSet

\* One more name of a file.
LEMMA LinkSound ==
  ASSUME NEW v, Sound(v), NEW d \in Folders(v), NEW n \in Names, v.ents[d][n] = Absent,
         NEW i \in v.used \ Folders(v), Named(v, i) # {},
         NEW r, r = dir_add([v EXCEPT !.links[i] = @ + 1], d, n, i)
  PROVE  /\ r.vol.used = v.used
         /\ r.ok => Sound(r.vol) /\ r.vol.kind = v.kind /\ Unlost(v, r.vol, {})
<1>1. d \in Inos /\ i \in Inos /\ v \in Volumes /\ Fits(v) /\ Tree(v) /\ Links(v)
  BY DEF Folders, Sound, Volumes
<1>2. PICK c : c = v.links[i] + 1
  OBVIOUS
<1>3. c \in Nat
  BY <1>1, <1>2 DEF Volumes
<1>4. PICK a : a = [v EXCEPT !.links[i] = c]
  OBVIOUS
<1>5. HasCount(v, a, i, c)
  BY <1>1, <1>3, <1>4, CountIs
<1>6. r = dir_add(a, d, n, i)
  BY <1>1, <1>2, <1>4 DEF Volumes
<1>7. a \in Volumes /\ Fits(a)
  BY <1>5 DEF HasCount
<1>8. HasAdded(a, r, d, n, i)
  BY <1>1, <1>6, <1>7, DirAddIs
<1>9. r.vol.used = v.used /\ r.vol.kind = v.kind /\ r.vol \in Volumes
  BY <1>5, <1>8 DEF HasCount, HasAdded, Same
<1>10. ASSUME r.ok PROVE Sound(r.vol) /\ Unlost(v, r.vol, {})
  <2>1. PICK w \in Volumes : w = r.vol
    BY <1>9
  <2>2. /\ w.orphans = v.orphans /\ w.ents = [v.ents EXCEPT ![d][n] = i]
        /\ w.links = [v.links EXCEPT ![i] = c] /\ w.used = v.used /\ w.kind = v.kind
    BY <1>5, <1>8, <1>9, <1>10, <2>1 DEF HasCount, HasAdded, Same
  <2>3. w.links = [v.links EXCEPT ![i] = @ + 1]
    BY <1>1, <1>2, <2>2 DEF Volumes
  <2>4. Tree(w) /\ Links(w)
    BY <1>1, <2>2, <2>3, NameAdded
  <2>5. Fits(w)
    BY <1>8, <1>10, <2>1 DEF HasAdded
  <2>7. Paid(w)
    <3>1. SamePaid(v, a) /\ a \in Volumes /\ d \in a.used
      BY <1>5 DEF HasCount, SamePaid, Folders
    <3>2. Paid(a)
      BY <3>1, PaidSame DEF Sound
    <3> QED
      BY <1>8, <1>10, <2>1, <3>1, <3>2, PaidAdded
  <2>8. Unlost(v, w, {})
    <3>1. v.ents \in [Inos -> [AllNames -> Inos \cup {Absent}]] /\ Folders(w) = Folders(v)
      BY <1>1, <2>2, TreeTypes DEF Folders
    <3>2. \A e \in Inos, m \in Names : v.ents[e][m] # Absent => w.ents[e][m] = v.ents[e][m]
      BY <1>1, <2>2, <3>1, Numbers
    <3>3. w.ents[d][n] = i
      BY <1>1, <2>2, <3>1, Numbers
    <3>4. Absent \notin w.used
      BY <2>1, Numbers DEF Volumes
    <3> QED
      BY <1>1, <2>2, <3>1, <3>2, <3>3, <3>4, Gained
  <2>6. Rooted(w)
    <3>1. Folders(w) = Folders(v) /\ Folders(v) \subseteq Inos /\ Rooted(v)
      BY <1>1, <2>2, TreeTypes DEF Folders, Sound
    <3>2. v.ents \in [Inos -> [AllNames -> Inos \cup {Absent}]]
      BY <1>1, TreeTypes
    <3>3. \A e \in Folders(w) : w.ents[e][DotDot] = v.ents[e][DotDot]
      BY <1>1, <2>2, <3>1, <3>2, Numbers
    <3> QED
      BY <3>1, <3>3, RootedKept
  <2> QED
    BY <2>1, <2>4, <2>5, <2>6, <2>7, <2>8 DEF Sound
<1> QED
  BY <1>9, <1>10

\* An orphan is noted.
LEMMA OrphanSound ==
  ASSUME NEW v, Sound(v), NEW i \in v.used \ Folders(v), v.links[i] = 0,
         NEW r, r = WithOrphan(v, i)
  PROVE  /\ r.vol.used = v.used /\ r.vol.kind = v.kind /\ Sound(r.vol)
         /\ Unlost(v, r.vol, {}) /\ (r.ok => i \in r.vol.orphans)
<1>1. v \in Volumes /\ i \in Inos
  BY DEF Sound, Volumes
<1>2. PICK w : w = [v EXCEPT !.orphans = @ \cup {i}]
  OBVIOUS
<1>3. /\ w \in Volumes /\ w.orphans = v.orphans \cup {i}
      /\ w.used = v.used /\ w.kind = v.kind /\ w.links = v.links /\ w.ents = v.ents
      /\ w.cache = v.cache /\ w.blocks = v.blocks /\ w.free = v.free
  BY <1>1, <1>2 DEF Volumes
<1>4. Folders(w) = Folders(v)
  BY <1>3 DEF Folders
<1>5. \A j : Named(w, j) = Named(v, j) /\ Kids(w, j) = Kids(v, j)
  BY <1>3, <1>4 DEF Named, Kids
<1>6. Tree(w)
  BY <1>3, <1>4 DEF Sound, Tree
<1>7. Links(w)
  BY <1>3, <1>4, <1>5 DEF Sound, Links
<1>8. Fits(w)
  BY <1>3, <1>4 DEF Sound, Fits, Hit
<1>9. r.vol = w \/ (r.vol = v /\ ~r.ok)
  BY <1>2 DEF WithOrphan, Done, Stopped
<1>11. Paid(w)
  BY <1>3, PaidSame DEF SamePaid, Sound
<1>12. Unlost(v, w, {}) /\ Unlost(v, v, {})
  BY <1>3, <1>4, <1>5 DEF Unlost, Nameless
<1>10. Rooted(w)
  BY <1>3, <1>4, RootedKept DEF Sound
<1> QED
  BY <1>3, <1>6, <1>7, <1>8, <1>9, <1>10, <1>11, <1>12 DEF Sound

\* A file loses a name: it is freed with the last of them, or is left to the
\* descriptors that have it open.
LosesName(v, r, d, n, i) ==
    /\ r.ok /\ Sound(r.vol)
    /\ r.vol.kind = v.kind
    /\ r.vol.used = v.used \/ (r.vol.used = v.used \ {i} /\ ~is_open(fds, i))
    /\ r.vol.ents = [v.ents EXCEPT ![d][n] = Absent]
    /\ Folders(r.vol) = Folders(v)
    /\ Unlost(v, r.vol, IF r.orphan THEN {i} ELSE {})
    /\ r.orphan => /\ i \in r.vol.used \ Folders(r.vol) /\ r.vol.links[i] = 0
                   /\ is_open(fds, i)

LEMMA UnnamedSound ==
  ASSUME NEW v, Sound(v), NEW d \in Inos, NEW n \in Names,
         NEW i \in v.used \ Folders(v), v.ents[d][n] = i,
         NEW r, r = Unnamed(v, d, n, i)
  PROVE  LosesName(v, r, d, n, i)
<1>1. v \in Volumes /\ Fits(v) /\ Tree(v) /\ Links(v) /\ i \in Inos /\ i # Absent
  BY TreeTypes DEF Sound
<1>2. PICK a : a = dir_remove(v, d, n)
  OBVIOUS
<1>3. HasRemoved(v, a, d, n)
  BY <1>1, <1>2, DirRemoveIs
<1>4. PICK u : u = a.vol
  OBVIOUS
<1>5. /\ a.ok /\ u \in Volumes /\ Fits(u) /\ Same(v, u)
      /\ u.ents = [v.ents EXCEPT ![d][n] = Absent]
      /\ u.blocks = v.blocks /\ u.free = v.free
  BY <1>1, <1>3, <1>4 DEF HasRemoved
<1>6. PICK c \in Nat : c = Less(u.links[i])
  <2>1. u.links[i] \in Nat
    BY <1>1, <1>5 DEF Volumes
  <2> QED
    BY <2>1 DEF Less
<1>7. PICK w : w = [u EXCEPT !.links[i] = c]
  OBVIOUS
<1>8. HasCount(u, w, i, c)
  BY <1>1, <1>5, <1>7, CountIs
<1>9. /\ w \in Volumes /\ Fits(w)
      /\ w.used = v.used /\ w.kind = v.kind /\ w.orphans = v.orphans
      /\ w.ents = [v.ents EXCEPT ![d][n] = Absent] /\ w.links = [v.links EXCEPT ![i] = Less(@)]
  <2>1. v.links = u.links /\ v.links \in [Inos -> Nat]
    BY <1>1, <1>5 DEF Same, Volumes
  <2> QED
    BY <1>1, <1>5, <1>6, <1>8, <2>1 DEF HasCount, Same
<1>10. Tree(w) /\ Links(w) /\ i \notin w.orphans
  BY <1>1, <1>9, NameRemoved
<1>11. Folders(w) = Folders(v) /\ w.links[i] = c
  <2>1. w.links[i] = c
    BY <1>1, <1>5, <1>8 DEF HasCount, Volumes
  <2> QED
    BY <1>9, <2>1 DEF Folders
<1>12. [u EXCEPT !.links[i] = Less(@)] = w
  BY <1>1, <1>5, <1>6, <1>7 DEF Volumes
<1>15. Rooted(w)
  <2>1. /\ v.ents \in [Inos -> [AllNames -> Inos \cup {Absent}]] /\ Folders(v) \subseteq Inos
        /\ Rooted(v)
    BY <1>1, TreeTypes DEF Sound
  <2>2. \A e \in Folders(w) : w.ents[e][DotDot] = v.ents[e][DotDot]
    BY <1>9, <1>11, <2>1, Numbers
  <2> QED
    BY <1>11, <2>1, <2>2, RootedKept
<1>16. Paid(u) /\ Paid(w)
  <2>1. SamePaid(v, u) /\ SamePaid(u, w) /\ Paid(v)
    BY <1>5, <1>8 DEF SamePaid, Same, HasCount, Sound
  <2> QED
    BY <2>1, PaidSame
<1>17. \A j \in Inos \ {i} : Named(w, j) = Named(v, j)
  <2>1. v.ents \in [Inos -> [AllNames -> Inos \cup {Absent}]] /\ Absent \notin Inos
    BY <1>1, TreeTypes, Numbers
  <2>2. \A e \in Inos, m \in Names :
          w.ents[e][m] = IF e = d /\ m = n THEN Absent ELSE v.ents[e][m]
    BY <1>9, <2>1, Numbers
  <2> QED
    BY <2>1, <2>2 DEF Named
<1>18. Unlost(v, w, {i})
  <2>1. w.used \subseteq Inos
    BY <1>9 DEF Volumes
  <2> QED
    BY <1>9, <1>11, <1>17, <2>1 DEF Unlost, Nameless
<1>19. Named(w, i) = {} => c = 0
  <2>1. i \in w.used \ Folders(w)
    BY <1>9, <1>11
  <2>2. w.links[i] = Cardinality(Named(w, i))
    BY <1>10, <2>1 DEF Links
  <2> QED
    BY <1>11, <2>2, FS_EmptySet
<1>13. CASE c = 0 /\ ~is_open(fds, i)
  <2>1. PICK x : x = release_inode(u, i)
    OBVIOUS
  <2>2. drop_link(u, i, ~is_open(fds, i)) = x
    BY <1>11, <1>12, <1>13, <2>1 DEF drop_link
  <2>3. u.ents = w.ents /\ u.used = w.used /\ u.kind = w.kind /\ u.orphans = w.orphans
    BY <1>8 DEF HasCount
  <2>4. \A m \in Names : u.ents[i][m] = Absent
    BY <1>1, <1>10, <1>11, <2>3, Numbers DEF Tree
  <2>5. i \notin Folders(u)
    BY <1>5 DEF Same, Folders
  <2>11. HasFreed(u, x, i)
    BY <1>1, <1>5, <2>1, <2>4, <2>5, ReleaseIs
  <2>12. u.links \in [Inos -> Nat] /\ w.links = [u.links EXCEPT ![i] = c]
    BY <1>5, <1>8 DEF HasCount, Volumes
  <2>13. /\ x \in Volumes /\ Fits(x) /\ x.used = w.used \ {i} /\ x.kind = w.kind
         /\ x.orphans = w.orphans \ {i} /\ x.links = [w.links EXCEPT ![i] = 0]
         /\ x.ents = [w.ents EXCEPT ![i] = NoEnts]
    BY <1>1, <1>10, <2>3, <2>11, <2>12 DEF HasFreed
  <2>6. i \in w.used \ Folders(w) /\ w.links[i] = 0
    BY <1>9, <1>11, <1>13
  <2>7. Tree(x) /\ Links(x)
    BY <1>9, <1>10, <2>13, <2>6, FileFreed
  <2>8. x.ents = w.ents
    <3>1. w.ents \in [Inos -> [AllNames -> Inos \cup {Absent}]]
      BY <1>9, <1>10, TreeTypes
    <3>2. \A m \in AllNames : w.ents[i][m] = Absent
      BY <1>1, <1>10, <2>6 DEF Tree
    <3>3. w.ents[i] = NoEnts
      BY <1>1, <3>1, <3>2 DEF NoEnts
    <3>4. w.ents \in [Inos -> [AllNames -> Inos \cup {Absent}]]
      BY <3>1
    <3>5. [w.ents EXCEPT ![i] = NoEnts] = w.ents
      BY <1>1, <3>3, <3>4
    <3> QED
      BY <2>13, <3>5
  <2>9. r.ok /\ r.vol = x /\ ~r.orphan
    BY <1>2, <1>4, <1>5, <1>13, <2>2 DEF Unnamed
  <2>10. Folders(x) = Folders(v)
    BY <1>9, <1>11, <2>13, <2>6 DEF Folders
  <2>14. Rooted(x)
    BY <1>11, <1>15, <2>8, <2>10, RootedKept
  <2>15. Paid(x)
    <3>1. LessPaid(u, x, i) /\ i \in u.used
      BY <1>5, <2>11 DEF LessPaid, HasFreed, Same
    <3> QED
      BY <1>5, <1>16, <2>13, <3>1, PaidLess
  <2>16. Unlost(v, x, {})
    <3>1. \A j : Named(x, j) = Named(w, j)
      BY <2>8 DEF Named
    <3>2. Nameless(x) = Nameless(w) \ {i}
      BY <1>11, <2>10, <2>13, <3>1 DEF Nameless
    <3>3. w.orphans = x.orphans
      BY <1>10, <2>13
    <3> QED
      BY <1>18, <3>2, <3>3 DEF Unlost
  <2> QED
    BY <1>9, <1>13, <2>13, <2>7, <2>8, <2>9, <2>10, <2>14, <2>15, <2>16 DEF LosesName, Sound
<1>14. CASE ~(c = 0 /\ ~is_open(fds, i))
  <2>1. drop_link(u, i, ~is_open(fds, i)) = w
    BY <1>11, <1>12, <1>14 DEF drop_link
  <2>2. r.ok /\ r.vol = w /\ (r.orphan <=> w.links[i] = 0 /\ is_open(fds, i))
    BY <1>2, <1>4, <1>5, <2>1 DEF Unnamed
  <2>3. Unlost(v, w, IF r.orphan THEN {i} ELSE {})
    <3>1. CASE r.orphan
      BY <1>18, <3>1
    <3>2. CASE ~r.orphan
      <4>1. i \notin Nameless(w)
        BY <1>11, <1>14, <1>19, <2>2, <3>2 DEF Nameless
      <4>2. Unlost(v, w, {})
        BY <1>18, <4>1 DEF Unlost
      <4> QED
        BY <3>2, <4>2
    <3> QED
      BY <3>1, <3>2
  <2> QED
    BY <1>9, <1>10, <1>11, <1>15, <1>16, <2>2, <2>3 DEF LosesName, Sound
<1> QED
  BY <1>13, <1>14

\* A directory without entries is removed.
LosesDir(v, r, d, n, i) ==
    /\ r.ok /\ Sound(r.vol)
    /\ r.vol.kind = v.kind /\ r.vol.used = v.used \ {i}
    /\ \A e \in Inos, m \in Names :
          r.vol.ents[e][m] = IF e = d /\ m = n THEN Absent ELSE v.ents[e][m]
    /\ Folders(r.vol) = Folders(v) \ {i}
    /\ Unlost(v, r.vol, {})

LEMMA RemovedSound ==
  ASSUME NEW v, Sound(v), NEW d \in Inos, NEW n \in Names,
         NEW i \in Folders(v), v.ents[d][n] = i, \A m \in Names : v.ents[i][m] = Absent,
         "rmdir" \in calls,
         NEW r, r = Removed(v, d, n, i)
  PROVE  LosesDir(v, r, d, n, i)
<1>1. v \in Volumes /\ Fits(v) /\ Tree(v) /\ Links(v) /\ i \in Inos /\ i # Absent
  BY TreeTypes DEF Sound
<1>2. PICK a : a = dir_remove(v, d, n)
  OBVIOUS
<1>3. HasRemoved(v, a, d, n)
  BY <1>1, <1>2, DirRemoveIs
<1>4. PICK u : u = a.vol
  OBVIOUS
<1>5. /\ a.ok /\ u \in Volumes /\ Fits(u) /\ Same(v, u)
      /\ u.ents = [v.ents EXCEPT ![d][n] = Absent]
      /\ u.blocks = v.blocks /\ u.free = v.free
  BY <1>1, <1>3, <1>4 DEF HasRemoved
<1>6. PICK x : x = release_inode(u, i)
  OBVIOUS
<1>7. \A m \in Names : u.ents[i][m] = Absent
  <2>1. v.ents \in [Inos -> [AllNames -> Inos \cup {Absent}]]
    BY <1>1, TreeTypes
  <2> QED
    BY <1>1, <1>5, <2>1, Numbers
<1>8. HasFreed(u, x, i)
  BY <1>1, <1>5, <1>6, <1>7, ReleaseIs
<1>9. x \in Volumes /\ Fits(x)
  BY <1>8 DEF HasFreed
<1>10. PICK c \in Nat : c = Less(x.links[d])
  <2>1. x.links[d] \in Nat
    BY <1>9 DEF Volumes
  <2> QED
    BY <2>1 DEF Less
<1>11. PICK w : w = [x EXCEPT !.links[d] = c]
  OBVIOUS
<1>12. HasCount(x, w, d, c)
  BY <1>9, <1>11, CountIs
<1>13. /\ w \in Volumes /\ Fits(w)
       /\ w.used = v.used \ {i} /\ w.kind = v.kind /\ w.orphans = v.orphans
       /\ w.links = [[v.links EXCEPT ![i] = 0] EXCEPT ![d] = Less(@)]
       /\ w.ents = [[v.ents EXCEPT ![d][n] = Absent] EXCEPT ![i] = NoEnts]
  <2>1. /\ x.used = v.used \ {i} /\ x.kind = v.kind /\ x.orphans = v.orphans
        /\ x.links = [v.links EXCEPT ![i] = 0]
        /\ x.ents = [[v.ents EXCEPT ![d][n] = Absent] EXCEPT ![i] = NoEnts]
    BY <1>5, <1>8 DEF HasFreed, Same
  <2>2. x.links \in [Inos -> Nat]
    BY <1>9 DEF Volumes
  <2> QED
    BY <1>10, <1>12, <2>1, <2>2 DEF HasCount
<1>14. Tree(w) /\ Links(w)
  BY <1>1, <1>13, DirFreed
<1>15. [x EXCEPT !.links[d] = Less(@)] = w
  BY <1>9, <1>10, <1>11 DEF Volumes
<1>16. r.ok /\ r.vol = w
  BY <1>2, <1>4, <1>5, <1>6, <1>15 DEF Removed, Done
<1>17. \A e \in Inos, m \in Names :
         w.ents[e][m] = IF e = d /\ m = n THEN Absent ELSE v.ents[e][m]
  <2>1. v.ents \in [Inos -> [AllNames -> Inos \cup {Absent}]]
    BY <1>1, TreeTypes
  <2>2. \A m \in Names : m \in AllNames
    BY Numbers
  <2> QED
    BY <1>13, <2>1, <2>2 DEF NoEnts
<1>18. Folders(w) = Folders(v) \ {i}
  BY <1>13 DEF Folders
<1>23. Rooted(w)
  <2>1. /\ v.ents \in [Inos -> [AllNames -> Inos \cup {Absent}]] /\ Folders(v) \subseteq Inos
        /\ Rooted(v)
    BY <1>1, TreeTypes DEF Sound
  <2>2. \A e \in Folders(w) : w.ents[e][DotDot] = v.ents[e][DotDot]
    BY <1>13, <1>18, <2>1, Numbers
  <2> QED
    BY <1>18, <2>1, <2>2, RootedKept
<1>24. Paid(w)
  <2>1. SamePaid(v, u) /\ LessPaid(u, x, i) /\ SamePaid(x, w) /\ i \in u.used /\ Paid(v)
    BY <1>5, <1>8, <1>12 DEF SamePaid, LessPaid, Same, HasFreed, HasCount, Folders, Sound
  <2>2. Paid(u)
    BY <2>1, PaidSame
  <2>3. Paid(x)
    BY <1>5, <1>9, <2>1, <2>2, PaidLess
  <2> QED
    BY <2>1, <2>3, PaidSame
<1>25. Unlost(v, w, {})
  <2>1. \A j \in w.used \ Folders(w) : j \in v.used \ Folders(v) /\ j # i /\ j # Absent
    BY <1>1, <1>13, <1>18, Numbers DEF Volumes
  <2>2. \A j \in w.used \ Folders(w) : Named(w, j) = Named(v, j)
    BY <1>17, <2>1 DEF Named
  <2> QED
    BY <1>13, <2>1, <2>2 DEF Unlost, Nameless
<1>19. Sound(w) /\ w.kind = v.kind /\ w.used = v.used \ {i}
  BY <1>13, <1>14, <1>23, <1>24 DEF Sound
<1>20. Sound(r.vol) /\ r.vol.kind = v.kind /\ r.vol.used = v.used \ {i}
  BY <1>16, <1>19
<1>21. \A e \in Inos, m \in Names :
         r.vol.ents[e][m] = IF e = d /\ m = n THEN Absent ELSE v.ents[e][m]
  BY <1>16, <1>17
<1>22. Folders(r.vol) = Folders(v) \ {i}
  BY <1>16, <1>18
<1> QED
  BY <1>16, <1>20, <1>21, <1>22, <1>25 DEF LosesDir

\* A name is added and the old one removed.
Renames(v, a, b, sd, sn, d, n, i) ==
    a = dir_add(v, d, n, i) /\ b = dir_remove(a.vol, sd, sn)
HasRenamed(v, a, b, sd, sn, d, n, i) ==
    /\ Same(v, a.vol)
    /\ a.ok => /\ b.ok /\ b.vol \in Volumes /\ Fits(b.vol) /\ Same(v, b.vol)
               /\ b.vol.ents = [[v.ents EXCEPT ![d][n] = i] EXCEPT ![sd][sn] = Absent]
               /\ Paid(b.vol)

LEMMA RenamesIs ==
  ASSUME NEW v, Sound(v), NEW sd \in Folders(v), NEW sn \in Names,
         NEW d \in Folders(v), NEW n \in Names, v.ents[d][n] = Absent,
         NEW i, v.ents[sd][sn] = i, i # Absent,
         NEW a, NEW b, Renames(v, a, b, sd, sn, d, n, i)
  PROVE  HasRenamed(v, a, b, sd, sn, d, n, i)
<1>1. v \in Volumes /\ Fits(v) /\ Tree(v) /\ sd \in Inos /\ d \in Inos /\ i \in Inos
  <2>1. v \in Volumes /\ Fits(v) /\ Tree(v)
    BY DEF Sound
  <2>2. v.ents \in [Inos -> [AllNames -> Inos \cup {Absent}]] /\ sd \in Inos /\ d \in Inos
    BY <2>1, TreeTypes
  <2> QED
    BY <2>1, <2>2, Numbers
<1>2. HasAdded(v, a, d, n, i)
  BY <1>1, DirAddIs DEF Renames
<1>3. Same(v, a.vol)
  BY <1>2 DEF HasAdded
<1>4. ASSUME a.ok
      PROVE  /\ b.ok /\ b.vol \in Volumes /\ Fits(b.vol) /\ Same(v, b.vol)
             /\ b.vol.ents = [[v.ents EXCEPT ![d][n] = i] EXCEPT ![sd][sn] = Absent]
             /\ Paid(b.vol)
  <2>1. PICK u : u = a.vol
    OBVIOUS
  <2>2. u \in Volumes /\ Fits(u) /\ Same(v, u) /\ u.ents = [v.ents EXCEPT ![d][n] = i]
    BY <1>2, <1>4, <2>1 DEF HasAdded
  <2>3. b = dir_remove(u, sd, sn)
    BY <2>1 DEF Renames
  <2>4. HasRemoved(u, b, sd, sn)
    BY <1>1, <2>2, <2>3, DirRemoveIs
  <2>5. u.ents[sd][sn] # Absent
    <3>1. v.ents \in [Inos -> [AllNames -> Inos \cup {Absent}]] /\ sn \in AllNames
      BY <1>1, TreeTypes, Numbers
    <3> QED
      BY <1>1, <2>2, <3>1
  <2>6. Paid(u)
    BY <1>1, <1>2, <1>4, <2>1, PaidAdded DEF Folders, Sound
  <2>7. SamePaid(u, b.vol)
    BY <2>4 DEF HasRemoved, Same, SamePaid
  <2>8. Paid(b.vol)
    BY <2>6, <2>7, PaidSame
  <2> QED
    BY <2>2, <2>4, <2>5, <2>8 DEF HasRemoved, Same
<1> QED
  BY <1>3, <1>4 DEF HasRenamed

\* A directory that is moved learns its parent; the parents' links follow.
Reparents(u, c, e, w, sd, d, i) ==
    /\ c = set_dotdot(u, i, d)
    /\ e = [c EXCEPT !.links[sd] = Less(@)]
    /\ w = [e EXCEPT !.links[d] = @ + 1]
HasNewParent(u, w, sd, d, i) ==
    /\ w \in Volumes /\ Fits(w)
    /\ w.used = u.used /\ w.kind = u.kind /\ w.orphans = u.orphans
    /\ w.ents = [u.ents EXCEPT ![i][DotDot] = d]
    /\ \A x \in Inos : w.links[x] = IF x = d THEN u.links[x] + 1
                                     ELSE IF x = sd THEN Less(u.links[x]) ELSE u.links[x]
    /\ SamePaid(u, w)

LEMMA ReparentsIs ==
  ASSUME NEW u \in Volumes, Fits(u), NEW sd \in Inos, NEW d \in Inos, sd # d,
         NEW i \in Folders(u), "rmdir" \notin calls,
         NEW c, NEW e, NEW w, Reparents(u, c, e, w, sd, d, i)
  PROVE  HasNewParent(u, w, sd, d, i)
<1>1. HasParent(u, c, i, d)
  BY SetDotdotIs DEF Reparents
<1>2. /\ c \in Volumes /\ Fits(c) /\ c.links = u.links /\ u.links \in [Inos -> Nat]
      /\ c.used = u.used /\ c.kind = u.kind /\ c.orphans = u.orphans
      /\ c.ents = [u.ents EXCEPT ![i][DotDot] = d]
      /\ c.blocks = u.blocks /\ c.free = u.free
  BY <1>1 DEF HasParent, Same, Volumes
<1>3. PICK k \in Nat : k = Less(u.links[sd])
  <2>1. u.links[sd] \in Nat
    BY <1>2
  <2> QED
    BY <2>1 DEF Less
<1>4. e = [c EXCEPT !.links[sd] = k]
  BY <1>2, <1>3 DEF Reparents
<1>5. HasCount(c, e, sd, k)
  BY <1>2, <1>4, CountIs
<1>6. /\ e \in Volumes /\ Fits(e) /\ e.links = [u.links EXCEPT ![sd] = k]
      /\ e.used = u.used /\ e.kind = u.kind /\ e.orphans = u.orphans /\ e.ents = c.ents
  BY <1>2, <1>5 DEF HasCount
<1>7. PICK m \in Nat : m = u.links[d] + 1
  BY <1>2
<1>8. e.links[d] = u.links[d]
  BY <1>2, <1>6
<1>9. w = [e EXCEPT !.links[d] = m]
  BY <1>7, <1>8 DEF Reparents
<1>10. HasCount(e, w, d, m)
  BY <1>6, <1>9, CountIs
<1>11. /\ w \in Volumes /\ Fits(w) /\ w.links = [[u.links EXCEPT ![sd] = k] EXCEPT ![d] = m]
       /\ w.used = u.used /\ w.kind = u.kind /\ w.orphans = u.orphans /\ w.ents = c.ents
  BY <1>6, <1>10 DEF HasCount
<1>12. \A x \in Inos : w.links[x] = IF x = d THEN u.links[x] + 1
                                    ELSE IF x = sd THEN Less(u.links[x]) ELSE u.links[x]
  BY <1>2, <1>3, <1>7, <1>11
<1>13. SamePaid(u, w)
  BY <1>2, <1>5, <1>10 DEF HasCount, SamePaid
<1> QED
  BY <1>2, <1>11, <1>12, <1>13 DEF HasNewParent

\* A file that is moved keeps a name.
NameMoves(v, w, sd, sn, d, n, i) ==
    /\ w.used = v.used /\ w.orphans = v.orphans /\ Folders(w) = Folders(v)
    /\ \A x \in Inos, m \in Names : w.ents[x][m] = IF x = sd /\ m = sn THEN Absent
                                    ELSE IF x = d /\ m = n THEN i ELSE v.ents[x][m]

LEMMA UnlostMoved ==
  ASSUME NEW v, NEW w \in Volumes,
         NEW sd \in Inos, NEW sn \in Names, NEW d \in Inos, NEW n \in Names,
         v.ents[d][n] = Absent, NEW i, v.ents[sd][sn] = i, i # Absent,
         NameMoves(v, w, sd, sn, d, n, i)
  PROVE  Unlost(v, w, {})
<1> /\ w.used = v.used /\ w.orphans = v.orphans /\ Folders(w) = Folders(v)
    /\ \A x \in Inos, m \in Names : w.ents[x][m] = IF x = sd /\ m = sn THEN Absent
                                    ELSE IF x = d /\ m = n THEN i ELSE v.ents[x][m]
  BY DEF NameMoves
<1> SUFFICES ASSUME NEW j \in w.used \ Folders(w), Named(w, j) = {}
             PROVE  Named(v, j) = {}
  BY UnlostBy
<1>1. w.ents[d][n] = i
  OBVIOUS
<1>2. <<d, n>> \in Named(w, i)
  BY <1>1 DEF Named
<1>3. j # i /\ j # Absent
  BY <1>2, Numbers DEF Volumes
<1>4. ASSUME NEW x \in Named(v, j) PROVE x \in Named(w, j)
  <2>1. PICK e \in Inos, m \in Names : x = <<e, m>> /\ v.ents[e][m] = j
    BY DEF Named
  <2>2. w.ents[e][m] = j
    BY <1>3, <2>1
  <2> QED
    BY <2>1, <2>2 DEF Named
<1> QED
  BY <1>4

\* A name is moved.
LEMMA MovedSound ==
  ASSUME NEW v, Sound(v), NEW sd \in Folders(v), NEW sn \in Names,
         NEW d \in Folders(v), NEW n \in Names, v.ents[d][n] = Absent,
         NEW i, v.ents[sd][sn] = i, i # Absent,
         (i \in Folders(v) /\ sd # d) => "rmdir" \notin calls /\ NotBelow(v, d, i),
         NEW r, r = Moved(v, sd, sn, d, n, i)
  PROVE  /\ r.vol.used = v.used
         /\ r.ok => Sound(r.vol) /\ r.vol.kind = v.kind /\ Unlost(v, r.vol, {})
         /\ r.ok => i \in Folders(v) \/ r.vol.links = v.links
<1>1. /\ v \in Volumes /\ Tree(v) /\ Links(v) /\ sd \in Inos /\ d \in Inos /\ i \in Inos
      /\ sn \in AllNames /\ n \in AllNames /\ sn # DotDot /\ n # DotDot
      /\ v.ents \in [Inos -> [AllNames -> Inos \cup {Absent}]]
  <2>1. v \in Volumes /\ Tree(v) /\ Links(v)
    BY DEF Sound
  <2>2. /\ sd \in Inos /\ d \in Inos
        /\ v.ents \in [Inos -> [AllNames -> Inos \cup {Absent}]]
    BY <2>1, TreeTypes
  <2>3. sn \in AllNames /\ n \in AllNames /\ sn # DotDot /\ n # DotDot
    BY Numbers
  <2>4. i \in Inos
    BY <2>2, <2>3
  <2> QED
    BY <2>1, <2>2, <2>3, <2>4
<1>2. PICK a : a = dir_add(v, d, n, i)
  OBVIOUS
<1>3. PICK b : b = dir_remove(a.vol, sd, sn)
  OBVIOUS
<1>4. Renames(v, a, b, sd, sn, d, n, i)
  BY <1>2, <1>3 DEF Renames
<1>5. /\ Same(v, a.vol)
      /\ a.ok => /\ b.ok /\ b.vol \in Volumes /\ Fits(b.vol) /\ Same(v, b.vol)
                 /\ b.vol.ents = [[v.ents EXCEPT ![d][n] = i] EXCEPT ![sd][sn] = Absent]
                 /\ Paid(b.vol)
  <2>1. HasRenamed(v, a, b, sd, sn, d, n, i)
    BY <1>1, <1>4, RenamesIs
  <2> QED
    BY <2>1 DEF HasRenamed
<1>6. CASE ~a.ok
  <2>1. r = a
    BY <1>2, <1>6 DEF Moved
  <2> QED
    BY <1>5, <1>6, <2>1 DEF Same
<1>7. CASE a.ok /\ ~(IsDir(v, i) /\ sd # d)
  <2>1. r = b
    BY <1>2, <1>3, <1>5, <1>7 DEF Moved
  <2>2. PICK w : w = b.vol
    OBVIOUS
  <2>3. /\ w \in Volumes /\ Fits(w)
        /\ w.used = v.used /\ w.kind = v.kind /\ w.links = v.links /\ w.orphans = v.orphans
        /\ w.ents = [[v.ents EXCEPT ![d][n] = i] EXCEPT ![sd][sn] = Absent]
    BY <1>5, <1>7, <2>2 DEF Same
  <2>4. i \notin Folders(v) \/ sd = d
    BY <1>7 DEF Folders, IsDir
  <2>5. v.ents[sd][sn] # Absent /\ v \in Volumes /\ w \in Volumes /\ i = v.ents[sd][sn]
    BY <1>1, <2>3
  <2>6. Tree(w) /\ Links(w)
    BY <1>1, <2>3, <2>4, <2>5, NameMoved
  <2>8. Paid(w)
    BY <1>5, <1>7, <2>2
  <2>9. Unlost(v, w, {})
    <3>1. \A x \in Inos, m \in Names : w.ents[x][m] = IF x = sd /\ m = sn THEN Absent
                                    ELSE IF x = d /\ m = n THEN i ELSE v.ents[x][m]
      BY <1>1, <2>3, Numbers
    <3>2. Folders(w) = Folders(v)
      BY <2>3 DEF Folders
    <3>3. NameMoves(v, w, sd, sn, d, n, i) /\ w \in Volumes
      BY <2>3, <3>1, <3>2 DEF NameMoves
    <3> QED
      BY <1>1, <3>3, UnlostMoved
  <2>7. Rooted(w)
    <3>1. Folders(w) = Folders(v) /\ Folders(v) \subseteq Inos /\ Rooted(v)
      BY <1>1, <2>3, TreeTypes DEF Folders, Sound
    <3>2. \A e \in Folders(w) : w.ents[e][DotDot] = v.ents[e][DotDot]
      BY <1>1, <2>3, <3>1, Numbers
    <3> QED
      BY <3>1, <3>2, RootedKept
  <2> QED
    BY <2>1, <2>2, <2>3, <2>6, <2>7, <2>8, <2>9 DEF Sound
<1>8. CASE a.ok /\ IsDir(v, i) /\ sd # d
  <2>1. PICK u : u = b.vol
    OBVIOUS
  <2>2. /\ u \in Volumes /\ Fits(u) /\ Same(v, u)
        /\ u.ents = [[v.ents EXCEPT ![d][n] = i] EXCEPT ![sd][sn] = Absent]
    BY <1>5, <1>8, <2>1
  <2>3. i \in v.used
    BY <1>1 DEF Tree
  <2>4. i \in Folders(v) /\ i \in Folders(u) /\ "rmdir" \notin calls /\ NotBelow(v, d, i)
    BY <1>8, <2>2, <2>3 DEF Folders, IsDir, Same
  <2>5. PICK c : c = set_dotdot(u, i, d)
    OBVIOUS
  <2>6. PICK e : e = [c EXCEPT !.links[sd] = Less(@)]
    OBVIOUS
  <2>7. PICK w : w = [e EXCEPT !.links[d] = @ + 1]
    OBVIOUS
  <2>8. Reparents(u, c, e, w, sd, d, i)
    BY <2>5, <2>6, <2>7 DEF Reparents
  <2>9. /\ w \in Volumes /\ Fits(w)
        /\ w.used = u.used /\ w.kind = u.kind /\ w.orphans = u.orphans
        /\ w.ents = [u.ents EXCEPT ![i][DotDot] = d]
        /\ \A x \in Inos : w.links[x] = IF x = d THEN u.links[x] + 1
                                         ELSE IF x = sd THEN Less(u.links[x]) ELSE u.links[x]
        /\ SamePaid(u, w)
    <3>1. HasNewParent(u, w, sd, d, i)
      BY <1>1, <1>8, <2>2, <2>4, <2>8, ReparentsIs
    <3> QED
      BY <3>1 DEF HasNewParent
  <2>10. MovesDir(v, w, sd, sn, d, n, i)
    <3>1. u.used = v.used /\ u.kind = v.kind /\ u.orphans = v.orphans /\ u.links = v.links
      BY <2>2 DEF Same
    <3>2. \A x \in Inos, m \in AllNames :
             u.ents[x][m] = IF x = sd /\ m = sn THEN Absent
                            ELSE IF x = d /\ m = n THEN i ELSE v.ents[x][m]
      BY <1>1, <2>2
    <3>3. u.ents \in [Inos -> [AllNames -> Inos \cup {Absent}]]
      BY <2>2 DEF Volumes
    <3>4. \A x \in Inos, m \in AllNames :
             w.ents[x][m] = IF x = i /\ m = DotDot THEN d ELSE u.ents[x][m]
      BY <1>1, <2>9, <3>3, Numbers
    <3>5. \A m \in Names : m \in AllNames /\ m # DotDot
      BY Numbers
    <3>6. \A x \in Inos, m \in Names :
             w.ents[x][m] = IF x = sd /\ m = sn THEN Absent
                            ELSE IF x = d /\ m = n THEN i ELSE v.ents[x][m]
      BY <3>2, <3>4, <3>5
    <3>7. \A x \in Inos : w.ents[x][DotDot] = IF x = i THEN d ELSE v.ents[x][DotDot]
      BY <1>1, <3>2, <3>4, Numbers
    <3>8. \A x \in Inos : w.links[x] = IF x = d THEN v.links[x] + 1
                                       ELSE IF x = sd THEN Less(v.links[x]) ELSE v.links[x]
      BY <2>9, <3>1
    <3> QED
      BY <2>9, <3>1, <3>6, <3>7, <3>8 DEF MovesDir
  <2>11. Tree(w) /\ Links(w)
    BY <1>1, <1>8, <2>4, <2>9, <2>10, DirMoved
  <2>12. r = Done(w)
    BY <1>2, <1>3, <1>5, <1>8, <2>1, <2>5, <2>6, <2>7, Zenon DEF Moved
  <2>13. r.vol = w /\ w.used = v.used /\ w.kind = v.kind
    BY <2>2, <2>9, <2>12 DEF Done, Same
  <2>14. Rooted(w)
    <3>1. Folders(w) = Folders(v) /\ Folders(v) \subseteq Inos /\ Rooted(v)
      BY <1>1, <2>13, TreeTypes DEF Folders, Sound
    <3>2. \A x \in Inos : w.ents[x][DotDot] = IF x = i THEN d ELSE v.ents[x][DotDot]
      BY <2>10 DEF MovesDir
    <3> QED
      BY <1>1, <2>4, <3>1, <3>2, RootedMoved
  <2>15. Paid(w)
    BY <1>5, <1>8, <2>1, <2>9, PaidSame
  <2>16. Unlost(v, w, {})
    <3>1. \A x \in Inos, m \in Names : w.ents[x][m] = IF x = sd /\ m = sn THEN Absent
                                    ELSE IF x = d /\ m = n THEN i ELSE v.ents[x][m]
      BY <2>10 DEF MovesDir
    <3>2. Folders(w) = Folders(v) /\ w.orphans = v.orphans
      BY <2>2, <2>9, <2>13 DEF Folders, Same
    <3>3. NameMoves(v, w, sd, sn, d, n, i) /\ w \in Volumes
      BY <2>9, <2>13, <3>1, <3>2 DEF NameMoves
    <3> QED
      BY <1>1, <3>3, UnlostMoved
  <2> QED
    BY <2>4, <2>9, <2>11, <2>13, <2>14, <2>15, <2>16 DEF Sound
<1> QED
  BY <1>6, <1>7, <1>8

-----------------------------------------------------------------------------
(* Descriptors.                                                            *)

\* Descriptors stay right as long as what they are of stays.
LEMMA HeldKept ==
  ASSUME NEW v, NEW w, NEW f, Held(v, f),
         \A k \in Slots :
            f[k].as # "Free" => f[k].ino \in w.used /\ w.kind[f[k].ino] = v.kind[f[k].ino]
  PROVE  Held(w, f)
<1> SUFFICES ASSUME NEW k \in Slots PROVE Holds(w, f[k])
  BY DEF Held
<1>1. Holds(v, f[k])
  BY DEF Held
<1>2. f[k].as \in {"Dir", "Cwd", "File", "Map"} => f[k].as # "Free"
  OBVIOUS
<1> QED
  BY <1>1, <1>2 DEF Holds, Folders

\* One descriptor is set.
LEMMA FdSet ==
  ASSUME NEW v, NEW f \in Tables, Held(v, f), NEW k \in Slots, NEW x \in Fds, Holds(v, x),
         NEW g, g = [f EXCEPT ![k] = x]
  PROVE  g \in Tables /\ Held(v, g)
BY DEF Tables, Held

LEMMA FdKept ==
  ASSUME NEW v, NEW f \in Tables, Kept(v, f), NEW k \in Slots, f[k].as = "Free", NEW x,
         "mmap" \notin calls => x.as # "Map",
         NEW g, g = [f EXCEPT ![k] = x]
  PROVE  Kept(v, g)
<1>1. \A j \in Slots \ {k} : g[j] = f[j]
  BY DEF Tables
<1>2. g[k] = x
  BY DEF Tables
<1>3. 0 \in Slots
  BY Ext2Assumption DEF Slots
<1>4. "mmap" \notin calls /\ NoMaps(f) => NoMaps(g)
  BY <1>1, <1>2, <1>3 DEF NoMaps
<1>5. \A i : is_open(f, i) => is_open(g, i)
  BY <1>1 DEF is_open
<1> QED
  BY <1>4, <1>5, KeptFds

\* The first free descriptor.
LEMMA FreeFd ==
  ASSUME NEW f, FreeFds(f) # {}
  PROVE  Min(FreeFds(f)) \in Slots /\ f[Min(FreeFds(f))].as = "Free"
<1>1. Slots \subseteq Nat
  BY Ext2Assumption DEF Slots
<1>2. Min(FreeFds(f)) \in FreeFds(f)
  BY <1>1, LeastNumber DEF FreeFds
<1> QED
  BY <1>2 DEF FreeFds

LEMMA Installed ==
  ASSUME NEW v, NEW f \in Tables, Held(v, f), NEW as \in {"File", "Dir"}, NEW i \in Inos,
         i \in v.used, v.kind[i] = IF as = "Dir" THEN "dir" ELSE "file"
  PROVE  /\ install(f, as, i) \in Tables /\ Held(v, install(f, as, i))
         /\ Kept(v, f) => Kept(v, install(f, as, i))
<1>1. CASE FreeFds(f) = {}
  BY <1>1 DEF install
<1>2. CASE FreeFds(f) # {}
  <2>1. PICK k \in Slots : k = Min(FreeFds(f))
    BY <1>2, FreeFd
  <2>2. PICK x : x = [as |-> as, ino |-> i, stale |-> FALSE]
    OBVIOUS
  <2>3. x \in Fds /\ Holds(v, x)
    BY <2>2 DEF Fds, Holds, Folders
  <2>4. install(f, as, i) = [f EXCEPT ![k] = x]
    BY <1>2, <2>1, <2>2 DEF install
  <2>5. f[k].as = "Free" /\ x.as # "Map"
    BY <1>2, <2>1, <2>2, FreeFd
  <2>6. PICK g : g = [f EXCEPT ![k] = x]
    OBVIOUS
  <2>7. g \in Tables /\ Held(v, g)
    BY <2>3, <2>6, FdSet
  <2>8. Kept(v, f) => Kept(v, g)
    BY <2>5, <2>6, FdKept
  <2> QED
    BY <2>4, <2>6, <2>7, <2>8
<1> QED
  BY <1>1, <1>2

\* A call may start from directories in use.
LEMMA StartIs ==
  ASSUME Good(vol, fds), NEW d, Start(d)
  PROVE  d \in Folders(vol) /\ d \in Inos
<1>1. vol \in Volumes /\ Tree(vol) /\ Held(vol, fds)
  BY DEF Good, Sound
<1>2. d \in Folders(vol)
  BY <1>1, TreeTypes DEF Start, Starts, Held, Holds
<1> QED
  BY <1>1, <1>2, TreeTypes

\* What a call has to leave: all in order, or it stopped half way and has
\* freed nothing that is open.
Leaves(r, f) ==
    IF r.ok THEN Sound(r.vol) /\ f \in Tables /\ Held(r.vol, f) /\ Kept(r.vol, f)
    ELSE f = fds /\ \A i \in vol.used \ r.vol.used : ~is_open(fds, i)

\* No volume is read through a step: only the calls matter.
LEMMA SoundNext ==
  ASSUME NEW v, Sound(v), UNCHANGED calls, vol' = v
  PROVE  Sound(vol)'
<1>1. (vol \in Volumes)'
  BY DEF Sound, Volumes, Kinds, CacheSlots
<1>2. Tree(vol)'
  BY DEF Sound, Tree, Folders
<1>3. Links(vol)'
  BY DEF Sound, Links, Folders, Named, Kids
<1>4. Fits(vol)'
  BY DEF Sound, Fits, Hit, Folders
<1>5. Rooted(vol)'
  BY DEF Sound, Rooted, Folders
<1>6. Paid(vol)'
  BY DEF Sound, Paid
<1> QED
  BY <1>1, <1>2, <1>3, <1>4, <1>5, <1>6 DEF Sound

LEMMA KeptNext ==
  ASSUME NEW v, NEW f, Kept(v, f), UNCHANGED calls, vol' = v, fds' = f
  PROVE  Kept(vol, fds)'
BY DEF Kept, NoMaps, Orphaned, Nameless, Folders, Named, is_open

LEMMA EndsRight ==
  ASSUME NamesInv, ~failed, NEW r, NEW f, Ends(r, f), Leaves(r, f)
  PROVE  NamesInv'
<1>1. calls' \in Programs /\ UNCHANGED calls /\ vol' = r.vol /\ failed' = (failed \/ ~r.ok)
  BY DEF NamesInv, Ends, Becomes
<1>2. Good(vol, fds) /\ OpenKept
  BY DEF NamesInv
<1>3. fds' = [k \in Slots |->
                [f[k] EXCEPT !.stale = @ \/ (f[k].as # "Free" /\ f[k].ino \in vol.used \ r.vol.used)]]
  BY DEF Ends, Becomes
<1>4. CASE r.ok
  <2>1. Sound(r.vol) /\ f \in Tables /\ Held(r.vol, f) /\ Kept(r.vol, f)
    BY <1>4 DEF Leaves
  <2>2. \A k \in Slots : f[k] \in Fds /\ Holds(r.vol, f[k])
    BY <2>1 DEF Tables, Held
  <2>3. \A k \in Slots :
          [f[k] EXCEPT !.stale = @ \/ (f[k].as # "Free" /\ f[k].ino \in vol.used \ r.vol.used)] = f[k]
    <3> SUFFICES ASSUME NEW k \in Slots
                 PROVE  [f[k] EXCEPT !.stale =
                           @ \/ (f[k].as # "Free" /\ f[k].ino \in vol.used \ r.vol.used)] = f[k]
      OBVIOUS
    <3>1. PICK x \in Fds : x = f[k]
      BY <2>2
    <3>2. x.stale = FALSE /\ (x.as # "Free" => x.ino \in r.vol.used)
      BY <2>2, <3>1 DEF Holds, Fds
    <3>3. (x.stale \/ (x.as # "Free" /\ x.ino \in vol.used \ r.vol.used)) = FALSE
      BY <3>2
    <3>4. [x EXCEPT !.stale = FALSE] = x
      BY <3>2 DEF Fds
    <3> QED
      BY <3>1, <3>3, <3>4
  <2>4. fds' = f
    BY <1>3, <2>1, <2>3 DEF Tables
  <2>5. Sound(vol)'
    BY <1>1, <2>1, SoundNext
  <2>6. (fds \in Tables)' /\ Held(vol, fds)'
    BY <1>1, <2>1, <2>4 DEF Tables, Fds, Held, Holds, Folders
  <2>7. OpenKept'
    BY <2>2, <2>4 DEF OpenKept, Holds
  <2>9. Kept(vol, fds)'
    BY <1>1, <2>1, <2>4, KeptNext
  <2>8. Good(vol, fds)'
    BY <2>5, <2>6, <2>9 DEF Good
  <2> QED
    BY <1>1, <2>7, <2>8 DEF NamesInv
<1>5. CASE ~r.ok
  <2>1. f = fds /\ \A i \in vol.used \ r.vol.used : ~is_open(fds, i)
    BY <1>5 DEF Leaves
  <2>2. OpenKept'
    <3> SUFFICES ASSUME NEW k \in Slots, fds[k].as' \in {"File", "Map"} PROVE ~fds[k].stale'
      BY DEF OpenKept
    <3>1. PICK x \in Fds : x = fds[k]
      BY <1>2 DEF Good, Tables
    <3>2. fds[k]' = [x EXCEPT !.stale = @ \/ (x.as # "Free" /\ x.ino \in vol.used \ r.vol.used)]
      BY <1>3, <2>1, <3>1
    <3>3. fds[k].as' = x.as
      BY <3>2 DEF Fds
    <3>4. is_open(fds, x.ino) /\ ~x.stale
      BY <1>2, <3>1, <3>3 DEF is_open, OpenKept
    <3>5. x.ino \notin vol.used \ r.vol.used
      BY <2>1, <3>4
    <3> QED
      BY <3>2, <3>4, <3>5 DEF Fds
  <2>3. failed' = TRUE
    BY <1>1, <1>5
  <2> QED
    BY <1>1, <2>2, <2>3 DEF NamesInv
<1> QED
  BY <1>4, <1>5

-----------------------------------------------------------------------------
(* The calls.                                                              *)

\* What a call starts with.
Ready == NamesInv /\ ~failed

LEMMA ReadyIs ==
  ASSUME Ready
  PROVE  /\ Good(vol, fds) /\ Sound(vol) /\ vol \in Volumes /\ Fits(vol) /\ Tree(vol) /\ Links(vol)
         /\ fds \in Tables /\ Held(vol, fds) /\ NamesInv /\ ~failed /\ calls \in Programs
         /\ Kept(vol, fds)
BY DEF Ready, NamesInv, Good, Sound

\* A name, or ".." where it may be asked for, is looked up in a directory.
LEMMA FoundIs ==
  ASSUME Ready, NEW d, Start(d), NEW n \in AllNames, n = DotDot => "rmdir" \notin calls,
         NEW w, w = Looked(vol, d, n)
  PROVE  /\ d \in Folders(vol) /\ d \in Inos /\ Found(vol, d, n) = vol.ents[d][n]
         /\ Sound(w) /\ Same(vol, w) /\ w.ents = vol.ents /\ w.free = vol.free
         /\ Folders(w) = Folders(vol) /\ Held(w, fds) /\ Kept(w, fds)
         /\ Found(vol, d, n) # Absent => Found(vol, d, n) \in vol.used
<1>1. d \in Folders(vol) /\ d \in Inos
  BY ReadyIs, StartIs
<1>2. /\ Found(vol, d, n) = vol.ents[d][n]
      /\ Sound(w) /\ Same(vol, w) /\ w.ents = vol.ents /\ w.free = vol.free
      /\ Folders(w) = Folders(vol)
  BY <1>1, ReadyIs, LookedSound
<1>3. Held(w, fds)
  <2>1. \A k \in Slots :
           fds[k].as # "Free" => fds[k].ino \in w.used /\ w.kind[fds[k].ino] = vol.kind[fds[k].ino]
    BY <1>2, ReadyIs DEF Same, Held, Holds
  <2> QED
    BY <2>1, ReadyIs, HeldKept
<1>4. Found(vol, d, n) # Absent => Found(vol, d, n) \in vol.used
  <2>1. CASE n \in Names
    BY <1>1, <1>2, <2>1, ReadyIs DEF Tree
  <2>2. CASE n = DotDot
    BY <1>1, <1>2, <2>2, ReadyIs, TreeTypes
  <2> QED
    BY <2>1, <2>2 DEF AllNames
<1>5. Kept(w, fds)
  BY <1>2, ReadyIs, UnlostAlike, KeptSame
<1> QED
  BY <1>1, <1>2, <1>3, <1>4, <1>5

\* Programs that ask for ".." remove no directories.
LEMMA DotDotIs ==
  ASSUME Tidy, Ready, NEW n, n = DotDot => May("dotdot")
  PROVE  n = DotDot => "rmdir" \notin calls
BY ReadyIs DEF Tidy, May

LEMMA LookupStep ==
  ASSUME Tidy, Ready, NEW d, NEW n \in AllNames, lookup(d, n)
  PROVE  NamesInv'
<1>1. Start(d) /\ (n = DotDot => May("dotdot"))
  BY DEF lookup
<1>2. PICK w : w = Looked(vol, d, n)
  OBVIOUS
<1>3. Sound(w) /\ Held(w, fds) /\ Kept(w, fds)
  BY <1>1, <1>2, DotDotIs, FoundIs
<1>4. PICK r : r = Done(w)
  OBVIOUS
<1>5. r.ok /\ r.vol = w
  BY <1>4 DEF Done
<1>6. Leaves(r, fds)
  BY <1>3, <1>5, ReadyIs DEF Leaves
<1>7. Ends(r, fds)
  BY <1>2, <1>4 DEF lookup
<1> QED
  BY <1>6, <1>7, ReadyIs, EndsRight

LEMMA OpenStep ==
  ASSUME Tidy, Ready, NEW d, NEW n \in Names, open(d, n)
  PROVE  NamesInv'
<1>1. Start(d) /\ n \in AllNames /\ (n = DotDot => "rmdir" \notin calls)
  BY Numbers DEF open
<1>2. PICK w : w = Looked(vol, d, n)
  OBVIOUS
<1>3. PICK i : i = Found(vol, d, n)
  OBVIOUS
<1>4. /\ Sound(w) /\ Held(w, fds) /\ Kept(w, fds) /\ Same(vol, w)
      /\ i # Absent => i \in vol.used
  BY <1>1, <1>2, <1>3, FoundIs
<1>5. i # Absent /\ vol.kind[i] \in {"file", "dir"}
  BY <1>3 DEF open
<1>6. PICK as : as = IF IsDir(vol, i) THEN "Dir" ELSE "File"
  OBVIOUS
<1>7. /\ as \in {"File", "Dir"} /\ i \in Inos /\ i \in w.used
      /\ w.kind[i] = IF as = "Dir" THEN "dir" ELSE "file"
  BY <1>4, <1>5, <1>6, ReadyIs DEF IsDir, Same, Volumes
<1>8. PICK f : f = install(fds, as, i)
  OBVIOUS
<1>9. f \in Tables /\ Held(w, f) /\ Kept(w, f)
  BY <1>4, <1>7, <1>8, ReadyIs, Installed
<1>10. PICK r : r = Done(w)
  OBVIOUS
<1>11. r.ok /\ r.vol = w
  BY <1>10 DEF Done
<1>12. Leaves(r, f)
  BY <1>4, <1>9, <1>11 DEF Leaves
<1>13. Ends(r, f)
  BY <1>2, <1>3, <1>6, <1>8, <1>10 DEF open
<1> QED
  BY <1>12, <1>13, ReadyIs, EndsRight

LEMMA ChdirStep ==
  ASSUME Tidy, Ready, NEW d, NEW n \in AllNames, chdir(d, n)
  PROVE  NamesInv'
<1>1. Start(d) /\ (n = DotDot => May("dotdot"))
  BY DEF chdir
<1>2. PICK w : w = Looked(vol, d, n)
  OBVIOUS
<1>3. PICK i : i = Found(vol, d, n)
  OBVIOUS
<1>4. /\ Sound(w) /\ Held(w, fds) /\ Kept(w, fds) /\ Same(vol, w)
      /\ i # Absent => i \in vol.used
  BY <1>1, <1>2, <1>3, DotDotIs, FoundIs
<1>5. i # Absent /\ IsDir(vol, i)
  BY <1>3 DEF chdir
<1>6. i \in Inos /\ i \in w.used /\ w.kind[i] = "dir"
  BY <1>4, <1>5, ReadyIs DEF IsDir, Same, Volumes
<1>7. PICK x : x = [as |-> "Cwd", ino |-> i, stale |-> FALSE]
  OBVIOUS
<1>8. x \in Fds /\ Holds(w, x)
  BY <1>6, <1>7 DEF Fds, Holds, Folders
<1>9. PICK f : f = [fds EXCEPT ![0] = x]
  OBVIOUS
<1>10. 0 \in Slots
  BY Ext2Assumption DEF Slots
<1>11. f \in Tables /\ Held(w, f)
  BY <1>4, <1>8, <1>9, <1>10, ReadyIs, FdSet
<1>12. PICK r : r = Done(w)
  OBVIOUS
<1>13. r.ok /\ r.vol = w
  BY <1>12 DEF Done
<1>16. Kept(w, f)
  <2>1. \A j \in Slots \ {0} : f[j] = fds[j]
    BY <1>9, ReadyIs DEF Tables
  <2>2. f[0] = x
    BY <1>9, <1>10, ReadyIs DEF Tables
  <2>3. "mmap" \notin calls /\ NoMaps(fds) => NoMaps(f)
    BY <1>7, <2>1, <2>2 DEF NoMaps
  <2>4. NoMaps(fds) => \A j : is_open(fds, j) => is_open(f, j)
    BY <2>1 DEF NoMaps, is_open
  <2> QED
    BY <1>4, <2>3, <2>4 DEF Kept, Orphaned
<1>14. Leaves(r, f)
  BY <1>4, <1>11, <1>13, <1>16 DEF Leaves
<1>15. Ends(r, f)
  BY <1>2, <1>3, <1>7, <1>9, <1>12 DEF chdir
<1> QED
  BY <1>14, <1>15, ReadyIs, EndsRight

\* An inode is made and gets its name.
MadeIs(i, kind, r) ==
    /\ i \in Inos \ vol.used /\ r.vol.used = vol.used \cup {i}
    /\ r.ok => /\ Sound(r.vol) /\ r.vol.kind = [vol.kind EXCEPT ![i] = kind]
               /\ Held(r.vol, fds) /\ Kept(r.vol, fds)

\* With one inode more all descriptors stay right.
HasMore(w, i, kind) == w.used = vol.used \cup {i} /\ w.kind = [vol.kind EXCEPT ![i] = kind]

LEMMA HeldMore ==
  ASSUME Ready, NEW i \in Inos \ vol.used, NEW kind, NEW w, HasMore(w, i, kind)
  PROVE  Held(w, fds)
<1>1. \A k \in Slots :
         fds[k].as # "Free" => fds[k].ino \in w.used /\ w.kind[fds[k].ino] = vol.kind[fds[k].ino]
  <2>1. vol.kind \in [Inos -> Kinds] /\ vol.used \subseteq Inos
    BY ReadyIs, TreeTypes
  <2>2. \A k \in Slots : fds[k].as # "Free" => fds[k].ino \in vol.used
    BY ReadyIs DEF Held, Holds
  <2> QED
    BY <2>1, <2>2 DEF HasMore
<1>2. Held(vol, fds)
  BY ReadyIs
<1> QED
  BY <1>1, <1>2, HeldKept

\* The volume on which an inode is made.
LEMMA InodeMade ==
  ASSUME Ready, NEW d, NEW n \in Names, Makes(d, n), NEW kind \in Kinds,
         NEW v, v = Looked(vol, d, n), NEW a, a = new_inode(v, kind), NEW i, i = FreeInode(vol)
  PROVE  /\ Sound(v) /\ Same(vol, v) /\ d \in Folders(v) /\ v.ents[d][n] = Absent /\ v.used # Inos
         /\ i = FreeInode(v) /\ i \in Inos \ v.used
         /\ a \in Volumes /\ Fits(a) /\ HasInode(v, a, i, kind) /\ a.free = v.free
         /\ Paid(a) /\ Kept(v, fds)
<1>1. Start(d) /\ n \in AllNames /\ (n = DotDot => "rmdir" \notin calls)
      /\ Found(vol, d, n) = Absent /\ vol.used # Inos
  BY Numbers DEF Makes
<1>2. /\ Sound(v) /\ Same(vol, v) /\ d \in Folders(v)
      /\ v.ents = vol.ents /\ v.ents[d][n] = Absent /\ Kept(v, fds)
  BY <1>1, FoundIs
<1>3. v.used # Inos /\ i = FreeInode(v)
  BY <1>1, <1>2 DEF Same, FreeInode
<1>4. v \in Volumes /\ Fits(v) /\ Tree(v)
  BY <1>2 DEF Sound
<1>5. i \in Inos \ v.used
  BY <1>3, <1>4, NewInodeIs
<1>6. a \in Volumes /\ Fits(a) /\ a.free = v.free
  BY <1>3, <1>4, NewInodeIs
<1>7. HasInode(v, a, i, kind)
  <2>1. FreeInode(v) = i /\ new_inode(v, kind) = a
    BY <1>3
  <2>2. /\ new_inode(v, kind).used = v.used \cup {FreeInode(v)}
        /\ new_inode(v, kind).kind = [v.kind EXCEPT ![FreeInode(v)] = kind]
        /\ new_inode(v, kind).links = [v.links EXCEPT ![FreeInode(v)] = 1]
        /\ new_inode(v, kind).orphans = v.orphans
        /\ new_inode(v, kind).ents = v.ents
    BY <1>3, <1>4, NewInodeIs
  <2> QED
    BY <2>1, <2>2 DEF HasInode
<1>8. Paid(a)
  <2>1. new_inode(v, kind).blocks = [v.blocks EXCEPT ![FreeInode(v)] = 0]
    BY <1>3, <1>4, NewInodeIs
  <2>2. NewPaid(v, a, i)
    BY <1>3, <1>6, <1>7, <2>1 DEF HasInode, NewPaid
  <2> QED
    BY <1>2, <1>4, <1>5, <1>6, <2>2, PaidNew DEF Sound
<1> QED
  BY <1>2, <1>3, <1>5, <1>6, <1>7, <1>8

LEMMA MadeRight ==
  ASSUME Ready, NEW d, NEW n \in Names, Makes(d, n), NEW kind \in Kinds, kind # "dir",
         NEW r, r = Made(d, n, kind)
  PROVE  MadeIs(FreeInode(vol), kind, r)
<1>1. PICK i : i = FreeInode(vol)
  OBVIOUS
<1>2. PICK v : v = Looked(vol, d, n)
  OBVIOUS
<1>3. PICK a : a = new_inode(v, kind)
  OBVIOUS
<1>4. /\ Sound(v) /\ Same(vol, v) /\ d \in Folders(v) /\ v.ents[d][n] = Absent
      /\ i \in Inos \ v.used /\ a \in Volumes /\ Fits(a) /\ HasInode(v, a, i, kind)
      /\ Paid(a) /\ Kept(v, fds)
  BY <1>1, <1>2, <1>3, InodeMade
<1>5. r = dir_add(a, d, n, i)
  BY <1>1, <1>2, <1>3 DEF Made
<1>6. /\ r.vol.used = v.used \cup {i}
      /\ r.ok => Sound(r.vol) /\ KindSet(v, r.vol, i, kind) /\ Unlost(v, r.vol, {})
  BY <1>4, <1>5, MadeSound
<1>7. v.used = vol.used /\ v.kind = vol.kind
  BY <1>4 DEF Same
<1>8. r.ok => Held(r.vol, fds)
  BY <1>4, <1>6, <1>7, HeldMore DEF HasMore, KindSet
<1>9. r.ok => Kept(r.vol, fds)
  BY <1>4, <1>6, KeptSame
<1> QED
  BY <1>1, <1>4, <1>6, <1>7, <1>8, <1>9 DEF MadeIs, KindSet

LEMMA MknodStep ==
  ASSUME Ready, NEW d, NEW n \in Names, mknod(d, n)
  PROVE  NamesInv'
<1>1. PICK r : r = Made(d, n, "other")
  OBVIOUS
<1>2. Makes(d, n) /\ Ends(r, fds)
  BY <1>1 DEF mknod
<1>3. MadeIs(FreeInode(vol), "other", r)
  BY <1>1, <1>2, MadeRight DEF Kinds
<1>4. Leaves(r, fds)
  BY <1>3, ReadyIs DEF MadeIs, Leaves
<1> QED
  BY <1>2, <1>4, ReadyIs, EndsRight

LEMMA CreateStep ==
  ASSUME Ready, NEW d, NEW n \in Names, create(d, n)
  PROVE  NamesInv'
<1>1. PICK r : r = Made(d, n, "file")
  OBVIOUS
<1>2. PICK i : i = FreeInode(vol)
  OBVIOUS
<1>3. PICK f : f = IF r.ok THEN install(fds, "File", i) ELSE fds
  OBVIOUS
<1>4. Makes(d, n) /\ Ends(r, f)
  BY <1>1, <1>2, <1>3 DEF create
<1>5. MadeIs(i, "file", r)
  BY <1>1, <1>2, <1>4, MadeRight DEF Kinds
<1>6. CASE r.ok
  <2>1. f = install(fds, "File", i)
    BY <1>3, <1>6
  <2>2. /\ Held(r.vol, fds) /\ Kept(r.vol, fds)
        /\ i \in Inos /\ i \in r.vol.used /\ r.vol.kind[i] = "file"
    BY <1>5, <1>6, ReadyIs DEF MadeIs, Volumes
  <2>3. f \in Tables /\ Held(r.vol, f) /\ Kept(r.vol, f)
    BY <2>1, <2>2, ReadyIs, Installed
  <2>4. Leaves(r, f)
    BY <1>5, <1>6, <2>3 DEF MadeIs, Leaves
  <2> QED
    BY <1>4, <2>4, ReadyIs, EndsRight
<1>7. CASE ~r.ok
  <2>1. Leaves(r, f)
    BY <1>3, <1>5, <1>7 DEF MadeIs, Leaves
  <2> QED
    BY <1>4, <2>1, ReadyIs, EndsRight
<1> QED
  BY <1>6, <1>7

LEMMA MkdirStep ==
  ASSUME Ready, NEW d, NEW n \in Names, mkdir(d, n)
  PROVE  NamesInv'
<1>1. PICK i : i = FreeInode(vol)
  OBVIOUS
<1>2. PICK v : v = Looked(vol, d, n)
  OBVIOUS
<1>3. PICK a : a = new_inode(v, "dir")
  OBVIOUS
<1>4. PICK b : b = [AddBlock(a, i) EXCEPT !.links[i] = 2, !.ents[i][DotDot] = d]
  OBVIOUS
<1>5. PICK r : r = dir_add(b, d, n, i)
  OBVIOUS
<1>6. PICK w : w = [r.vol EXCEPT !.links[d] = @ + 1]
  OBVIOUS
<1>7. PICK x : x = CASE a.free = 0 -> Stopped(a) [] a.free > 0 /\ ~r.ok -> r [] OTHER -> Done(w)
  OBVIOUS
<1>8. Makes(d, n) /\ Ends(x, fds)
  BY <1>1, <1>2, <1>3, <1>4, <1>5, <1>6, <1>7, Zenon DEF mkdir
<1>9. /\ Sound(v) /\ Same(vol, v) /\ d \in Folders(v) /\ v.ents[d][n] = Absent /\ v.used # Inos
      /\ i = FreeInode(v) /\ i \in Inos \ v.used /\ a \in Volumes /\ HasInode(v, a, i, "dir")
      /\ Kept(v, fds)
  BY <1>1, <1>2, <1>3, <1>8, InodeMade DEF Kinds
<1>10. v.used = vol.used /\ v.kind = vol.kind
  BY <1>9 DEF Same
<1>11. a.free \in Nat
  BY <1>9 DEF Volumes
<1>12. CASE a.free = 0
  <2>1. x.vol = a /\ ~x.ok
    BY <1>7, <1>12 DEF Stopped
  <2>2. vol.used \subseteq x.vol.used
    BY <1>9, <1>10, <2>1 DEF HasInode
  <2>3. Leaves(x, fds)
    BY <2>1, <2>2 DEF Leaves
  <2> QED
    BY <1>8, <2>3, ReadyIs, EndsRight
<1>13. CASE a.free # 0
  <2>1. MakesDir(v, d, n, i, a, b, r, w)
    BY <1>3, <1>4, <1>5, <1>6, <1>9 DEF MakesDir
  <2>2. /\ r.vol.used = v.used \cup {i} /\ w.used = v.used \cup {i}
        /\ r.ok => Sound(w) /\ KindSet(v, w, i, "dir") /\ Unlost(v, w, {})
    BY <1>9, <1>13, <2>1, MkdirSound
  <2>3. CASE r.ok
    <3>1. x = Done(w)
      BY <1>7, <1>13, <2>3
    <3>2. x.ok /\ x.vol = w
      BY <3>1 DEF Done
    <3>3. Held(w, fds)
      BY <1>9, <1>10, <2>2, <2>3, HeldMore DEF HasMore, KindSet
    <3>5. Kept(w, fds)
      BY <1>9, <2>2, <2>3, KeptSame
    <3>4. Leaves(x, fds)
      BY <2>2, <2>3, <3>2, <3>3, <3>5, ReadyIs DEF Leaves
    <3> QED
      BY <1>8, <3>4, ReadyIs, EndsRight
  <2>4. CASE ~r.ok
    <3>1. x = r
      BY <1>7, <1>11, <1>13, <2>4
    <3>2. vol.used \subseteq x.vol.used
      BY <1>10, <2>2, <3>1
    <3>3. Leaves(x, fds)
      BY <2>4, <3>1, <3>2 DEF Leaves
    <3> QED
      BY <1>8, <3>3, ReadyIs, EndsRight
  <2> QED
    BY <2>3, <2>4
<1> QED
  BY <1>12, <1>13

LEMMA SymlinkStep ==
  ASSUME Ready, NEW d, NEW n \in Names, symlink(d, n)
  PROVE  NamesInv'
<1>1. PICK i : i = FreeInode(vol)
  OBVIOUS
<1>2. PICK v : v = Looked(vol, d, n)
  OBVIOUS
<1>3. PICK a : a = new_inode(v, "other")
  OBVIOUS
<1>4. PICK b : b = AddBlock(a, i)
  OBVIOUS
<1>5. PICK r : r = dir_add(b, d, n, i)
  OBVIOUS
<1>6. PICK x : x = IF a.free = 0 THEN Stopped(a) ELSE r
  OBVIOUS
<1>7. Makes(d, n) /\ Ends(x, fds)
  BY <1>1, <1>2, <1>3, <1>4, <1>5, <1>6, Zenon DEF symlink
<1>8. /\ Sound(v) /\ Same(vol, v) /\ d \in Folders(v) /\ v.ents[d][n] = Absent
      /\ i \in Inos \ v.used /\ a \in Volumes /\ Fits(a) /\ HasInode(v, a, i, "other")
      /\ Paid(a) /\ Kept(v, fds)
  BY <1>1, <1>2, <1>3, <1>7, InodeMade DEF Kinds
<1>9. v.used = vol.used /\ v.kind = vol.kind
  BY <1>8 DEF Same
<1>10. CASE a.free = 0
  <2>1. x.vol = a /\ ~x.ok
    BY <1>6, <1>10 DEF Stopped
  <2>2. vol.used \subseteq x.vol.used
    BY <1>8, <1>9, <2>1 DEF HasInode
  <2>3. Leaves(x, fds)
    BY <2>1, <2>2 DEF Leaves
  <2> QED
    BY <1>7, <2>3, ReadyIs, EndsRight
<1>11. CASE a.free # 0
  <2>1. x = r
    BY <1>6, <1>11
  <2>2. /\ b \in Volumes /\ Fits(b) /\ Same(a, b) /\ b.ents = a.ents
        /\ b.blocks = [a.blocks EXCEPT ![i] = @ + 1] /\ b.free = a.free - 1
    BY <1>4, <1>8, <1>11, AddBlockIs
  <2>7. Paid(b)
    <3>1. MorePaid(a, b, i) /\ i \in a.used
      BY <1>8, <2>2 DEF MorePaid, Same, HasInode
    <3> QED
      BY <1>8, <2>2, <3>1, PaidMore
  <2>3. HasInode(v, b, i, "other")
    BY <1>8, <2>2 DEF HasInode, Same
  <2>4. /\ r.vol.used = v.used \cup {i}
        /\ r.ok => Sound(r.vol) /\ KindSet(v, r.vol, i, "other") /\ Unlost(v, r.vol, {})
    BY <1>5, <1>8, <2>2, <2>3, <2>7, MadeSound DEF Kinds
  <2>5. r.ok => Held(r.vol, fds)
    BY <1>8, <1>9, <2>4, HeldMore DEF HasMore, KindSet
  <2>8. r.ok => Kept(r.vol, fds)
    BY <1>8, <2>4, KeptSame
  <2>6. Leaves(x, fds)
    BY <1>9, <2>1, <2>4, <2>5, <2>8, ReadyIs DEF Leaves
  <2> QED
    BY <1>7, <2>6, ReadyIs, EndsRight
<1> QED
  BY <1>10, <1>11

\* A volume that differs in the cache and what it says of it.
Like(v) == Sound(v) /\ Same(vol, v) /\ v.ents = vol.ents

LEMMA LikeIs ==
  ASSUME Ready, NEW v, Like(v)
  PROVE  /\ Sound(v) /\ v.used = vol.used /\ v.kind = vol.kind /\ v.links = vol.links
         /\ v.ents = vol.ents /\ Folders(v) = Folders(vol) /\ Held(v, fds) /\ Kept(v, fds)
<1>1. \A k \in Slots :
         fds[k].as # "Free" => fds[k].ino \in v.used /\ v.kind[fds[k].ino] = vol.kind[fds[k].ino]
  BY ReadyIs DEF Like, Same, Held, Holds
<1>2. Held(v, fds)
  BY <1>1, ReadyIs, HeldKept
<1>3. Kept(v, fds)
  BY ReadyIs, UnlostAlike, KeptSame DEF Like
<1> QED
  BY <1>2, <1>3 DEF Like, Same, Folders

LEMMA LookedLike ==
  ASSUME Ready, NEW v, Like(v), NEW d \in Folders(vol), NEW n \in AllNames,
         n = DotDot => "rmdir" \notin calls, NEW w, w = Looked(v, d, n)
  PROVE  Like(w) /\ Found(v, d, n) = vol.ents[d][n]
<1>1. Sound(v) /\ d \in Inos /\ d \in Folders(v) /\ Same(vol, v) /\ v.ents = vol.ents
  BY ReadyIs, TreeTypes, LikeIs DEF Like
<1>2. Sound(w) /\ Same(v, w) /\ w.ents = v.ents /\ Found(v, d, n) = v.ents[d][n]
  BY <1>1, LookedSound
<1> QED
  BY <1>1, <1>2 DEF Like, Same

LEMMA LikeSelf ==
  ASSUME Ready
  PROVE  Like(vol)
BY ReadyIs DEF Like, Same

LEMMA LinkStep ==
  ASSUME Ready, NEW sd, NEW sn \in Names, NEW d, NEW n \in Names, link(sd, sn, d, n)
  PROVE  NamesInv'
<1>1. PICK i : i = Found(vol, sd, sn)
  OBVIOUS
<1>2. PICK b : b = Looked(vol, sd, sn)
  OBVIOUS
<1>3. PICK a : a = Looked(b, d, n)
  OBVIOUS
<1>4. PICK r : r = dir_add([a EXCEPT !.links[i] = @ + 1], d, n, i)
  OBVIOUS
<1>5. /\ Start(sd) /\ Start(d) /\ i # Absent /\ ~IsDir(vol, i) /\ Found(a, d, n) = Absent
      /\ Ends(r, fds)
  BY <1>1, <1>2, <1>3, <1>4, Zenon DEF link
<1>6. /\ sd \in Folders(vol) /\ d \in Folders(vol) /\ sd \in Inos /\ d \in Inos
      /\ sn \in AllNames /\ n \in AllNames /\ sn # DotDot /\ n # DotDot
  BY <1>5, ReadyIs, StartIs, Numbers
<1>7. Like(b) /\ i = vol.ents[sd][sn]
  BY <1>1, <1>2, <1>6, LikeSelf, LookedLike
<1>8. Like(a)
  BY <1>3, <1>6, <1>7, LookedLike
<1>9. vol.ents[d][n] = Absent
  BY <1>5, <1>6, <1>8, LookedLike
<1>10. /\ Sound(a) /\ a.used = vol.used /\ a.kind = vol.kind /\ a.ents = vol.ents
       /\ Folders(a) = Folders(vol) /\ Kept(a, fds)
  BY <1>8, LikeIs
<1>11. i \in a.used \ Folders(a)
  BY <1>5, <1>6, <1>7, <1>10, ReadyIs DEF Tree, Folders, IsDir
<1>12. <<sd, sn>> \in Named(a, i)
  BY <1>6, <1>7, <1>10 DEF Named
<1>13. /\ r.vol.used = a.used
       /\ r.ok => Sound(r.vol) /\ r.vol.kind = a.kind /\ Unlost(a, r.vol, {})
  BY <1>4, <1>6, <1>9, <1>10, <1>11, <1>12, LinkSound
<1>14. r.ok => Held(r.vol, fds)
  <2>1. ASSUME r.ok
        PROVE  \A k \in Slots : fds[k].as # "Free" =>
                  fds[k].ino \in r.vol.used /\ r.vol.kind[fds[k].ino] = vol.kind[fds[k].ino]
    BY <1>10, <1>13, <2>1, ReadyIs DEF Held, Holds
  <2> QED
    BY <2>1, ReadyIs, HeldKept
<1>16. r.ok => Kept(r.vol, fds)
  BY <1>10, <1>13, KeptSame
<1>15. Leaves(r, fds)
  BY <1>10, <1>13, <1>14, <1>16, ReadyIs DEF Leaves
<1> QED
  BY <1>5, <1>15, ReadyIs, EndsRight

\* A file that nobody has open is freed: descriptors stay right.
LEMMA HeldFile ==
  ASSUME Ready, NEW i \in vol.used \ Folders(vol), NEW w, w.kind = vol.kind,
         w.used = vol.used \/ (w.used = vol.used \ {i} /\ ~is_open(fds, i))
  PROVE  Held(w, fds) /\ \A j \in vol.used \ w.used : ~is_open(fds, j)
<1>1. ASSUME NEW k \in Slots, fds[k].as # "Free"
      PROVE  fds[k].ino \in w.used /\ w.kind[fds[k].ino] = vol.kind[fds[k].ino]
  <2>1. Holds(vol, fds[k]) /\ fds[k] \in Fds
    BY ReadyIs DEF Held, Tables
  <2>2. fds[k].as \in {"Cwd", "Dir", "File", "Map"} /\ fds[k].ino \in vol.used
    BY <1>1, <2>1 DEF Holds, Fds
  <2>3. CASE w.used = vol.used
    BY <2>2, <2>3
  <2>4. CASE w.used = vol.used \ {i} /\ ~is_open(fds, i)
    <3>1. fds[k].ino # i
      <4>1. CASE fds[k].as = "Cwd"
        BY <2>1, <4>1 DEF Holds
      <4>2. CASE fds[k].as # "Cwd"
        BY <2>2, <2>4, <4>2 DEF is_open
      <4> QED
        BY <4>1, <4>2
    <3> QED
      BY <2>2, <2>4, <3>1
  <2> QED
    BY <2>3, <2>4
<1>2. Held(w, fds)
  BY <1>1, ReadyIs, HeldKept
<1> QED
  BY <1>2

\* So they do when a directory is freed that nobody is in.
LEMMA HeldDir ==
  ASSUME Ready, NEW i, Idle(i), NEW w, w.kind = vol.kind, w.used = vol.used \ {i}
  PROVE  Held(w, fds) /\ \A j \in vol.used \ w.used : ~is_open(fds, j)
<1>1. \A k \in Slots :
         fds[k].as # "Free" => fds[k].ino \in w.used /\ w.kind[fds[k].ino] = vol.kind[fds[k].ino]
  BY ReadyIs DEF Held, Holds, Idle
<1>2. Held(w, fds)
  BY <1>1, ReadyIs, HeldKept
<1>3. ~is_open(fds, i)
  BY DEF is_open, Idle
<1> QED
  BY <1>2, <1>3

LEMMA UnlinkStep ==
  ASSUME Ready, NEW d, NEW n \in Names, unlink(d, n)
  PROVE  NamesInv'
<1>1. PICK i : i = Found(vol, d, n)
  OBVIOUS
<1>2. PICK v : v = Looked(vol, d, n)
  OBVIOUS
<1>3. PICK r : r = Unnamed(v, d, n, i)
  OBVIOUS
<1>4. PICK x : x = IF r.orphan THEN WithOrphan(r.vol, i) ELSE [ok |-> r.ok, vol |-> r.vol]
  OBVIOUS
<1>5. Start(d) /\ i # Absent /\ ~IsDir(vol, i) /\ Ends(x, fds)
  BY <1>1, <1>2, <1>3, <1>4, Zenon DEF unlink
<1>6. d \in Folders(vol) /\ d \in Inos /\ n \in AllNames /\ n # DotDot
  BY <1>5, ReadyIs, StartIs, Numbers
<1>7. Like(v) /\ i = vol.ents[d][n]
  BY <1>1, <1>2, <1>6, LikeSelf, LookedLike
<1>8. /\ Sound(v) /\ v.used = vol.used /\ v.kind = vol.kind /\ v.ents = vol.ents
      /\ Folders(v) = Folders(vol) /\ Kept(v, fds)
  BY <1>7, LikeIs
<1>9. i \in v.used \ Folders(v) /\ i \in vol.used \ Folders(vol) /\ v.ents[d][n] = i
  BY <1>5, <1>6, <1>7, <1>8, ReadyIs DEF Tree, Folders, IsDir
<1>10. LosesName(v, r, d, n, i)
  BY <1>3, <1>6, <1>8, <1>9, UnnamedSound
<1>11. /\ r.ok /\ Sound(r.vol) /\ r.vol.kind = vol.kind
       /\ r.vol.used = vol.used \/ (r.vol.used = vol.used \ {i} /\ ~is_open(fds, i))
       /\ r.orphan => /\ i \in r.vol.used \ Folders(r.vol) /\ r.vol.links[i] = 0
                      /\ is_open(fds, i)
       /\ Unlost(v, r.vol, IF r.orphan THEN {i} ELSE {})
  BY <1>8, <1>10 DEF LosesName
<1>12. x.vol.used = r.vol.used /\ x.vol.kind = r.vol.kind /\ Sound(x.vol)
  <2>1. CASE r.orphan
    <3>1. x = WithOrphan(r.vol, i)
      BY <1>4, <2>1
    <3> QED
      BY <1>11, <2>1, <3>1, OrphanSound
  <2>2. CASE ~r.orphan
    BY <1>4, <1>11, <2>2
  <2> QED
    BY <2>1, <2>2
<1>13. Held(x.vol, fds) /\ \A j \in vol.used \ x.vol.used : ~is_open(fds, j)
  BY <1>9, <1>11, <1>12, HeldFile
<1>15. x.ok => Kept(x.vol, fds)
  <2>1. CASE r.orphan
    <3>1. x = WithOrphan(r.vol, i) /\ Unlost(v, r.vol, {i}) /\ is_open(fds, i)
      BY <1>4, <1>11, <2>1
    <3>2. Unlost(r.vol, x.vol, {}) /\ (x.ok => i \in x.vol.orphans)
      BY <1>11, <2>1, <3>1, OrphanSound
    <3>3. Unlost(v, x.vol, {i})
      BY <3>1, <3>2, UnlostOn
    <3>4. x.ok => \A j \in {i} : j \in x.vol.orphans /\ is_open(fds, j)
      BY <3>1, <3>2
    <3> QED
      BY <1>8, <3>3, <3>4, KeptOn
  <2>2. CASE ~r.orphan
    <3>1. x.vol = r.vol /\ Unlost(v, r.vol, {})
      BY <1>4, <1>11, <2>2
    <3> QED
      BY <1>8, <3>1, KeptSame
  <2> QED
    BY <2>1, <2>2
<1>14. Leaves(x, fds)
  BY <1>12, <1>13, <1>15, ReadyIs DEF Leaves
<1> QED
  BY <1>5, <1>14, ReadyIs, EndsRight

\* A directory that may be removed has no names in it and nobody is in it.
LEMMA RemovableIs ==
  ASSUME Tidy, Ready, NEW v, Like(v), NEW i, Removable(v, i)
  PROVE  Idle(i) /\ \A m \in Names : vol.ents[i][m] = Absent
<1>1. Entries(v, i) \subseteq {DotDot} /\ (May("busy") \/ Idle(i)) /\ v.ents = vol.ents
  BY LikeIs DEF Removable
<1>2. Idle(i)
  BY <1>1, ReadyIs DEF Tidy, May
<1>3. \A m \in Names : m \in AllNames /\ m # DotDot
  BY Numbers
<1> QED
  BY <1>1, <1>2, <1>3 DEF Entries

LEMMA RmdirStep ==
  ASSUME Tidy, Ready, NEW d, NEW n \in Names, rmdir(d, n)
  PROVE  NamesInv'
<1>1. PICK i : i = Found(vol, d, n)
  OBVIOUS
<1>2. PICK v : v = Looked(vol, d, n)
  OBVIOUS
<1>3. PICK r : r = Removed(v, d, n, i)
  OBVIOUS
<1>4. Start(d) /\ i # Absent /\ Removable(vol, i) /\ Ends(r, fds) /\ "rmdir" \in calls
  BY <1>1, <1>2, <1>3, Zenon DEF rmdir, May
<1>5. d \in Folders(vol) /\ d \in Inos /\ n \in AllNames /\ n # DotDot
  BY <1>4, ReadyIs, StartIs, Numbers
<1>6. Like(v) /\ Like(vol) /\ i = vol.ents[d][n]
  BY <1>1, <1>2, <1>5, LikeSelf, LookedLike
<1>7. /\ Sound(v) /\ v.used = vol.used /\ v.kind = vol.kind /\ v.ents = vol.ents
      /\ Folders(v) = Folders(vol) /\ Kept(v, fds)
  BY <1>6, LikeIs
<1>8. i \in Folders(v)
  BY <1>4, <1>5, <1>6, <1>7, ReadyIs DEF Tree, Folders, IsDir, Removable
<1>9. Idle(i) /\ \A m \in Names : v.ents[i][m] = Absent
  BY <1>4, <1>6, <1>7, RemovableIs
<1>10. v.ents[d][n] = i
  BY <1>6, <1>7
<1>11. LosesDir(v, r, d, n, i)
  BY <1>3, <1>4, <1>5, <1>7, <1>8, <1>9, <1>10, RemovedSound
<1>12. r.ok /\ Sound(r.vol) /\ r.vol.kind = vol.kind /\ r.vol.used = vol.used \ {i}
  BY <1>7, <1>11 DEF LosesDir
<1>13. Held(r.vol, fds)
  BY <1>9, <1>12, HeldDir
<1>15. Kept(r.vol, fds)
  BY <1>7, <1>11, KeptSame DEF LosesDir
<1>14. Leaves(r, fds)
  BY <1>12, <1>13, <1>15, ReadyIs DEF Leaves
<1> QED
  BY <1>4, <1>14, ReadyIs, EndsRight

LEMMA CloseStep ==
  ASSUME Ready, NEW k \in Slots, close(k)
  PROVE  NamesInv'
<1>1. PICK i : i = fds[k].ino
  OBVIOUS
<1>2. PICK f : f = [fds EXCEPT ![k] = NoFd]
  OBVIOUS
<1>3. PICK z : z = release_inode(vol, i)
  OBVIOUS
<1>4. PICK w : w = IF fds[k].as # "Map" /\ i \in vol.orphans /\ ~is_open(f, i)
                   THEN [z EXCEPT !.orphans = @ \ {i}] ELSE vol
  OBVIOUS
<1>5. PICK r : r = Done(w)
  OBVIOUS
<1>6. Ends(r, f) /\ r.ok /\ r.vol = w /\ k # 0
  BY <1>1, <1>2, <1>3, <1>4, <1>5, Zenon DEF close, Done
<1>7. NoFd \in Fds /\ Holds(vol, NoFd) /\ NoFd.as = "Free"
  BY DEF NoFd, Fds, Holds
<1>8. f \in Tables /\ Held(vol, f)
  BY <1>2, <1>7, ReadyIs, FdSet
<1>11. NoMaps(fds) => NoMaps(f) /\ \A j \in Inos \ {i} : is_open(fds, j) => is_open(f, j)
  <2>1. \A l \in Slots \ {k} : f[l] = fds[l]
    BY <1>2, ReadyIs DEF Tables
  <2>2. f[k] = NoFd
    BY <1>2, ReadyIs DEF Tables
  <2>3. NoMaps(fds) => NoMaps(f)
    <3>1. 0 \in Slots
      BY Ext2Assumption DEF Slots
    <3> QED
      BY <1>6, <1>7, <2>1, <2>2, <3>1 DEF NoMaps
  <2>4. \A j \in Inos \ {i} : is_open(fds, j) => is_open(f, j)
    BY <1>1, <2>1 DEF is_open
  <2> QED
    BY <2>3, <2>4
<1>12. Nameless(vol) \subseteq Inos
  BY ReadyIs, TreeTypes DEF Nameless
<1>9. CASE w = vol
  <2>2. Kept(w, f)
    <3> SUFFICES ASSUME "mmap" \notin calls
                 PROVE  NoMaps(f) /\ \A j \in Nameless(vol) : j \in vol.orphans /\ is_open(f, j)
      BY <1>9 DEF Kept, Orphaned
    <3>1. NoMaps(fds) /\ \A j \in Nameless(vol) : j \in vol.orphans /\ is_open(fds, j)
      BY ReadyIs DEF Kept, Orphaned
    <3>2. i \in vol.orphans => is_open(f, i)
      <4>1. fds[k].as # "Map"
        BY <3>1 DEF NoMaps
      <4>2. ASSUME i \in vol.orphans, ~is_open(f, i) PROVE FALSE
        <5>1. vol = [z EXCEPT !.orphans = @ \ {i}]
          BY <1>4, <1>9, <4>1, <4>2
        <5>2. i \in vol.used \ Folders(vol) /\ i \in Inos
          BY <4>2, ReadyIs, TreeTypes DEF Links
        <5>3. \A m \in Names : vol.ents[i][m] = Absent
          BY <5>2, ReadyIs, Numbers DEF Tree
        <5>4. HasFreed(vol, z, i)
          BY <1>3, <5>2, <5>3, ReadyIs, ReleaseIs
        <5>5. z \in Volumes /\ z.used = vol.used \ {i}
          BY <5>4 DEF HasFreed
        <5>6. vol.used = z.used
          BY <5>1, <5>5 DEF Volumes
        <5> QED
          BY <5>2, <5>5, <5>6
      <4> QED
        BY <4>2
    <3> QED
      BY <1>11, <1>12, <3>1, <3>2
  <2>1. Leaves(r, f)
    BY <1>6, <1>8, <1>9, <2>2, ReadyIs DEF Leaves
  <2> QED
    BY <1>6, <2>1, ReadyIs, EndsRight
<1>10. CASE i \in vol.orphans /\ ~is_open(f, i) /\ w = [z EXCEPT !.orphans = @ \ {i}]
  <2>1. i \in vol.used \ Folders(vol) /\ vol.links[i] = 0 /\ i \in Inos
    BY <1>10, ReadyIs, TreeTypes DEF Links
  <2>2. \A m \in Names : vol.ents[i][m] = Absent
    BY <2>1, ReadyIs, Numbers DEF Tree
  <2>3. HasFreed(vol, z, i)
    BY <1>3, <2>1, <2>2, ReadyIs, ReleaseIs
  <2>4. z \in Volumes /\ Fits(z) /\ z.orphans = vol.orphans
    BY <2>3 DEF HasFreed
  <2>5. /\ w \in Volumes /\ w.used = z.used /\ w.kind = z.kind /\ w.links = z.links
        /\ w.blocks = z.blocks /\ w.free = z.free
        /\ w.ents = z.ents /\ w.cache = z.cache /\ w.orphans = vol.orphans \ {i}
    BY <1>10, <2>4 DEF Volumes
  <2>6. Fits(w)
    BY <2>4, <2>5 DEF Fits, Hit, Folders
  <2>7. /\ w.used = vol.used \ {i} /\ w.kind = vol.kind
        /\ w.links = [vol.links EXCEPT ![i] = 0]
        /\ w.ents = [vol.ents EXCEPT ![i] = NoEnts]
    BY <2>3, <2>5 DEF HasFreed
  <2>8. Tree(w) /\ Links(w)
    BY <2>1, <2>5, <2>7, ReadyIs, FileFreed
  <2>12. Rooted(w)
    <3>1. i \notin Folders(vol) /\ Folders(vol) \subseteq Inos /\ Rooted(vol)
      BY <2>1, ReadyIs, TreeTypes DEF Sound
    <3>2. Folders(w) = Folders(vol)
      BY <2>7, <3>1 DEF Folders
    <3>3. vol.ents \in [Inos -> [AllNames -> Inos \cup {Absent}]]
      BY ReadyIs, TreeTypes
    <3>4. \A e \in Folders(w) : w.ents[e][DotDot] = vol.ents[e][DotDot]
      BY <2>7, <3>1, <3>2, <3>3
    <3> QED
      BY <3>1, <3>2, <3>4, RootedKept
  <2>9. \A j \in Slots :
           f[j].as # "Free" => f[j].ino \in w.used /\ w.kind[f[j].ino] = vol.kind[f[j].ino]
    <3> SUFFICES ASSUME NEW j \in Slots, f[j].as # "Free"
                 PROVE  f[j].ino \in w.used /\ w.kind[f[j].ino] = vol.kind[f[j].ino]
      OBVIOUS
    <3>1. Holds(vol, f[j]) /\ f[j] \in Fds
      BY <1>8 DEF Held, Tables
    <3>2. f[j].ino # i
      BY <1>10, <2>1, <3>1 DEF Holds, Fds, is_open
    <3> QED
      BY <2>7, <3>1, <3>2 DEF Holds
  <2>10. Held(w, f)
    BY <1>8, <2>9, HeldKept
  <2>13. Paid(w)
    <3>1. LessPaid(vol, w, i)
      BY <2>3, <2>5 DEF LessPaid, HasFreed
    <3>2. Paid(vol)
      BY ReadyIs DEF Sound
    <3>3. PICK v : v = vol
      OBVIOUS
    <3>4. v \in Volumes /\ Paid(v) /\ i \in v.used /\ LessPaid(v, w, i)
      BY <2>1, <3>1, <3>2, <3>3, ReadyIs
    <3> QED
      BY <2>5, <3>4, PaidLess
  <2>14. Kept(w, f)
    <3>1. Folders(w) = Folders(vol)
      BY <2>1, <2>7 DEF Folders
    <3>2. vol.ents[i] = NoEnts
      <4>1. vol.ents \in [Inos -> [AllNames -> Inos \cup {Absent}]]
        BY ReadyIs, TreeTypes
      <4>2. \A m \in AllNames : vol.ents[i][m] = Absent
        BY <2>1, ReadyIs DEF Tree
      <4> QED
        BY <2>1, <4>1, <4>2 DEF NoEnts
    <3>3. w.ents = vol.ents
      <4>1. vol.ents \in [Inos -> [AllNames -> Inos \cup {Absent}]]
        BY ReadyIs, TreeTypes
      <4> QED
        BY <2>1, <2>7, <3>2, <4>1
    <3>4. Nameless(w) = Nameless(vol) \ {i}
      BY <2>7, <3>1, <3>3 DEF Nameless, Named
    <3>5. Kept(vol, fds)
      BY ReadyIs
    <3> QED
      BY <1>11, <1>12, <2>5, <3>4, <3>5 DEF Kept, Orphaned
  <2>11. Leaves(r, f)
    BY <1>6, <1>8, <2>5, <2>6, <2>8, <2>10, <2>12, <2>13, <2>14 DEF Leaves, Sound
  <2> QED
    BY <1>6, <2>11, ReadyIs, EndsRight
<1> QED
  BY <1>4, <1>9, <1>10

LEMMA DupStep ==
  ASSUME Ready, NEW k \in Slots, dup(k)
  PROVE  NamesInv'
<1>1. PICK x : x = fds[k]
  OBVIOUS
<1>2. PICK j : j = Min(FreeFds(fds))
  OBVIOUS
<1>3. PICK f : f = [fds EXCEPT ![j] = x]
  OBVIOUS
<1>4. PICK r : r = Done(vol)
  OBVIOUS
<1>5. r.ok /\ r.vol = vol /\ Ends(r, f) /\ FreeFds(fds) # {} /\ x.as # "Map"
  BY <1>1, <1>2, <1>3, <1>4 DEF dup, Done
<1>6. j \in Slots /\ x \in Fds /\ Holds(vol, x)
  BY <1>1, <1>2, <1>5, ReadyIs, FreeFd DEF Tables, Held
<1>7. f \in Tables /\ Held(vol, f)
  BY <1>3, <1>6, ReadyIs, FdSet
<1>9. Kept(vol, f)
  BY <1>2, <1>3, <1>5, <1>6, ReadyIs, FreeFd, FdKept
<1>8. Leaves(r, f)
  BY <1>5, <1>7, <1>9, ReadyIs DEF Leaves
<1> QED
  BY <1>5, <1>8, ReadyIs, EndsRight

LEMMA MmapStep ==
  ASSUME Ready, NEW k \in Slots, mmap(k)
  PROVE  NamesInv'
<1>1. PICK y \in Fds : y = fds[k] /\ Holds(vol, y)
  BY ReadyIs DEF Tables, Held
<1>2. PICK x : x = [y EXCEPT !.as = "Map"]
  OBVIOUS
<1>3. PICK j : j = Min(FreeFds(fds))
  OBVIOUS
<1>4. PICK f : f = [fds EXCEPT ![j] = x]
  OBVIOUS
<1>5. PICK r : r = Done(vol)
  OBVIOUS
<1>6. r.ok /\ r.vol = vol /\ Ends(r, f) /\ FreeFds(fds) # {} /\ y.as = "File"
  BY <1>1, <1>2, <1>3, <1>4, <1>5 DEF mmap, Done
<1>7. x \in Fds /\ Holds(vol, x)
  BY <1>1, <1>2, <1>6 DEF Fds, Holds
<1>8. j \in Slots
  BY <1>3, <1>6, FreeFd
<1>9. f \in Tables /\ Held(vol, f)
  BY <1>4, <1>7, <1>8, ReadyIs, FdSet
<1>11. Kept(vol, f)
  BY DEF mmap, May, Kept
<1>10. Leaves(r, f)
  BY <1>6, <1>9, <1>11, ReadyIs DEF Leaves
<1> QED
  BY <1>6, <1>10, ReadyIs, EndsRight

LEMMA WriteStep ==
  ASSUME Ready, NEW k \in Slots, write(k)
  PROVE  NamesInv'
<1>1. PICK i : i = fds[k].ino
  OBVIOUS
<1>2. PICK w : w = AddBlock(vol, i)
  OBVIOUS
<1>3. PICK r : r = Done(w)
  OBVIOUS
<1>4. r.ok /\ r.vol = w /\ Ends(r, fds) /\ fds[k].as = "File" /\ vol.free # 0
  BY <1>1, <1>2, <1>3 DEF write, Done
<1>5. i \in vol.used /\ i \in Inos
  BY <1>1, <1>4, ReadyIs, TreeTypes DEF Held, Holds
<1>6. w \in Volumes /\ Same(vol, w) /\ w.ents = vol.ents /\ Fits(w) /\ Paid(w)
  <2>1. PICK v \in Volumes : v = vol
    BY ReadyIs
  <2>2. v.free # 0 /\ Fits(v) /\ w = AddBlock(v, i)
    BY <1>2, <1>4, <2>1, ReadyIs
  <2>3. /\ w \in Volumes /\ Same(v, w) /\ w.ents = v.ents /\ (Fits(v) => Fits(w))
        /\ w.blocks = [v.blocks EXCEPT ![i] = @ + 1] /\ w.free = v.free - 1
    BY <1>5, <2>2, AddBlockIs
  <2>4. MorePaid(v, w, i) /\ Paid(v) /\ i \in v.used
    BY <1>5, <2>1, <2>3, ReadyIs DEF MorePaid, Same, Sound
  <2>5. Paid(w)
    BY <2>3, <2>4, PaidMore
  <2> QED
    BY <2>1, <2>2, <2>3, <2>5
<1>7. Like(w)
  BY <1>6, ReadyIs, SoundAlike DEF Like
<1>8. Sound(w) /\ Held(w, fds) /\ Kept(w, fds)
  BY <1>7, ReadyIs, LikeIs
<1>9. Leaves(r, fds)
  BY <1>4, <1>8, ReadyIs DEF Leaves
<1> QED
  BY <1>4, <1>9, ReadyIs, EndsRight

LEMMA TruncateStep ==
  ASSUME Ready, NEW k \in Slots, truncate(k)
  PROVE  NamesInv'
<1>1. PICK i : i = fds[k].ino
  OBVIOUS
<1>2. PICK w : w = truncate_inode(vol, i)
  OBVIOUS
<1>3. PICK r : r = Done(w)
  OBVIOUS
<1>4. r.ok /\ r.vol = w /\ Ends(r, fds) /\ fds[k].as = "File"
  BY <1>1, <1>2, <1>3 DEF truncate, Done
<1>5. i \in vol.used /\ i \in Inos /\ i \notin Folders(vol)
  BY <1>1, <1>4, ReadyIs, TreeTypes DEF Held, Holds, Folders
<1>6. PICK bs, fr : bs = [vol.blocks EXCEPT ![i] = 0] /\ fr = vol.free + vol.blocks[i]
  OBVIOUS
<1>7. bs \in [Inos -> Nat] /\ fr \in Nat
  BY <1>5, <1>6, ReadyIs DEF Volumes
<1>8. [vol.ents EXCEPT ![i] = NoEnts] = vol.ents
  <2>1. vol.ents \in [Inos -> [AllNames -> Inos \cup {Absent}]]
    BY ReadyIs, TreeTypes
  <2>2. \A m \in AllNames : vol.ents[i][m] = Absent
    BY <1>5, ReadyIs DEF Tree
  <2>3. vol.ents[i] = NoEnts
    BY <1>5, <2>1, <2>2 DEF NoEnts
  <2> QED
    BY <2>1, <2>3
<1>9. w = [vol EXCEPT !.free = fr, !.blocks = bs, !.ents = vol.ents]
  BY <1>2, <1>6, <1>8 DEF truncate_inode
<1>10. /\ w \in Volumes /\ Same(vol, w) /\ w.ents = vol.ents /\ w.cache = vol.cache
       /\ w.blocks = bs /\ w.free = fr
  BY <1>7, <1>9, ReadyIs DEF Volumes, Same
<1>15. Paid(w)
  <2>1. PICK v \in Volumes : v = vol
    BY ReadyIs
  <2>2. LessPaid(v, w, i) /\ Paid(v) /\ i \in v.used
    BY <1>5, <1>6, <1>10, <2>1, ReadyIs DEF LessPaid, Same, Sound
  <2> QED
    BY <1>10, <2>1, <2>2, PaidLess
<1>11. Fits(w)
  BY <1>10, ReadyIs DEF Fits, Hit, Same, Folders
<1>12. Like(w)
  BY <1>10, <1>11, <1>15, ReadyIs, SoundAlike DEF Like
<1>13. Sound(w) /\ Held(w, fds) /\ Kept(w, fds)
  BY <1>12, ReadyIs, LikeIs
<1>14. Leaves(r, fds)
  BY <1>4, <1>13, ReadyIs DEF Leaves
<1> QED
  BY <1>4, <1>14, ReadyIs, EndsRight

-----------------------------------------------------------------------------
(* The climb of is_ancestor, which caches the ".." it meets.               *)

\* One step of the climb.
Up(p) ==
    IF p.at \in {Root, Absent} THEN p
    ELSE [at |-> Found(p.vol, p.at, DotDot), vol |-> Looked(p.vol, p.at, DotDot)]

Climbs(f, x, m) == f = [k \in 0 .. m |-> IF k = 0 THEN x ELSE Up(f[k - 1])]

\* There is a climb of every length.
LEMMA SomeClimb ==
  ASSUME NEW x, NEW m \in Nat
  PROVE  \E f : Climbs(f, x, m)
<1> DEFINE T == {k \in Nat : ~\E f : Climbs(f, x, k)}
<1>1. ASSUME NEW k \in T, \A j \in T : k <= j
      PROVE  FALSE
  <2>1. CASE k = 0
    <3>1. PICK f : f = [j \in 0 .. 0 |-> x]
      OBVIOUS
    <3>2. f = [j \in 0 .. 0 |-> IF j = 0 THEN x ELSE Up(f[j - 1])]
      BY <3>1
    <3> QED
      BY <2>1, <3>2 DEF Climbs
  <2>2. CASE k # 0
    <3>1. k \in Nat /\ k - 1 \in Nat /\ k - 1 \notin T
      BY <1>1, <2>2
    <3>2. PICK f : Climbs(f, x, k - 1)
      BY <3>1
    <3>3. PICK g : g = [j \in 0 .. k |-> IF j < k THEN f[j] ELSE Up(f[k - 1])]
      OBVIOUS
    <3>4. \A j \in 0 .. k : g[j] = IF j = 0 THEN x ELSE Up(g[j - 1])
      <4> SUFFICES ASSUME NEW j \in 0 .. k
                   PROVE  g[j] = IF j = 0 THEN x ELSE Up(g[j - 1])
        OBVIOUS
      <4>1. \A l \in 0 .. k - 1 : g[l] = f[l]
        BY <3>1, <3>3
      <4>2. \A l \in 0 .. k - 1 : f[l] = IF l = 0 THEN x ELSE Up(f[l - 1])
        BY <3>1, <3>2 DEF Climbs
      <4>3. CASE j = k
        <5>1. g[j] = Up(f[k - 1]) /\ j # 0 /\ k - 1 \in 0 .. k - 1 /\ j - 1 = k - 1
          BY <2>2, <3>1, <3>3, <4>3
        <5> QED
          BY <4>1, <5>1
      <4>4. CASE j # k /\ j # 0
        <5>1. j \in 0 .. k - 1 /\ j - 1 \in 0 .. k - 1
          BY <3>1, <4>4
        <5> QED
          BY <4>1, <4>2, <4>4, <5>1
      <4>5. CASE j # k /\ j = 0
        <5>1. j \in 0 .. k - 1
          BY <3>1, <4>5
        <5> QED
          BY <4>1, <4>2, <4>5, <5>1
      <4> QED
        BY <4>3, <4>4, <4>5
    <3>5. Climbs(g, x, k)
      BY <3>3, <3>4 DEF Climbs
    <3> QED
      BY <3>5
  <2> QED
    BY <2>1, <2>2
<1>2. T = {}
  <2>1. T \subseteq Nat
    OBVIOUS
  <2>2. T # {} => Min(T) \in T /\ \A j \in T : Min(T) <= j
    BY <2>1, LeastNumber
  <2> QED
    BY <1>1, <2>2
<1> QED
  BY <1>2

LEMMA ClimbIs ==
  ASSUME NEW v, NEW b
  PROVE  Climbs(Climb(v, b), [at |-> b, vol |-> v], MaxInode)
<1>1. MaxInode \in Nat
  BY Ext2Assumption
<1>2. \E f : f = [k \in 0 .. MaxInode |->
                    IF k = 0 THEN [at |-> b, vol |-> v] ELSE Up(f[k - 1])]
  BY <1>1, SomeClimb DEF Climbs
<1> QED
  BY <1>2 DEF Climb, Climbs, Up

\* Wherever the climb stands, it went up by the "..", and the volume has
\* changed in the cache only.
LEMMA ClimbStands ==
  ASSUME Ready, "rmdir" \notin calls, NEW v, Like(v), NEW b \in Folders(vol),
         NEW c, c = Climb(v, b)
  PROVE  /\ \A k \in 0 .. MaxInode : c[k].at \in Folders(vol) /\ Like(c[k].vol)
         /\ c[0].at = b
         /\ \A k \in 1 .. MaxInode : c[k].at = vol.ents[c[k - 1].at][DotDot]
<1>2. Climbs(c, [at |-> b, vol |-> v], MaxInode) /\ MaxInode \in Nat
  BY ClimbIs, Ext2Assumption
<1>3. c[0].at = b /\ c[0].vol = v
  BY <1>2 DEF Climbs
<1>4. \A k \in 1 .. MaxInode : c[k] = Up(c[k - 1])
  <2>1. \A k \in 0 .. MaxInode : c[k] = IF k = 0 THEN [at |-> b, vol |-> v] ELSE Up(c[k - 1])
    BY <1>2, Zenon DEF Climbs
  <2>2. \A k \in 1 .. MaxInode : k \in 0 .. MaxInode /\ k # 0
    BY <1>2
  <2> QED
    BY <2>1, <2>2
<1> DEFINE T == {k \in 0 .. MaxInode : ~(c[k].at \in Folders(vol) /\ Like(c[k].vol))}
<1>5. ASSUME NEW p, p.at \in Folders(vol), Like(p.vol)
      PROVE  /\ Up(p).at \in Folders(vol) /\ Like(Up(p).vol)
             /\ Up(p).at = vol.ents[p.at][DotDot]
  <2>1. Root # Absent /\ Absent \notin Folders(vol) /\ vol.ents[Root][DotDot] = Root
    BY ReadyIs, TreeTypes DEF Tree
  <2>2. CASE p.at \in {Root, Absent}
    BY <1>5, <2>1, <2>2 DEF Up
  <2>3. CASE p.at \notin {Root, Absent}
    <3>1. PICK u, y, w : u = p.vol /\ y = p.at /\ w = Looked(u, y, DotDot)
      OBVIOUS
    <3>2. Like(w) /\ Found(u, y, DotDot) = vol.ents[y][DotDot]
      BY <1>5, <3>1, LookedLike, Numbers
    <3>3. vol.ents[y][DotDot] \in Folders(vol)
      BY <1>5, <3>1, ReadyIs, TreeTypes
    <3>4. Up(p) = [at |-> Found(u, y, DotDot), vol |-> w]
      BY <2>3, <3>1 DEF Up
    <3> QED
      BY <3>1, <3>2, <3>3, <3>4
  <2> QED
    BY <2>2, <2>3
<1>6. ASSUME NEW k \in T, \A j \in T : k <= j
      PROVE  FALSE
  <2>1. k # 0
    BY <1>3
  <2>2. k \in 1 .. MaxInode /\ k - 1 \in 0 .. MaxInode /\ k - 1 \notin T
    BY <1>2, <1>6, <2>1
  <2>3. PICK p : p = c[k - 1]
    OBVIOUS
  <2>4. p.at \in Folders(vol) /\ Like(p.vol) /\ c[k] = Up(p)
    BY <1>4, <2>2, <2>3
  <2> QED
    BY <1>5, <2>4
<1>7. T = {}
  <2>1. T \subseteq Nat
    BY <1>2
  <2>2. T # {} => Min(T) \in T /\ \A j \in T : Min(T) <= j
    BY <2>1, LeastNumber
  <2> QED
    BY <1>6, <2>2
<1>8. \A k \in 0 .. MaxInode : c[k].at \in Folders(vol) /\ Like(c[k].vol)
  BY <1>7
<1>9. ASSUME NEW k \in 1 .. MaxInode
      PROVE  c[k].at = vol.ents[c[k - 1].at][DotDot]
  <2>1. k - 1 \in 0 .. MaxInode
    BY <1>2
  <2>2. PICK p : p = c[k - 1]
    OBVIOUS
  <2>3. p.at \in Folders(vol) /\ Like(p.vol) /\ c[k] = Up(p)
    BY <1>4, <1>8, <2>1, <2>2
  <2> QED
    BY <1>5, <2>2, <2>3
<1> QED
  BY <1>3, <1>8, <1>9

LEMMA ClimbLike ==
  ASSUME Ready, "rmdir" \notin calls, NEW v, Like(v), NEW b \in Folders(vol)
  PROVE  Like(Climb(v, b)[MaxInode].vol)
<1>1. PICK c : c = Climb(v, b)
  OBVIOUS
<1>2. MaxInode \in 0 .. MaxInode
  BY Ext2Assumption
<1> QED
  BY <1>1, <1>2, ClimbStands

\* A walk of as many steps as there are inodes is twice in one of them.
LEMMA Repeated ==
  ASSUME NEW g \in [0 .. MaxInode -> Inos]
  PROVE  \E a, b \in 0 .. MaxInode : a # b /\ g[a] = g[b]
<1>1. MaxInode \in Nat
  BY Ext2Assumption
<1>2. IsFiniteSet(0 .. MaxInode) /\ Cardinality(0 .. MaxInode) = MaxInode + 1
  BY <1>1, FS_Interval
<1>3. IsFiniteSet(Inos) /\ Cardinality(Inos) = MaxInode
  BY <1>1, FS_Interval, Ext2Assumption DEF Inos
<1>4. PICK N, J : N = 0 .. MaxInode /\ J = Inos
  OBVIOUS
<1>5. IsFiniteSet(N) /\ IsFiniteSet(J) /\ Cardinality(J) < Cardinality(N) /\ g \in [N -> J]
  BY <1>1, <1>2, <1>3, <1>4
<1>6. \E a, b \in N : a # b /\ g[a] = g[b]
  BY <1>5, FS_PigeonHole
<1> QED
  BY <1>4, <1>6

\* Up from a directory is the root, in as many steps as there are inodes: on
\* the way to it no directory comes twice.
LEMMA ChainRooted ==
  ASSUME NEW v \in Volumes, Tree(v), Rooted(v), NEW g \in [0 .. MaxInode -> Folders(v)],
         \A k \in 1 .. MaxInode : g[k] = v.ents[g[k - 1]][DotDot]
  PROVE  g[MaxInode] = Root
<1> SUFFICES ASSUME g[MaxInode] # Root PROVE FALSE
  OBVIOUS
<1>1. MaxInode \in Nat \ {0} /\ MaxInode \in 0 .. MaxInode
  BY Ext2Assumption
<1>2. v.ents[Root][DotDot] = Root /\ Folders(v) \subseteq Inos
  BY TreeTypes DEF Tree
<1>3. ASSUME NEW a \in 0 .. MaxInode, g[a] = Root
      PROVE  FALSE
  <2> DEFINE T == {k \in 0 .. MaxInode : a <= k /\ g[k] # Root}
  <2>1. T \subseteq Nat /\ T # {}
    BY <1>1, <1>3
  <2>2. PICK k \in T : \A j \in T : k <= j
    BY <2>1, LeastNumber
  <2>3. k # a /\ k \in 0 .. MaxInode /\ a <= k /\ g[k] # Root
    BY <1>3, <2>2
  <2>4. k \in 1 .. MaxInode /\ k - 1 \in 0 .. MaxInode /\ a <= k - 1 /\ ~(k <= k - 1)
    BY <1>1, <2>3
  <2>5. g[k - 1] = Root
    BY <2>2, <2>4
  <2> QED
    BY <1>2, <2>3, <2>4, <2>5
<1>4. \E a, b \in 0 .. MaxInode : a # b /\ g[a] = g[b]
  <2>1. g \in [0 .. MaxInode -> Inos]
    BY <1>2
  <2> QED
    BY <2>1, Repeated
<1>5. PICK a \in 0 .. MaxInode, b \in 0 .. MaxInode : a < b /\ g[a] = g[b]
  <2>1. PICK c \in 0 .. MaxInode, e \in 0 .. MaxInode : c # e /\ g[c] = g[e]
    BY <1>4
  <2>2. c < e \/ e < c
    BY <1>1, <2>1
  <2> QED
    BY <2>1, <2>2
<1>6. PICK S : S = {g[k] : k \in a .. b - 1}
  OBVIOUS
<1>7. \A k \in a .. b - 1 : k \in 0 .. MaxInode /\ k + 1 \in 1 .. MaxInode /\ k + 1 - 1 = k
  BY <1>1
<1>8. S \in SUBSET (Folders(v) \ {Root})
  BY <1>3, <1>6, <1>7
<1>9. \A e \in S : v.ents[e][DotDot] \in S
  <2> SUFFICES ASSUME NEW k \in a .. b - 1 PROVE v.ents[g[k]][DotDot] \in S
    BY <1>6
  <2>1. g[k + 1] = v.ents[g[k]][DotDot]
    BY <1>7
  <2>2. CASE k + 1 = b
    <3>1. a \in a .. b - 1
      BY <1>1, <1>5
    <3> QED
      BY <1>5, <1>6, <2>1, <2>2, <3>1
  <2>3. CASE k + 1 # b
    <3>1. k + 1 \in a .. b - 1
      BY <1>1, <2>3
    <3> QED
      BY <1>6, <2>1, <3>1
  <2> QED
    BY <2>2, <2>3
<1>10. g[a] \in S
  <2>1. a \in a .. b - 1
    BY <1>1, <1>5
  <2> QED
    BY <1>6, <2>1
<1> QED
  BY <1>8, <1>9, <1>10 DEF Rooted

\* Where the climb does not meet a directory, its start is not below it.
LEMMA ClimbClears ==
  ASSUME Ready, "rmdir" \notin calls, NEW d \in Folders(vol), NEW i, ~is_ancestor(vol, i, d)
  PROVE  NotBelow(vol, d, i)
<1>1. PICK c : c = Climb(vol, d)
  OBVIOUS
<1>2. /\ \A k \in 0 .. MaxInode : c[k].at \in Folders(vol)
      /\ c[0].at = d
      /\ \A k \in 1 .. MaxInode : c[k].at = vol.ents[c[k - 1].at][DotDot]
  BY <1>1, LikeSelf, ClimbStands
<1>3. PICK g : g = [k \in 0 .. MaxInode |-> c[k].at]
  OBVIOUS
<1>4. MaxInode \in Nat \ {0} /\ MaxInode \in 0 .. MaxInode /\ 0 \in 0 .. MaxInode
  BY Ext2Assumption
<1>5. g \in [0 .. MaxInode -> Folders(vol)] /\ g[0] = d
  BY <1>2, <1>3, <1>4
<1>6. \A k \in 1 .. MaxInode : g[k] = vol.ents[g[k - 1]][DotDot]
  <2>1. \A k \in 1 .. MaxInode : k \in 0 .. MaxInode /\ k - 1 \in 0 .. MaxInode
    BY <1>4
  <2> QED
    BY <1>2, <1>3, <2>1
<1>7. g[MaxInode] = Root
  BY <1>5, <1>6, ReadyIs, ChainRooted DEF Sound
<1>8. PICK A : A = {g[k] : k \in 0 .. MaxInode}
  OBVIOUS
<1>9. A \in SUBSET Folders(vol) /\ d \in A
  BY <1>4, <1>5, <1>8
<1>10. i \notin A
  BY <1>1, <1>3, <1>8 DEF is_ancestor
<1>11. \A e \in A : vol.ents[e][DotDot] \in A
  <2> SUFFICES ASSUME NEW k \in 0 .. MaxInode PROVE vol.ents[g[k]][DotDot] \in A
    BY <1>8
  <2>1. CASE k = MaxInode
    <3>1. vol.ents[Root][DotDot] = Root
      BY ReadyIs DEF Tree
    <3> QED
      BY <1>4, <1>7, <1>8, <2>1, <3>1
  <2>2. CASE k # MaxInode
    <3>1. k + 1 \in 1 .. MaxInode /\ k + 1 \in 0 .. MaxInode /\ k + 1 - 1 = k
      BY <1>4, <2>2
    <3>2. g[k + 1] = vol.ents[g[k]][DotDot]
      BY <1>6, <3>1
    <3> QED
      BY <1>8, <3>1, <3>2
  <2> QED
    BY <2>1, <2>2
<1> QED
  BY <1>9, <1>10, <1>11 DEF NotBelow

\* Both names of a rename are looked up.
LEMMA SearchedIs ==
  ASSUME Tidy, Ready, NEW sd, NEW sn \in Names, NEW d, NEW n \in Names,
         sd \in Folders(vol), d \in Folders(vol),
         (IsDir(vol, Found(vol, sd, sn)) /\ sd # d) => May("move")
  PROVE  /\ Found(vol, sd, sn) = vol.ents[sd][sn]
         /\ Like(Searched(sd, sn, d, n))
         /\ Found(Searched(sd, sn, d, n), d, n) = vol.ents[d][n]
<1>1. sn \in AllNames /\ n \in AllNames /\ sn # DotDot /\ n # DotDot
  BY Numbers
<1>2. PICK a : a = Looked(vol, sd, sn)
  OBVIOUS
<1>3. Like(a) /\ Found(vol, sd, sn) = vol.ents[sd][sn]
  BY <1>1, <1>2, LikeSelf, LookedLike
<1>4. PICK b : b = IF IsDir(vol, Found(vol, sd, sn)) /\ sd # d THEN Climb(a, d)[MaxInode].vol ELSE a
  OBVIOUS
<1>5. Like(b)
  <2>1. CASE IsDir(vol, Found(vol, sd, sn)) /\ sd # d
    <3>1. "rmdir" \notin calls
      BY <2>1, ReadyIs DEF Tidy, May
    <3> QED
      BY <1>3, <1>4, <2>1, <3>1, ClimbLike
  <2>2. CASE ~(IsDir(vol, Found(vol, sd, sn)) /\ sd # d)
    BY <1>3, <1>4, <2>2
  <2> QED
    BY <2>1, <2>2
<1>6. PICK w : w = Looked(b, d, n)
  OBVIOUS
<1>7. Searched(sd, sn, d, n) = w
  BY <1>2, <1>4, <1>6, Zenon DEF Searched
<1>8. Like(w)
  BY <1>1, <1>5, <1>6, LookedLike
<1>9. Found(w, d, n) = vol.ents[d][n]
  BY <1>1, <1>8, LookedLike
<1> QED
  BY <1>3, <1>7, <1>8, <1>9

\* What a rename has looked up.
Renaming(v, sd, sn, d, n, i, old) ==
    /\ Like(v) /\ sd \in Folders(vol) /\ d \in Folders(vol)
    /\ i = vol.ents[sd][sn] /\ old = vol.ents[d][n]
    /\ i # Absent /\ old # i
    /\ (IsDir(vol, i) /\ sd # d) => "rmdir" \notin calls /\ NotBelow(vol, d, i)
    /\ old # Absent => IsDir(vol, i) = IsDir(v, old)

\* The new name was free.
LEMMA RenameFree ==
  ASSUME Tidy, Ready, NEW v, NEW sd, NEW sn \in Names, NEW d, NEW n \in Names, NEW i, NEW old,
         Renaming(v, sd, sn, d, n, i, old), old = Absent,
         NEW r, r = Moved(v, sd, sn, d, n, i)
  PROVE  Leaves(r, fds)
<1>1. /\ Sound(v) /\ v.used = vol.used /\ v.kind = vol.kind /\ v.ents = vol.ents
      /\ Folders(v) = Folders(vol) /\ Kept(v, fds)
  BY LikeIs DEF Renaming
<1>2. /\ sd \in Folders(v) /\ d \in Folders(v) /\ v.ents[d][n] = Absent
      /\ v.ents[sd][sn] = i /\ i # Absent
      /\ (i \in Folders(v) /\ sd # d) => "rmdir" \notin calls /\ NotBelow(v, d, i)
  BY <1>1 DEF Renaming, Folders, IsDir, NotBelow
<1>3. /\ r.vol.used = v.used
      /\ r.ok => Sound(r.vol) /\ r.vol.kind = v.kind /\ Unlost(v, r.vol, {})
  BY <1>1, <1>2, MovedSound
<1>4. r.ok => Held(r.vol, fds)
  <2>1. ASSUME r.ok
        PROVE  \A k \in Slots : fds[k].as # "Free" =>
                  fds[k].ino \in r.vol.used /\ r.vol.kind[fds[k].ino] = vol.kind[fds[k].ino]
    BY <1>1, <1>3, <2>1, ReadyIs DEF Held, Holds
  <2> QED
    BY <2>1, ReadyIs, HeldKept
<1>5. r.ok => Kept(r.vol, fds)
  BY <1>1, <1>3, KeptSame
<1> QED
  BY <1>1, <1>3, <1>4, <1>5, ReadyIs DEF Leaves

\* It was that of a directory.
LEMMA RenameOverDir ==
  ASSUME Tidy, Ready, NEW v, NEW sd, NEW sn \in Names, NEW d, NEW n \in Names, NEW i, NEW old,
         Renaming(v, sd, sn, d, n, i, old), old # Absent, IsDir(v, old),
         Removable(v, old), "rmdir" \in calls,
         NEW g, g = Removed(v, d, n, old), NEW r, r = Moved(g.vol, sd, sn, d, n, i)
  PROVE  g.ok /\ Leaves(r, fds)
<1>1. /\ Sound(v) /\ v.used = vol.used /\ v.kind = vol.kind /\ v.ents = vol.ents
      /\ Folders(v) = Folders(vol) /\ v \in Volumes /\ Tree(v) /\ Like(v)
      /\ Kept(v, fds)
  BY LikeIs DEF Renaming, Sound
<1>2. /\ sd \in Folders(v) /\ d \in Folders(v) /\ v.ents[d][n] = old /\ v.ents[sd][sn] = i
      /\ i # Absent /\ old # i
  BY <1>1 DEF Renaming
<1>3. sd \in Inos /\ d \in Inos
  BY <1>1, <1>2, TreeTypes
<1>4. old \in v.used \ {Root} /\ old \in Folders(v)
  <2>1. old \in v.used \ {Root}
    BY <1>1, <1>2, <1>3 DEF Tree
  <2> QED
    BY <2>1 DEF Folders, IsDir
<1>5. Idle(old) /\ \A m \in Names : v.ents[old][m] = Absent
  BY <1>1, RemovableIs
<1>6. LosesDir(v, g, d, n, old)
  BY <1>1, <1>2, <1>3, <1>4, <1>5, RemovedSound
<1>7. /\ g.ok /\ Sound(g.vol) /\ g.vol.kind = vol.kind /\ g.vol.used = vol.used \ {old}
      /\ Folders(g.vol) = Folders(v) \ {old} /\ Unlost(v, g.vol, {})
  BY <1>1, <1>6 DEF LosesDir
<1>8. g.vol.ents[d][n] = Absent /\ g.vol.ents[sd][sn] = i
  BY <1>2, <1>3, <1>6 DEF LosesDir
<1>9. sd # old /\ d # old
  BY <1>2, <1>5, <1>8
<1>10. sd = d
  BY <1>1 DEF Renaming, IsDir
<1>11. sd \in Folders(g.vol) /\ d \in Folders(g.vol)
  BY <1>2, <1>7, <1>9
<1>12. /\ r.vol.used = g.vol.used
       /\ r.ok => Sound(r.vol) /\ r.vol.kind = g.vol.kind /\ Unlost(g.vol, r.vol, {})
  BY <1>2, <1>7, <1>8, <1>10, <1>11, MovedSound
<1>13. \A j \in vol.used \ r.vol.used : ~is_open(fds, j)
  BY <1>5, <1>7, <1>12 DEF is_open, Idle
<1>14. r.ok => Held(r.vol, fds)
  BY <1>5, <1>7, <1>12, HeldDir
<1>15. r.ok => Kept(r.vol, fds)
  <2>1. r.ok => Unlost(v, r.vol, {})
    BY <1>7, <1>12, UnlostOn
  <2> QED
    BY <1>1, <2>1, KeptSame
<1> QED
  BY <1>7, <1>12, <1>13, <1>14, <1>15, ReadyIs DEF Leaves

\* It was that of a file, which may become an orphan.
LEMMA RenameOverFile ==
  ASSUME Tidy, Ready, NEW v, NEW sd, NEW sn \in Names, NEW d, NEW n \in Names, NEW i, NEW old,
         Renaming(v, sd, sn, d, n, i, old), old # Absent, ~IsDir(v, old),
         NEW g, g = Unnamed(v, d, n, old), NEW r, r = Moved(g.vol, sd, sn, d, n, i),
         NEW x, x = IF r.ok /\ g.orphan THEN WithOrphan(r.vol, old) ELSE [ok |-> r.ok, vol |-> r.vol]
  PROVE  g.ok /\ Leaves(x, fds)
<1>1. /\ Sound(v) /\ v.used = vol.used /\ v.kind = vol.kind /\ v.ents = vol.ents
      /\ Folders(v) = Folders(vol) /\ v \in Volumes /\ Tree(v) /\ Kept(v, fds)
  BY LikeIs DEF Renaming, Sound
<1>2. /\ sd \in Folders(v) /\ d \in Folders(v) /\ v.ents[d][n] = old /\ v.ents[sd][sn] = i
      /\ i # Absent /\ old # i /\ ~IsDir(vol, i)
  BY <1>1 DEF Renaming
<1>3. /\ sd \in Inos /\ d \in Inos /\ sn \in AllNames /\ n \in AllNames
      /\ v.ents \in [Inos -> [AllNames -> Inos \cup {Absent}]]
  BY <1>1, <1>2, TreeTypes, Numbers
<1>4. old \in v.used \ Folders(v) /\ i \notin Folders(v)
  <2>1. old \in v.used \ {Root}
    BY <1>1, <1>2, <1>3 DEF Tree
  <2> QED
    BY <1>1, <1>2, <2>1 DEF Folders, IsDir
<1>5. LosesName(v, g, d, n, old)
  BY <1>1, <1>2, <1>3, <1>4, UnnamedSound
<1>6. PICK u : u = g.vol
  OBVIOUS
<1>7. /\ g.ok /\ Sound(u) /\ u.kind = vol.kind /\ Folders(u) = Folders(v)
      /\ u.used = vol.used \/ (u.used = vol.used \ {old} /\ ~is_open(fds, old))
      /\ g.orphan => old \in u.used /\ u.links[old] = 0 /\ is_open(fds, old)
      /\ Unlost(v, u, IF g.orphan THEN {old} ELSE {})
  BY <1>1, <1>5, <1>6 DEF LosesName
<1>8. u.ents[d][n] = Absent /\ u.ents[sd][sn] = i
  <2>1. u.ents = [v.ents EXCEPT ![d][n] = Absent]
    BY <1>5, <1>6 DEF LosesName
  <2> QED
    BY <1>2, <1>3, <2>1
<1>9. sd \in Folders(u) /\ d \in Folders(u) /\ i \notin Folders(u) /\ r = Moved(u, sd, sn, d, n, i)
  BY <1>2, <1>4, <1>6, <1>7
<1>10. /\ r.vol.used = u.used
       /\ r.ok => Sound(r.vol) /\ r.vol.kind = u.kind /\ Unlost(u, r.vol, {})
       /\ r.ok => r.vol.links = u.links
  BY <1>2, <1>7, <1>8, <1>9, MovedSound
<1>11. /\ x.vol.used = u.used
       /\ x.ok => Sound(x.vol) /\ x.vol.kind = vol.kind /\ Kept(x.vol, fds)
  <2>1. CASE r.ok /\ g.orphan
    <3>1. old \in r.vol.used \ Folders(r.vol) /\ r.vol.links[old] = 0 /\ Sound(r.vol)
      BY <1>1, <1>4, <1>7, <1>10, <2>1 DEF Folders
    <3>2. x = WithOrphan(r.vol, old)
      BY <2>1
    <3>3. /\ x.vol.used = r.vol.used /\ x.vol.kind = r.vol.kind /\ Sound(x.vol)
          /\ Unlost(r.vol, x.vol, {}) /\ (x.ok => old \in x.vol.orphans)
      BY <3>1, <3>2, OrphanSound
    <3>4. Unlost(v, u, {old}) /\ Unlost(u, r.vol, {}) /\ is_open(fds, old)
      BY <1>7, <1>10, <2>1
    <3>5. Unlost(v, r.vol, {old})
      BY <3>4, UnlostOn
    <3>6. Unlost(v, x.vol, {old})
      BY <3>3, <3>5, UnlostOn
    <3>7. x.ok => \A j \in {old} : j \in x.vol.orphans /\ is_open(fds, j)
      BY <3>3, <3>4
    <3>8. x.ok => Kept(x.vol, fds)
      BY <1>1, <3>6, <3>7, KeptOn
    <3> QED
      BY <1>7, <1>10, <2>1, <3>3, <3>8
  <2>2. CASE ~(r.ok /\ g.orphan)
    <3>1. x.ok = r.ok /\ x.vol = r.vol
      BY <2>2
    <3>2. ASSUME r.ok PROVE Kept(r.vol, fds)
      <4>1. Unlost(v, u, {}) /\ Unlost(u, r.vol, {})
        BY <1>7, <1>10, <2>2, <3>2
      <4>2. Unlost(v, r.vol, {})
        BY <4>1, UnlostOn
      <4> QED
        BY <1>1, <4>2, KeptSame
    <3> QED
      BY <1>7, <1>10, <3>1, <3>2
  <2> QED
    BY <2>1, <2>2
<1>12. \A j \in vol.used \ x.vol.used : ~is_open(fds, j)
  BY <1>7, <1>11
<1>13. x.ok => Held(x.vol, fds)
  BY <1>1, <1>4, <1>7, <1>11, HeldFile
<1> QED
  BY <1>7, <1>11, <1>12, <1>13, ReadyIs DEF Leaves

LEMMA RenameStep ==
  ASSUME Tidy, Ready, NEW sd, NEW sn \in Names, NEW d, NEW n \in Names, rename(sd, sn, d, n)
  PROVE  NamesInv'
<1>1. PICK i : i = Found(vol, sd, sn)
  OBVIOUS
<1>2. PICK v : v = Searched(sd, sn, d, n)
  OBVIOUS
<1>3. PICK old : old = Found(v, d, n)
  OBVIOUS
<1>4. PICK p : p = Removed(v, d, n, old)
  OBVIOUS
<1>5. PICK q : q = Unnamed(v, d, n, old)
  OBVIOUS
<1>6. PICK gone : gone = IF old = Absent THEN [ok |-> TRUE, vol |-> v, orphan |-> FALSE]
                         ELSE IF IsDir(v, old) THEN [ok |-> p.ok, vol |-> p.vol, orphan |-> FALSE]
                         ELSE q
  OBVIOUS
<1>7. PICK r : r = IF gone.ok THEN Moved(gone.vol, sd, sn, d, n, i) ELSE gone
  OBVIOUS
<1>8. PICK x : x = IF r.ok /\ gone.orphan THEN WithOrphan(r.vol, old) ELSE [ok |-> r.ok, vol |-> r.vol]
  OBVIOUS
<1>9. /\ Start(sd) /\ Start(d) /\ i # Absent /\ old # i
      /\ (IsDir(vol, i) /\ sd # d) => May("move") /\ ~is_ancestor(vol, i, d)
      /\ old # Absent => /\ IsDir(vol, i) = IsDir(v, old)
                         /\ IsDir(v, old) => Removable(v, old) /\ May("rmdir")
      /\ Ends(x, fds)
  BY <1>1, <1>2, <1>3, <1>4, <1>5, <1>6, <1>7, <1>8, Zenon DEF rename
<1>10. sd \in Folders(vol) /\ d \in Folders(vol)
  BY <1>9, ReadyIs, StartIs
<1>11. i = vol.ents[sd][sn] /\ Like(v) /\ old = vol.ents[d][n]
  BY <1>1, <1>2, <1>3, <1>9, <1>10, SearchedIs
<1>12. (IsDir(vol, i) /\ sd # d) => "rmdir" \notin calls /\ NotBelow(vol, d, i)
  <2> SUFFICES ASSUME IsDir(vol, i), sd # d PROVE "rmdir" \notin calls /\ NotBelow(vol, d, i)
    OBVIOUS
  <2>1. "rmdir" \notin calls
    BY <1>9, ReadyIs DEF Tidy, May
  <2> QED
    BY <1>9, <1>10, <2>1, ClimbClears
<1>13. Renaming(v, sd, sn, d, n, i, old)
  BY <1>9, <1>10, <1>11, <1>12 DEF Renaming
<1>14. Leaves(x, fds)
  <2>1. CASE old = Absent
    <3>1. gone.ok /\ gone.vol = v /\ ~gone.orphan
      BY <1>6, <2>1
    <3>2. r = Moved(v, sd, sn, d, n, i)
      BY <1>7, <3>1
    <3>3. x.ok = r.ok /\ x.vol = r.vol
      BY <1>8, <3>1
    <3>4. Leaves(r, fds)
      BY <1>13, <2>1, <3>2, RenameFree
    <3> QED
      BY <3>3, <3>4 DEF Leaves
  <2>2. CASE old # Absent /\ IsDir(v, old)
    <3>1. gone.ok = p.ok /\ gone.vol = p.vol /\ ~gone.orphan
      BY <1>6, <2>2
    <3>2. Removable(v, old) /\ "rmdir" \in calls
      BY <1>9, <2>2 DEF May
    <3>3. PICK y : y = Moved(p.vol, sd, sn, d, n, i)
      OBVIOUS
    <3>4. p.ok /\ Leaves(y, fds)
      BY <1>4, <1>13, <2>2, <3>2, <3>3, RenameOverDir
    <3>5. r = y
      BY <1>7, <3>1, <3>3, <3>4
    <3>6. x.ok = r.ok /\ x.vol = r.vol
      BY <1>8, <3>1
    <3> QED
      BY <3>4, <3>5, <3>6 DEF Leaves
  <2>3. CASE old # Absent /\ ~IsDir(v, old)
    <3>1. gone = q
      BY <1>6, <2>3
    <3>2. PICK y : y = Moved(q.vol, sd, sn, d, n, i)
      OBVIOUS
    <3>3. PICK z : z = IF y.ok /\ q.orphan THEN WithOrphan(y.vol, old) ELSE [ok |-> y.ok, vol |-> y.vol]
      OBVIOUS
    <3>4. q.ok /\ Leaves(z, fds)
      BY <1>5, <1>13, <2>3, <3>2, <3>3, RenameOverFile
    <3>5. r = y
      BY <1>7, <3>1, <3>2, <3>4
    <3>6. x = z
      BY <1>8, <3>1, <3>3, <3>5
    <3> QED
      BY <3>4, <3>6
  <2> QED
    BY <2>1, <2>2, <2>3
<1> QED
  BY <1>9, <1>14, ReadyIs, EndsRight

-----------------------------------------------------------------------------
(* The theorems.                                                           *)

LEMMA FreshSound ==
  ASSUME Init
  PROVE  Sound(vol)
<1>1. vol = Fresh
  BY DEF Init
<1>2. NoEnts \in [AllNames -> Inos \cup {Absent}]
  BY DEF NoEnts
<1>3. [NoEnts EXCEPT ![DotDot] = Root] \in [AllNames -> Inos \cup {Absent}]
  BY <1>2, Numbers
<1>4. NoEntry \in [dir : Inos \cup {Absent}, name : AllNames, ino : Inos \cup {Absent}]
  BY Numbers DEF NoEntry
<1>5. MaxBlocks - 1 \in Nat
  BY Ext2Assumption
<1>6. /\ vol.used = {Root} /\ vol.orphans = {} /\ vol.free = MaxBlocks - 1
      /\ vol.kind = [i \in Inos |-> IF i = Root THEN "dir" ELSE "none"]
      /\ vol.links = [i \in Inos |-> IF i = Root THEN 2 ELSE 0]
      /\ vol.blocks = [i \in Inos |-> IF i = Root THEN 1 ELSE 0]
      /\ vol.ents = [i \in Inos |-> IF i = Root THEN [NoEnts EXCEPT ![DotDot] = Root] ELSE NoEnts]
      /\ vol.cache = [h \in CacheSlots |-> NoEntry]
  BY <1>1 DEF Fresh, CacheSlots
<1>7. vol \in Volumes
  <2>1. vol.used \in SUBSET Inos /\ vol.orphans \in SUBSET Inos /\ vol.free \in Nat
    BY <1>5, <1>6, Numbers
  <2>2. vol.kind \in [Inos -> Kinds] /\ vol.links \in [Inos -> Nat] /\ vol.blocks \in [Inos -> Nat]
    BY <1>6 DEF Kinds
  <2>3. vol.ents \in [Inos -> [AllNames -> Inos \cup {Absent}]]
    BY <1>2, <1>3, <1>6
  <2>4. vol.cache \in [CacheSlots -> [dir : Inos \cup {Absent}, name : AllNames, ino : Inos \cup {Absent}]]
    BY <1>4, <1>6
  <2>5. vol = [used |-> vol.used, kind |-> vol.kind, links |-> vol.links, blocks |-> vol.blocks,
               ents |-> vol.ents, free |-> vol.free, cache |-> vol.cache, orphans |-> vol.orphans]
    BY <1>1 DEF Fresh
  <2> QED
    BY <2>1, <2>2, <2>3, <2>4, <2>5 DEF Volumes
<1>8. Folders(vol) = {Root}
  BY <1>6, Numbers DEF Folders
<1>9. \A d \in Inos, n \in AllNames :
        vol.ents[d][n] = IF d = Root /\ n = DotDot THEN Root ELSE Absent
  BY <1>6, Numbers DEF NoEnts
<1>10. \A n \in Names : n \in AllNames /\ n # DotDot
  BY Numbers
<1>11. Tree(vol)
  BY <1>6, <1>8, <1>9, <1>10, Numbers DEF Tree
<1>12. Links(vol)
  <2>1. Kids(vol, Root) = {}
    BY <1>8, <1>9, <1>10, Numbers DEF Kids
  <2>2. Cardinality(Kids(vol, Root)) = 0
    BY <2>1, FS_EmptySet
  <2>3. vol.links[Root] = 2
    BY <1>6, Numbers
  <2> QED
    BY <1>6, <1>8, <2>2, <2>3 DEF Links
<1>13. Fits(vol)
  <2>1. \A d \in Inos, n \in AllNames : ~Hit(vol, d, n)
    BY <1>6, Numbers DEF Hit, NoEntry
  <2> QED
    BY <2>1 DEF Fits
<1>14. Rooted(vol)
  BY <1>8 DEF Rooted
<1>15. Paid(vol)
  <2>1. PICK b : b = vol.blocks
    OBVIOUS
  <2>2. Root \in Inos /\ b[Root] = 1
    BY <1>6, <2>1, Numbers
  <2>3. Total(b, {Root}) = 1
    BY <2>2, TotalOne
  <2> QED
    BY <1>6, <2>1, <2>3, Ext2Assumption DEF Paid
<1> QED
  BY <1>7, <1>11, <1>12, <1>13, <1>14, <1>15 DEF Sound

LEMMA NamesInit ==
  ASSUME Init
  PROVE  NamesInv
<1>1. fds = [k \in Slots |-> IF k = 0 THEN [as |-> "Cwd", ino |-> Root, stale |-> FALSE] ELSE NoFd]
      /\ failed = FALSE /\ calls \in Programs
  BY DEF Init
<1>2. \A k \in Slots : fds[k] \in Fds /\ Holds(vol, fds[k])
  <2>1. Root \in Folders(vol) /\ Root \in vol.used /\ Root \in Inos
    BY FreshSound, Numbers DEF Sound, Tree, Folders
  <2> QED
    BY <1>1, <2>1 DEF Holds, Fds, NoFd
<1>3. fds \in Tables /\ Held(vol, fds)
  BY <1>1, <1>2 DEF Tables, Held
<1>4. OpenKept
  BY <1>2 DEF OpenKept, Holds
<1>5. Kept(vol, fds)
  <2>1. Nameless(vol) = {}
    <3>1. vol = Fresh /\ Root \in Folders(vol)
      BY FreshSound DEF Init, Sound, Tree
    <3>2. vol.used = {Root}
      BY <3>1 DEF Fresh
    <3> QED
      BY <3>1, <3>2 DEF Nameless
  <2>2. 0 \in Slots
    BY Ext2Assumption DEF Slots
  <2>3. NoMaps(fds)
    BY <1>1, <2>2 DEF NoMaps, NoFd
  <2> QED
    BY <2>1, <2>3 DEF Kept, Orphaned
<1> QED
  BY <1>1, <1>3, <1>4, <1>5, FreshSound DEF NamesInv, Good

\* No call is made after one that stopped half way.
LEMMA Goes ==
  ASSUME NEW d, NEW n, NEW e, NEW m, NEW k
  PROVE  /\ mknod(d, n) \/ create(d, n) \/ open(d, n) \/ mkdir(d, n) \/ symlink(d, n) => ~failed
         /\ unlink(d, n) \/ rmdir(d, n) \/ lookup(d, n) \/ chdir(d, n) => ~failed
         /\ link(d, n, e, m) \/ rename(d, n, e, m) => ~failed
         /\ close(k) \/ dup(k) \/ mmap(k) \/ write(k) \/ truncate(k) => ~failed
<1>1. mknod(d, n) \/ create(d, n) \/ open(d, n) \/ mkdir(d, n) \/ symlink(d, n) => ~failed
  BY Zenon DEF mknod, create, open, mkdir, symlink, May
<1>2. unlink(d, n) \/ rmdir(d, n) \/ lookup(d, n) \/ chdir(d, n) => ~failed
  BY Zenon DEF unlink, rmdir, lookup, chdir, May
<1>3. link(d, n, e, m) \/ rename(d, n, e, m) => ~failed
  BY Zenon DEF link, rename, May
<1>4. close(k) \/ dup(k) \/ mmap(k) \/ write(k) \/ truncate(k) => ~failed
  BY Zenon DEF close, dup, mmap, write, truncate, May
<1> QED
  BY <1>1, <1>2, <1>3, <1>4

LEMMA NamesStep ==
  ASSUME Tidy, NamesInv, [Next]_vars
  PROVE  NamesInv'
<1>1. CASE UNCHANGED vars
  <2>1. UNCHANGED calls /\ vol' = vol /\ fds' = fds /\ failed' = failed
    BY <1>1 DEF vars
  <2>2. ~failed => Good(vol, fds)'
    <3>1. Sound(vol) => Sound(vol)'
      BY <2>1, SoundNext
    <3>2. (fds \in Tables /\ Held(vol, fds)) => (fds \in Tables)' /\ Held(vol, fds)'
      BY <2>1 DEF Tables, Fds, Held, Holds, Folders
    <3>3. Kept(vol, fds) => Kept(vol, fds)'
      BY <2>1, KeptNext
    <3> QED
      BY <3>1, <3>2, <3>3 DEF NamesInv, Good
  <2>3. OpenKept'
    BY <2>1 DEF NamesInv, OpenKept
  <2> QED
    BY <2>1, <2>2, <2>3 DEF NamesInv
<1>2. CASE Next
  <2>1. ~failed => Ready
    BY DEF Ready
  <2>2. ASSUME NEW d \in Inos, NEW n \in Names,
               \/ mknod(d, n) \/ create(d, n) \/ open(d, n) \/ mkdir(d, n) \/ symlink(d, n)
               \/ unlink(d, n) \/ rmdir(d, n)
        PROVE  NamesInv'
    BY <2>1, <2>2, Goes, MknodStep, CreateStep, OpenStep, MkdirStep, SymlinkStep, UnlinkStep, RmdirStep
  <2>3. ASSUME NEW d \in Inos, NEW n \in Names, NEW e \in Inos, NEW m \in Names,
               link(d, n, e, m) \/ rename(d, n, e, m)
        PROVE  NamesInv'
    BY <2>1, <2>3, Goes, LinkStep, RenameStep
  <2>4. ASSUME NEW d \in Inos, NEW n \in AllNames, lookup(d, n) \/ chdir(d, n)
        PROVE  NamesInv'
    BY <2>1, <2>4, Goes, LookupStep, ChdirStep
  <2>5. ASSUME NEW k \in Slots,
               close(k) \/ dup(k) \/ mmap(k) \/ write(k) \/ truncate(k)
        PROVE  NamesInv'
    BY <2>1, <2>5, Goes, CloseStep, DupStep, MmapStep, WriteStep, TruncateStep
  <2> QED
    BY <1>2, <2>2, <2>3, <2>4, <2>5 DEF Next
<1> QED
  BY <1>1, <1>2

\* Tree, links, cache and descriptors are in order after every call that
\* succeeds (ext2.rs and the calls of file.rs).
THEOREM NamesInductive ==
  ASSUME Tidy
  PROVE  Spec => []NamesInv
<1>1. Init => NamesInv
  BY NamesInit
<1>2. NamesInv /\ [Next]_vars => NamesInv'
  BY NamesStep
<1> QED
  BY <1>1, <1>2, PTL DEF Spec

\* A file keeps its inode as long as it is open or mapped, whatever happens to
\* its names (drop_link and after_close, ext2.rs).
THEOREM FilesStayOpen ==
  ASSUME Tidy
  PROVE  Spec => []OpenKept
<1>1. NamesInv => OpenKept
  BY DEF NamesInv
<1> QED
  BY <1>1, NamesInductive, PTL

\* What the links count, in the words of Counted.
LEMMA CountedIs ==
  ASSUME Good(vol, fds)
  PROVE  Counted
<1>1. vol \in Volumes /\ Tree(vol) /\ Links(vol)
  BY DEF Good, Sound
<1>2. Dirs = Folders(vol) /\ Dirs \subseteq Inos /\ vol.used \subseteq Inos /\ Absent \notin vol.used
  BY <1>1, TreeTypes DEF Dirs, Folders, IsDir
<1>3. \A d \in Dirs, n \in Names : vol.ents[d][n] \in vol.used \cup {Absent}
  BY <1>1, <1>2 DEF Tree
<1>4. \A i \in vol.used \ Dirs : NamesOf(i) = Named(vol, i)
  <2> SUFFICES ASSUME NEW i \in vol.used \ Dirs PROVE NamesOf(i) = Named(vol, i)
    OBVIOUS
  <2>1. i # Absent
    BY <1>2
  <2>2. \A d \in Inos, n \in Names : vol.ents[d][n] = i => d \in Dirs
    BY <1>1, <1>2, <2>1, Numbers DEF Tree
  <2> QED
    BY <1>2, <2>2 DEF NamesOf, Named
<1>5. \A d \in Dirs : Children(d) = Kids(vol, d)
  BY <1>1, <1>2, <1>3 DEF Children, Kids, Folders, IsDir
<1> QED
  BY <1>1, <1>2, <1>3, <1>4, <1>5 DEF Counted, Links

\* What is in use and who holds it, in the words of Accounted.
LEMMA AccountedIs ==
  ASSUME Good(vol, fds), "mmap" \notin calls
  PROVE  Accounted
<1>1. vol \in Volumes /\ Tree(vol) /\ Paid(vol) /\ Orphaned(vol, fds)
  BY DEF Good, Sound, Kept
<1>2. /\ Dirs = Folders(vol) /\ Dirs \subseteq Inos /\ vol.used \subseteq Inos
      /\ vol.ents \in [Inos -> [AllNames -> Inos \cup {Absent}]]
  BY <1>1, TreeTypes DEF Dirs, Folders, IsDir
<1>3. ASSUME NEW i \in vol.used \ {Root}
      PROVE  NamesOf(i) # {} \/ (i \in vol.orphans /\ is_open(fds, i))
  <2>1. CASE i \in Folders(vol)
    <3>1. PICK d \in Inos, n \in Names : d \in Folders(vol) /\ vol.ents[d][n] = i
      BY <1>1, <1>2, <1>3, <2>1 DEF Tree
    <3>2. <<d, n>> \in NamesOf(i)
      BY <1>2, <3>1 DEF NamesOf
    <3> QED
      BY <3>2
  <2>2. CASE i \notin Folders(vol) /\ Named(vol, i) # {}
    <3>1. PICK d \in Inos, n \in Names : vol.ents[d][n] = i
      BY <2>2 DEF Named
    <3>2. i # Absent /\ n \in AllNames
      BY <1>2, <1>3, Numbers
    <3>3. d \in Dirs
      BY <1>1, <1>2, <3>1, <3>2 DEF Tree
    <3>4. <<d, n>> \in NamesOf(i)
      BY <3>1, <3>3 DEF NamesOf
    <3> QED
      BY <3>4
  <2>3. CASE i \notin Folders(vol) /\ Named(vol, i) = {}
    BY <1>1, <1>3, <2>3 DEF Orphaned, Nameless
  <2> QED
    BY <2>1, <2>2, <2>3
<1>4. vol.free + MapThenSumSet(LAMBDA i : vol.blocks[i], vol.used) = MaxBlocks
  BY <1>1 DEF Paid, Total
<1> QED
  BY <1>3, <1>4 DEF Accounted

\* Links, inodes and blocks are accounted for after every call that succeeds:
\* no name leads to a free inode, the links of every inode are those of its
\* names or directories, every inode in use has a name or is an orphan
\* somebody has open, and every block is free or belongs to one of them
\* (new_inode, drop_link, release_inode, add_orphan, after_close and the counts
\* in sys_mkdir, sys_rmdir, sys_rename).
THEOREM InodesStayRight ==
  ASSUME Tidy
  PROVE  Spec => []InodesRight
<1>1. NamesInv => LinksRight
  BY CountedIs DEF NamesInv, LinksRight
<1>2. NamesInv => NothingLost
  BY AccountedIs DEF NamesInv, NothingLost
<1>3. NamesInv => InodesRight
  BY <1>1, <1>2 DEF InodesRight
<1> QED
  BY <1>3, NamesInductive, PTL

\* What the cache of names says is what the directories say (the first part of
\* NamesRight; dcache_put and dcache_inv, ext2.rs).
CacheTells ==
    ~failed => \A d \in Dirs, n \in AllNames : Hit(vol, d, n) => Found(vol, d, n) = vol.ents[d][n]

LEMMA CacheIs ==
  ASSUME NamesInv
  PROVE  CacheTells
<1> SUFFICES ASSUME ~failed, NEW d \in Dirs, NEW n \in AllNames, Hit(vol, d, n)
             PROVE  Found(vol, d, n) = vol.ents[d][n]
  BY DEF CacheTells
<1>1. Fits(vol) /\ vol \in Volumes
  BY DEF NamesInv, Good, Sound
<1>2. d \in Inos
  BY <1>1 DEF Dirs, Volumes
<1> QED
  BY <1>1, <1>2 DEF Fits, Found

\* The way up from a directory, of every length.
Rises(f, v, d, m) == f = [k \in 0 .. m |-> IF k = 0 THEN d ELSE v.ents[f[k - 1]][DotDot]]

LEMMA SomeRise ==
  ASSUME NEW v, NEW d, NEW m \in Nat
  PROVE  \E f : Rises(f, v, d, m)
<1> DEFINE T == {k \in Nat : ~\E f : Rises(f, v, d, k)}
<1>1. ASSUME NEW k \in T, \A j \in T : k <= j
      PROVE  FALSE
  <2>1. CASE k = 0
    <3>1. PICK f : f = [j \in 0 .. 0 |-> d]
      OBVIOUS
    <3>2. f = [j \in 0 .. 0 |-> IF j = 0 THEN d ELSE v.ents[f[j - 1]][DotDot]]
      BY <3>1
    <3> QED
      BY <2>1, <3>2 DEF Rises
  <2>2. CASE k # 0
    <3>1. k \in Nat /\ k - 1 \in Nat /\ k - 1 \notin T
      BY <1>1, <2>2
    <3>2. PICK f : Rises(f, v, d, k - 1)
      BY <3>1
    <3>3. PICK g : g = [j \in 0 .. k |-> IF j < k THEN f[j] ELSE v.ents[f[k - 1]][DotDot]]
      OBVIOUS
    <3>4. \A j \in 0 .. k : g[j] = IF j = 0 THEN d ELSE v.ents[g[j - 1]][DotDot]
      <4> SUFFICES ASSUME NEW j \in 0 .. k
                   PROVE  g[j] = IF j = 0 THEN d ELSE v.ents[g[j - 1]][DotDot]
        OBVIOUS
      <4>1. \A l \in 0 .. k - 1 : g[l] = f[l]
        BY <3>1, <3>3
      <4>2. \A l \in 0 .. k - 1 : f[l] = IF l = 0 THEN d ELSE v.ents[f[l - 1]][DotDot]
        BY <3>1, <3>2 DEF Rises
      <4>3. CASE j = k
        <5>1. g[j] = v.ents[f[k - 1]][DotDot] /\ j # 0 /\ k - 1 \in 0 .. k - 1 /\ j - 1 = k - 1
          BY <2>2, <3>1, <3>3, <4>3
        <5> QED
          BY <4>1, <5>1
      <4>4. CASE j # k /\ j # 0
        <5>1. j \in 0 .. k - 1 /\ j - 1 \in 0 .. k - 1
          BY <3>1, <4>4
        <5> QED
          BY <4>1, <4>2, <4>4, <5>1
      <4>5. CASE j # k /\ j = 0
        <5>1. j \in 0 .. k - 1
          BY <3>1, <4>5
        <5> QED
          BY <4>1, <4>2, <4>5, <5>1
      <4> QED
        BY <4>3, <4>4, <4>5
    <3>5. Rises(g, v, d, k)
      BY <3>3, <3>4 DEF Rises
    <3> QED
      BY <3>5
  <2> QED
    BY <2>1, <2>2
<1>2. T = {}
  <2>1. T \subseteq Nat
    OBVIOUS
  <2>2. T # {} => Min(T) \in T /\ \A j \in T : Min(T) <= j
    BY <2>1, LeastNumber
  <2> QED
    BY <1>1, <2>2
<1> QED
  BY <1>2

\* Up from every directory is the root.
LEMMA RootedIs ==
  ASSUME Good(vol, fds)
  PROVE  TreeRooted
<1>1. vol \in Volumes /\ Tree(vol) /\ Rooted(vol) /\ MaxInode \in Nat
  BY Ext2Assumption DEF Good, Sound
<1>2. Dirs = Folders(vol)
  BY DEF Dirs, Folders, IsDir
<1>3. ASSUME NEW d \in Folders(vol), NEW f, Rises(f, vol, d, MaxInode)
      PROVE  f[MaxInode] = Root
  <2>1. /\ \A k \in 0 .. MaxInode : f[k] = IF k = 0 THEN d ELSE vol.ents[f[k - 1]][DotDot]
        /\ DOMAIN f = 0 .. MaxInode /\ f = [k \in 0 .. MaxInode |-> f[k]]
    BY <1>3 DEF Rises
  <2> DEFINE T == {k \in 0 .. MaxInode : f[k] \notin Folders(vol)}
  <2>2. ASSUME NEW k \in T, \A j \in T : k <= j
        PROVE  FALSE
    <3>1. k # 0
      BY <2>1
    <3>2. k - 1 \in 0 .. MaxInode /\ k - 1 \notin T /\ k \in 0 .. MaxInode
      BY <1>1, <2>2, <3>1
    <3>3. f[k - 1] \in Folders(vol) /\ f[k] = vol.ents[f[k - 1]][DotDot]
      BY <2>1, <3>1, <3>2
    <3> QED
      BY <1>1, <3>3, TreeTypes
  <2>3. T = {}
    <3>1. T \subseteq Nat
      BY <1>1
    <3>2. T # {} => Min(T) \in T /\ \A j \in T : Min(T) <= j
      BY <3>1, LeastNumber
    <3> QED
      BY <2>2, <3>2
  <2>4. f \in [0 .. MaxInode -> Folders(vol)]
    BY <2>1, <2>3
  <2>5. \A k \in 1 .. MaxInode : f[k] = vol.ents[f[k - 1]][DotDot]
    <3>1. \A k \in 1 .. MaxInode : k \in 0 .. MaxInode /\ k # 0
      BY <1>1
    <3> QED
      BY <2>1, <3>1
  <2>6. PICK v \in Volumes : v = vol
    BY <1>1
  <2>7. /\ Tree(v) /\ Rooted(v) /\ f \in [0 .. MaxInode -> Folders(v)]
        /\ \A k \in 1 .. MaxInode : f[k] = v.ents[f[k - 1]][DotDot]
    BY <1>1, <2>4, <2>5, <2>6
  <2> QED
    BY <2>7, ChainRooted
<1>4. ASSUME NEW d \in Dirs \ {Root}
      PROVE  LET up[k \in 0 .. MaxInode] == IF k = 0 THEN d ELSE vol.ents[up[k - 1]][DotDot]
             IN  up[MaxInode] = Root
  <2>3. \E f : Rises(f, vol, d, MaxInode)
    BY <1>1, SomeRise
  <2>1. \E f : f = [k \in 0 .. MaxInode |-> IF k = 0 THEN d ELSE vol.ents[f[k - 1]][DotDot]]
    BY <2>3, Zenon DEF Rises
  <2>2. \A f : f = [k \in 0 .. MaxInode |-> IF k = 0 THEN d ELSE vol.ents[f[k - 1]][DotDot]]
            => f[MaxInode] = Root
    BY <1>2, <1>3 DEF Rises
  <2> QED
    BY <2>1, <2>2
<1> QED
  BY <1>4 DEF TreeRooted

\* The cache and the tree are whole after every call that succeeds: no
\* directory has been moved into itself (is_ancestor, set_dotdot, ext2.rs).
THEOREM NamesStayRight ==
  ASSUME Tidy
  PROVE  Spec => []NamesRight
<1>1. NamesInv => NamesRight
  <2>1. NamesInv => CacheTells
    BY CacheIs
  <2>2. NamesInv /\ ~failed => TreeRooted
    BY RootedIs DEF NamesInv
  <2> QED
    BY <2>1, <2>2 DEF CacheTells, NamesRight
<1> QED
  BY <1>1, NamesInductive, PTL
=============================================================================
