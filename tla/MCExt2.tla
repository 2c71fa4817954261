------------------------------- MODULE MCExt2 -------------------------------
(***************************************************************************)
(* The file system in three parts that are checked side by side: names and *)
(* inodes (Ext2), the cache of blocks (BlockCache), the blocks of a file   *)
(* (BlockMap). Each behaviour is of one of them.                           *)
(***************************************************************************)
EXTENDS Ext2, TLC

CONSTANTS LastBlock, Spare, SETS, WAYS, DirtyMax, MAX_SEGS,
          Inodes, Direct, PPB, LEVELS, GROUPS, BPG, MaxSize

VARIABLES
    part,
    slot, count, disk, noted, truth,
    bitmap, gfree, nfree, mem, node, text

Cache == INSTANCE BlockCache
Map   == INSTANCE BlockMap

blocks == <<slot, count, disk, noted, truth>>
trees  == <<bitmap, gfree, nfree, mem, node, text>>

MCInit == part \in {"names", "cache", "map"} /\ Init /\ Cache!CacheInit /\ Map!MapInit
          /\ (part = "names" \/ calls = CHOOSE c \in Programs : TRUE)
MCNext ==
    /\ UNCHANGED part
    /\ \/ part = "names" /\ Next            /\ UNCHANGED <<blocks, trees>>
       \/ part = "cache" /\ Cache!CacheNext /\ UNCHANGED <<vars, trees>>
       \/ part = "map"   /\ Map!MapNext     /\ UNCHANGED <<vars, blocks>>
MCSpec == MCInit /\ [][MCNext]_<<part, vars, blocks, trees>>

\* A file with indirect blocks of two levels, next to one of half a block.
MCMaxSize == (0 :> 7 @@ 1 :> 1)

\* The cache loses nothing and sync tells the truth, see BlocksRight and
\* SyncedIsOnDisk of BlockCache.
CacheRight == part = "cache" => Cache!BlocksRight /\ Cache!SyncedIsOnDisk

\* A reader finds what was written, and no block is used twice or leaked, see
\* MapRight of BlockMap.
MapRight == part = "map" => Map!MapRight

\* Directories with the same parity share their slots of the cache.
MCHash(d, n) == <<d % 2, n>>

\* Files and links; a tree that is moved about; directories that come and
\* go; files that are mapped.
MCPrograms ==
    {{"create", "open", "close", "dup", "link", "unlink", "rename", "write"},
     {"mkdir", "chdir", "rename", "move", "stat", "dotdot", "symlink", "mknod"},
     {"mkdir", "rmdir", "rename", "create", "open", "close", "unlink"},
     {"create", "close", "mmap", "unlink", "write"}}
Symmetry == Permutations(Names)
=============================================================================
