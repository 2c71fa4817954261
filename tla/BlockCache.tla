----------------------------- MODULE BlockCache -----------------------------
(***************************************************************************)
(* The cache of disk blocks of ext2.rs over virtio-blk: sets of WAYS slots *)
(* written back late, with read-ahead, scatter-gather write-back, and disk *)
(* requests that fail. Every call is made under FS: one at a time.         *)
(*                                                                         *)
(* The hash of the code spreads consecutive blocks over sets, so that two  *)
(* of one read-ahead do not meet; here they may.                           *)
(*                                                                         *)
(* A block has one value. `truth` is what a reader must find: the value    *)
(* last written, or that the block is free, or lost (taken in the bitmap,  *)
(* but no file got it). Block 0 stands for the superblock.                 *)
(***************************************************************************)
EXTENDS Integers, FiniteSets, SequencesExt

CONSTANTS
    LastBlock,    \* blocks 1..LastBlock
    Spare,        \* those that are free at first and come and go; the others stay
    SETS, WAYS,
    DirtyMax,     \* dirty blocks that start a write-back: 256 in the code
    MAX_SEGS      \* segments of a disk request

VARIABLES
    slot,      \* SLOT and the memory of each; `age` orders the slots of a set by use (TICK)
    count,     \* DIRTY_COUNT
    disk,      \* block -> value on disk; disk[0]: free blocks, in the superblock
    noted,     \* SB_COUNTS
    truth      \* block -> what a reader must find

cacheVars == <<slot, count, disk, noted, truth>>

Blocks == 1..LastBlock
Free == -1
Lost == -2
Values == 0..1

Slots == (0..SETS - 1) \X (1..WAYS)

\* The hash of the code, as a remainder: consecutive blocks meet in a set.
SetOf(b) == {s \in Slots : s[1] = b % SETS}

Cache == [slot |-> slot, count |-> count, disk |-> disk]
Ok(S)  == [ok |-> TRUE, S |-> S]
Eio(S) == [ok |-> FALSE, S |-> S]

\* The first slot of T, in their order.
First(T) == CHOOSE s \in T : \A u \in T : s[2] <= u[2]

Holding(S, b) == {s \in SetOf(b) : S.slot[s].valid /\ S.slot[s].blk = b}
cached(S, b)  == Holding(S, b) # {}
Dirty(S)      == {s \in Slots : S.slot[s].valid /\ S.slot[s].dirty}

-----------------------------------------------------------------------------
(* bget: hit, or a victim that is written back and then loaded or zeroed.  *)
(* `bad` are the blocks whose requests fail during this call.              *)

Empty == [blk |-> 0, valid |-> FALSE, dirty |-> FALSE, age |-> 0, data |-> 0]
Ticks(S) == [S EXCEPT !.slot = [s \in Slots |-> IF @[s].valid THEN [@[s] EXCEPT !.age = @ + 1] ELSE Empty]]

Victim(S, b) ==
    LET invalid == {s \in SetOf(b) : ~S.slot[s].valid}
    IN IF invalid # {} THEN First(invalid)
       ELSE First({s \in SetOf(b) : \A u \in SetOf(b) : S.slot[u].age <= S.slot[s].age})

Taken(S, s, b) == [S EXCEPT !.slot[s] = [Empty EXCEPT !.blk = b]]

\* Mutant: a dirty victim is not written back.
written_back_Dropped(S, s) == [S EXCEPT !.count = @ - 1]

\* The victim goes to disk first.
written_back(S, s) ==
    [S EXCEPT !.disk[S.slot[s].blk] = S.slot[s].data, !.slot[s].dirty = FALSE, !.count = @ - 1]

bget(S0, b, load, bad) ==
    LET S == Ticks(S0)
        v == Victim(S, b)
        dirty == S.slot[v].valid /\ S.slot[v].dirty
        T == Taken(IF dirty THEN written_back(S, v) ELSE S, v, b)
    IN CASE cached(S, b) -> Ok([S EXCEPT !.slot[First(Holding(S, b))].age = 0])
         [] ~cached(S, b) /\ dirty /\ S.slot[v].blk \in bad -> Eio(S)
         [] ~cached(S, b) /\ ~(dirty /\ S.slot[v].blk \in bad) /\ load ->
              IF b \in bad THEN Eio(T) ELSE Ok([T EXCEPT !.slot[v].data = T.disk[b], !.slot[v].valid = TRUE])
         [] OTHER -> Ok([T EXCEPT !.slot[v].data = 0, !.slot[v].valid = TRUE,
                                  !.slot[v].dirty = TRUE, !.count = @ + 1])

-----------------------------------------------------------------------------
(* Write-back: blocks in order, neighbours in one request.                 *)

\* Where the run of neighbours of b in D starts, and the request b is part of.
RunStart(D, b) == CHOOSE a \in D : /\ a <= b /\ a..b \subseteq D /\ a - 1 \notin D
Request(D, b) ==
    {c \in D : /\ RunStart(D, c) = RunStart(D, b)
               /\ (c - RunStart(D, c)) \div MAX_SEGS = (b - RunStart(D, b)) \div MAX_SEGS}

\* A request that fails leaves its blocks dirty; the others go on.
flush_dirty(S, bad) ==
    LET D == {S.slot[s].blk : s \in Dirty(S)}
        out == {s \in Dirty(S) : Request(D, S.slot[s].blk) \cap bad = {}}
        T == [S EXCEPT !.disk = [b \in DOMAIN @ |->
                           IF \E s \in out : S.slot[s].blk = b
                           THEN S.slot[CHOOSE s \in out : S.slot[s].blk = b].data ELSE @[b]],
                       !.slot = [s \in Slots |-> [@[s] EXCEPT !.dirty = @ /\ s \notin out]],
                       !.count = @ - Cardinality(out)]
    IN CASE S.count = 0 -> Ok(S)
         [] S.count # 0 /\ D = {} -> Ok([S EXCEPT !.count = 0])
         [] OTHER -> [ok |-> out = Dirty(S), S |-> T]

\* The caller stores v in the block it has, then bdirty: too many start a
\* write-back, whose failure nobody hears of.
bdirty(S, b, v, bad) ==
    LET s == First(Holding(S, b))
        T == [S EXCEPT !.slot[s].data = v, !.slot[s].dirty = TRUE,
                       !.count = IF S.slot[s].dirty THEN @ ELSE @ + 1]
    IN IF ~S.slot[s].dirty /\ T.count >= DirtyMax THEN flush_dirty(T, bad).S ELSE T

bforget(S, b) ==
    [S EXCEPT !.slot = [s \in Slots |-> IF s \in Holding(S, b) THEN [@[s] EXCEPT !.valid = FALSE, !.dirty = FALSE] ELSE @[s]],
              !.count = @ - Cardinality(Holding(S, b) \cap Dirty(S))]

-----------------------------------------------------------------------------
(* Read-ahead of n blocks from b on: stops at one that is in the cache or  *)
(* has no clean slot. A slot taken for an earlier block of the same read   *)
(* is not valid yet, and so may be taken again: the later block has it.    *)

Clean(S, b) == {s \in SetOf(b) : ~(S.slot[s].valid /\ (S.slot[s].dirty \/ S.slot[s].age = 0))}
Before(S, s, u) == ~S.slot[s].valid \/ (S.slot[u].valid /\ S.slot[u].age <= S.slot[s].age)
TakeAhead(a, b) ==
    LET v == First({s \in Clean(a.S, b) : \A u \in Clean(a.S, b) : Before(a.S, s, u)})
    IN IF a.stop \/ cached(a.S, b) \/ Clean(a.S, b) = {} THEN [a EXCEPT !.stop = TRUE]
       ELSE [a EXCEPT !.S = Taken(@, v, b), !.taken = Append(@, <<v, b>>)]

prefetch(S0, b, n, bad) ==
    LET a == FoldLeft(TakeAhead, [S |-> Ticks(S0), taken |-> <<>>, stop |-> FALSE],
                      [k \in 1..(IF n < MAX_SEGS THEN n ELSE MAX_SEGS) |-> b + k - 1])
        ok == \A i \in DOMAIN a.taken : a.taken[i][2] \notin bad
        Fill(S, t) == [S EXCEPT !.slot[t[1]].valid = ok, !.slot[t[1]].data = IF ok THEN S.disk[t[2]] ELSE @]
    IN FoldLeft(Fill, a.S, a.taken)

-----------------------------------------------------------------------------
(* The calls. *)

\* No request fails, or those of one block, or all.
Faults == {{}, {LastBlock}, 0..LastBlock}

\* Ages matter for their order only.
Rank(S, s) ==
    IF ~S.slot[s].valid THEN Empty
    ELSE [S.slot[s] EXCEPT !.age = Cardinality({S.slot[u].age : u \in {u \in Slots : u[1] = s[1] /\ S.slot[u].valid
                                                                                    /\ S.slot[u].age < S.slot[s].age}})]
\* (The disk's value of a block that is free does not matter.)
Leave(S) ==
    /\ slot' = [s \in Slots |-> Rank(S, s)] /\ count' = S.count
    /\ disk' = [b \in 0..LastBlock |-> IF b > 0 /\ truth[b] < 0 /\ ~cached(S, b) THEN 0 ELSE S.disk[b]]

\* read of a block of a file whose next n - 1 blocks follow it on disk.
read(b, n, bad) ==
    /\ \A c \in b..b + n - 1 : truth[c] >= 0
    /\ LET r == bget(IF cached(Cache, b) THEN Cache ELSE prefetch(Cache, b, n, bad), b, TRUE, bad)
       IN Leave(r.S)
    /\ UNCHANGED <<truth, noted>>

\* write: a block that is written whole is not loaded.
write(b, whole, v, bad) ==
    /\ truth[b] >= 0
    /\ LET r == bget(Cache, b, ~whole, bad)
       IN /\ Leave(IF r.ok THEN bdirty(r.S, b, v, bad) ELSE r.S)
          /\ truth' = [truth EXCEPT ![b] = IF r.ok THEN v ELSE @]
    /\ UNCHANGED noted

\* alloc_block: found zeroed; without a slot for it, the block is lost.
alloc_block(b, bad) ==
    /\ truth[b] = Free
    /\ LET r == bget(Cache, b, FALSE, bad)
       IN Leave(r.S) /\ truth' = [truth EXCEPT ![b] = IF r.ok THEN 0 ELSE Lost]
    /\ UNCHANGED noted

free_block(b) ==
    /\ truth[b] >= 0
    /\ Leave(bforget(Cache, b))
    /\ truth' = [truth EXCEPT ![b] = Free]
    /\ UNCHANGED noted

\* flush_super is made when the counts moved, and they are noted either way.
FreeBlocks == Cardinality({b \in Blocks : truth[b] = Free})
Synced(bad) ==
    LET due == noted # FreeBlocks
        r == flush_dirty(IF due /\ 0 \notin bad THEN [Cache EXCEPT !.disk[0] = FreeBlocks] ELSE Cache, bad)
    IN [r EXCEPT !.ok = @ /\ ~(due /\ 0 \in bad)]

sync(bad) ==
    /\ Leave(Synced(bad).S)
    /\ noted' = FreeBlocks
    /\ UNCHANGED truth

\* read_all_phys reads the disk itself, after a sync if there are dirty blocks
\* (and whatever that sync said).
read_all_phys(bad) ==
    /\ IF count > 0
       THEN Leave(Synced(bad).S) /\ noted' = FreeBlocks
       ELSE Leave(Cache) /\ UNCHANGED noted
    /\ UNCHANGED truth

CacheInit ==
    /\ slot = [s \in Slots |-> Empty]
    /\ count = 0
    /\ truth = [b \in Blocks |-> IF b \in Spare THEN Free ELSE 1]
    /\ disk = [b \in 0..LastBlock |-> IF b = 0 THEN FreeBlocks ELSE 1]
    /\ noted = FreeBlocks

CacheNext ==
    \/ \E bad \in Faults : \E b \in Blocks :
          \/ \E n \in 1..MAX_SEGS : b + n - 1 <= LastBlock /\ read(b, n, bad)
          \/ \E whole \in BOOLEAN, v \in Values : write(b, whole, v, bad)
          \/ b \in Spare /\ alloc_block(b, bad)
    \/ \E b \in Spare : free_block(b)
    \/ \E bad \in Faults : sync(bad) \/ read_all_phys(bad)

-----------------------------------------------------------------------------
(* Properties. *)

\* Whatever was evicted, read ahead, forgotten or could not be written: a block of
\* a file is in one slot at most, that slot or else the disk has the value last
\* written, a clean slot agrees with the disk, and DIRTY_COUNT is the number of
\* dirty slots (it decides if sync writes anything).
BlocksRight ==
    /\ \A b \in Blocks : truth[b] >= 0 =>
          IF cached(Cache, b)
          THEN \A s \in Holding(Cache, b) :
                  /\ slot[s].data = truth[b]
                  /\ slot[s].dirty \/ disk[b] = truth[b]
                  /\ Cardinality(Holding(Cache, b)) = 1
          ELSE disk[b] = truth[b]
    /\ count = Cardinality(Dirty(Cache))

\* A sync that reports success leaves on disk all that was written, whichever
\* requests failed before it; and without dirty blocks the disk has it already, for
\* read_all_phys reads behind the cache's back then.
SyncedIsOnDisk ==
    LET Has(d) == \A b \in Blocks : truth[b] >= 0 => d[b] = truth[b]
    IN /\ \A bad \in Faults : Synced(bad).ok => Has(Synced(bad).S.disk)
       /\ count = 0 => Has(disk)

\* The same for the superblock, whose counts are noted as written even when the
\* write failed.
SuperOnDisk == noted = FreeBlocks => disk[0] = FreeBlocks
=============================================================================
