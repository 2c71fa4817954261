------------------------------ MODULE BlockMap ------------------------------
(***************************************************************************)
(* Where the blocks of a file are (ext2.rs): the pointers of its inode,    *)
(* indirect blocks of LEVELS levels, the bitmaps and counts of the groups. *)
(* write may run out of blocks half way; truncate gives back what is past  *)
(* the new end. One call at a time (FS); requests to the disk do not fail  *)
(* here (BlockCache). Sizes are in halves of a block.                      *)
(***************************************************************************)
EXTENDS Integers, FiniteSets, SequencesExt, FiniteSetsExt

CONSTANTS
    Inodes,       \* files
    Direct,       \* direct pointers of an inode: 12
    PPB,          \* pointers in a block
    LEVELS,       \* levels of indirect blocks: 3
    GROUPS, BPG,  \* groups, and blocks of each
    MaxSize       \* largest size that is tried for each file, in halves

VARIABLES
    bitmap,    \* blocks taken
    gfree,     \* GD_FREE_BLOCKS of each group
    nfree,     \* free_blocks
    mem,       \* block -> its two halves and its pointers
    node,      \* inode -> pointers, blocks counted (blocks512), size
    text       \* inode -> what a reader must find in each half

mapVars == <<bitmap, gfree, nfree, mem, node, text>>

DataBlocks == 1..GROUPS * BPG
GroupOf(b) == (b - 1) \div BPG
Pointers == 0..PPB - 1
Zeroed   == [half |-> [h \in 0..1 |-> 0], ptr |-> [i \in Pointers |-> 0]]
NoNode   == [block |-> [i \in 0..Direct + LEVELS - 1 |-> 0], count |-> 0, size |-> 0]

Volume == [bitmap |-> bitmap, gfree |-> gfree, nfree |-> nfree, mem |-> mem]
RangeSeq(n) == [i \in 1..n |-> i - 1]

-----------------------------------------------------------------------------
(* Allocation. *)

\* The first zero bit of a group.
FirstFree(V, g) == Min({b \in DataBlocks \ V.bitmap : GroupOf(b) = g})
Taken(V, b) ==
    [ok |-> TRUE, b |-> b,
     V |-> [V EXCEPT !.bitmap = @ \cup {b}, !.gfree[GroupOf(b)] = @ - 1, !.nfree = @ - 1, !.mem[b] = Zeroed]]

\* Groups are asked from the goal on, for the first that counts a free block.
alloc_block(V, goal) ==
    LET open == {k \in 0..GROUPS - 1 : V.gfree[(goal + k) % GROUPS] > 0}
    IN IF V.nfree = 0 \/ open = {} THEN [ok |-> FALSE, V |-> V, b |-> 0]
       ELSE Taken(V, FirstFree(V, (goal + Min(open)) % GROUPS))

free_block(V, b) ==
    IF b \notin V.bitmap THEN V
    ELSE [V EXCEPT !.bitmap = @ \ {b}, !.gfree[GroupOf(b)] = @ + 1, !.nfree = @ + 1]

-----------------------------------------------------------------------------
(* The map. *)

\* The first logical block that each level (1..LEVELS) covers.
Bases == [v \in 1..LEVELS |-> Direct + MapThenSumSet(LAMBDA k : PPB^k, 1..v - 1)]

\* The pointer of the inode, then the pointer in each indirect block.
PathOf(l) ==
    IF l < Direct THEN <<l>>
    ELSE LET v == CHOOSE v \in 1..LEVELS : Bases[v] <= l /\ l < Bases[v] + PPB^v
             r == l - Bases[v]
         IN <<Direct + v - 1>> \o [k \in 1..v |-> (r \div PPB^(v - k)) % PPB]
Paths == [l \in 0..Bases[LEVELS] + PPB^LEVELS - 1 |-> PathOf(l)]
block_path(l) == Paths[l]
Mappable(l) == l < Bases[LEVELS] + PPB^LEVELS

\* The block of logical block l, 0 for a hole.
bmap(V, n, l) ==
    LET path == block_path(l)
        Step(b, i) == IF b = 0 THEN 0 ELSE V.mem[b].ptr[i]
    IN IF ~Mappable(l) THEN 0 ELSE FoldLeft(Step, n.block[path[1]], Tail(path))

\* One level of bmap_alloc: a = where we are, r = a block for what is missing.
Linked(a, i, r) ==
    IF r.ok THEN [a EXCEPT !.V = [r.V EXCEPT !.mem[a.b].ptr[i] = r.b], !.b = r.b, !.n.count = @ + 1]
    ELSE [a EXCEPT !.ok = FALSE]
Descend(a, i, goal) ==
    CASE ~a.ok -> a
      [] a.ok /\ a.V.mem[a.b].ptr[i] # 0 -> [a EXCEPT !.b = a.V.mem[a.b].ptr[i]]
      [] OTHER -> Linked(a, i, alloc_block(a.V, goal))

\* The pointer of the inode.
Rooted(n, i, r) ==
    IF r.ok THEN [ok |-> TRUE, V |-> r.V, b |-> r.b, n |-> [n EXCEPT !.block[i] = r.b, !.count = @ + 1]]
    ELSE [ok |-> FALSE, V |-> r.V, n |-> n, b |-> 0]
Top(V, n, i, goal) ==
    IF n.block[i] # 0 THEN [ok |-> TRUE, V |-> V, n |-> n, b |-> n.block[i]]
    ELSE Rooted(n, i, alloc_block(V, goal))

\* bmap_alloc: the blocks that are missing on the way, as far as there are any.
bmap_alloc(V, n, l, goal) ==
    IF ~Mappable(l) THEN [ok |-> FALSE, V |-> V, n |-> n, b |-> 0]
    ELSE FoldLeft(LAMBDA a, i : Descend(a, i, goal), Top(V, n, block_path(l)[1], goal), Tail(block_path(l)))

-----------------------------------------------------------------------------
(* Truncation. *)

\* Gives a block back and counts it.
Drop(a, b) == [a EXCEPT !.V = free_block(@, b), !.n.count = @ - 1]

\* A pointer of the last level goes if its block is past the end.
Dropped(level, base, span, keep) == base >= keep

\* trunc_ind: frees what indirect block b of this level has from `keep` on; told is
\* if nothing is left in it.
RECURSIVE trunc_ind(_, _, _, _, _)
trunc_ind(a0, b, level, base, keep) ==
    LET span == PPB^(level - 1)
        One(a, i) ==
            LET child == a.V.mem[b].ptr[i]
                cbase == base + i * span
                sub == IF level = 1 THEN [a EXCEPT !.empty = Dropped(level, cbase, span, keep)]
                       ELSE [trunc_ind(a, child, level - 1, cbase, keep) EXCEPT !.empty = @]
            IN CASE child = 0 -> a
                 [] child # 0 /\ cbase + span <= keep -> [a EXCEPT !.empty = FALSE]
                 [] child # 0 /\ cbase + span > keep /\ sub.empty ->
                      [[Drop(sub, child) EXCEPT !.V.mem[b].ptr[i] = 0] EXCEPT !.empty = a.empty]
                 [] OTHER -> [sub EXCEPT !.empty = FALSE]
    IN FoldLeft(One, [a0 EXCEPT !.empty = TRUE], RangeSeq(PPB))

\* Mutant: the block the end is in is not kept.
Blocks_Whole(size) == size \div 2

\* Blocks that `size` halves need.
Blocks(size) == (size + 1) \div 2

\* truncate_inode: direct pointers, the trees, and zeros from the end to the end of
\* the block it is in.
truncate_inode(V, n, size) ==
    LET keep == Blocks(size)
        DirectOne(a, i) == IF i < keep \/ a.n.block[i] = 0 THEN a
                           ELSE [Drop(a, a.n.block[i]) EXCEPT !.n.block[i] = 0]
        Tree(a, v) ==
            LET at == Direct + v - 1
                r == trunc_ind(a, a.n.block[at], v, Bases[v], keep)
            IN IF a.n.block[at] = 0 THEN a
               ELSE IF r.empty THEN [Drop(r, a.n.block[at]) EXCEPT !.n.block[at] = 0] ELSE r
        a1 == FoldLeft(DirectOne, [V |-> V, n |-> n, empty |-> TRUE], RangeSeq(Direct))
        a2 == FoldLeft(Tree, a1, [v \in 1..LEVELS |-> v])
        b  == bmap(a2.V, a2.n, size \div 2)
        a3 == IF size % 2 = 0 \/ b = 0 THEN a2 ELSE [a2 EXCEPT !.V.mem[b].half[1] = 0]
        a  == IF size < n.size THEN a3 ELSE [V |-> V, n |-> n]
    IN [V |-> a.V, n |-> [a.n EXCEPT !.size = size]]

-----------------------------------------------------------------------------
(* The calls. *)

Leaves(V, f, n) ==
    /\ bitmap' = V.bitmap /\ gfree' = V.gfree /\ nfree' = V.nfree
    /\ mem' = [b \in DataBlocks |-> IF b \in V.bitmap THEN V.mem[b] ELSE Zeroed]
    /\ node' = [node EXCEPT ![f] = n]

\* One half of a write, if there was a block for it.
Put(a, h, r) ==
    IF r.ok THEN [a EXCEPT !.V = [r.V EXCEPT !.mem[r.b].half[h % 2] = 1], !.n = r.n, !.done = @ + 1]
    ELSE [a EXCEPT !.V = r.V, !.n = r.n, !.ok = FALSE]

\* write of the halves off..off + len - 1, as far as there are blocks. The inode is
\* saved with what it got; the size grows to `off` even when nothing was written.
write(f, off, len) ==
    LET One(a, h) == IF a.ok THEN Put(a, h, bmap_alloc(a.V, a.n, h \div 2, f % GROUPS)) ELSE a
    IN \E a \in {FoldLeft(One, [ok |-> TRUE, V |-> Volume, n |-> node[f], done |-> 0], [i \in 1..len |-> off + i - 1])} :
       /\ Leaves(a.V, f, [a.n EXCEPT !.size = IF off + a.done > @ THEN off + a.done ELSE @])
       /\ text' = [text EXCEPT ![f] = [h \in DOMAIN @ |-> IF h \in off..off + a.done - 1 THEN 1 ELSE @[h]]]

Cut(t, size) == [h \in DOMAIN t |-> IF h < size THEN t[h] ELSE 0]
truncate(f, size) ==
    \E r \in {truncate_inode(Volume, node[f], size)} :
       Leaves(r.V, f, r.n) /\ text' = [text EXCEPT ![f] = Cut(@, size)]

\* release_inode: the last name and the last descriptor are gone.
release_inode(f) ==
    \E r \in {truncate_inode(Volume, node[f], 0)} :
       Leaves(r.V, f, NoNode) /\ text' = [text EXCEPT ![f] = Cut(@, 0)]

MapInit ==
    /\ bitmap = {} /\ gfree = [g \in 0..GROUPS - 1 |-> BPG] /\ nfree = GROUPS * BPG
    /\ mem = [b \in DataBlocks |-> Zeroed]
    /\ node = [f \in Inodes |-> NoNode]
    /\ text = [f \in Inodes |-> [h \in 0..MaxSize[f] - 1 |-> 0]]

MapNext ==
    \E f \in Inodes :
       \/ \E off \in 0..MaxSize[f] - 1 : \E len \in 1..Min({3, MaxSize[f] - off}) : write(f, off, len)
       \/ \E size \in 0..MaxSize[f] : truncate(f, size)
       \/ release_inode(f)

-----------------------------------------------------------------------------
(* Properties. *)

\* The blocks a pointer reaches, with those of the tree under it.
RECURSIVE Under(_, _)
Under(b, level) ==
    IF b = 0 THEN <<>>
    ELSE IF level = 0 THEN <<b>>
    ELSE <<b>> \o FlattenSeq([i \in 1..PPB |-> Under(mem[b].ptr[i - 1], level - 1)])
Tree(f) ==
    FlattenSeq([i \in 1..Direct + LEVELS |-> Under(node[f].block[i - 1], IF i <= Direct THEN 0 ELSE i - Direct)])

\* After any mixture of writes with holes, writes that ran out of blocks and
\* truncations to any length: a reader finds in every half what was last written, or
\* zeros (never what a shorter file had there before); no block is in two places; the
\* blocks taken are those in use, none is leaked; and the inode's count, the groups' and
\* the volume's agree with the bitmaps.
MapRight ==
    /\ \A f \in Inodes : \A h \in 0..node[f].size - 1 :
          LET b == bmap(Volume, node[f], h \div 2)
          IN text[f][h] = IF b = 0 THEN 0 ELSE mem[b].half[h % 2]
    /\ \A f \in Inodes : node[f].count = Len(Tree(f))
    /\ bitmap = UNION {ToSet(Tree(f)) : f \in Inodes}
    /\ Cardinality(bitmap) = MapThenSumSet(LAMBDA f : Len(Tree(f)), Inodes)
    /\ \A g \in DOMAIN gfree : gfree[g] = Cardinality({b \in DataBlocks \ bitmap : GroupOf(b) = g})
    /\ nfree = Cardinality(DataBlocks \ bitmap)
=============================================================================
