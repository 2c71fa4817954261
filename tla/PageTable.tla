----------------------------- MODULE PageTable ------------------------------
(***************************************************************************)
(* Page tables (mmu.rs of the three architectures): trees of frames that   *)
(* grow as pages are mapped, are walked, copied by fork and returned, with *)
(* entries of the kernel in them that belong to nobody; and the bits that  *)
(* say what a program may do with a page. Vm has a function from pages to  *)
(* entries in their place, here the variable view.                         *)
(***************************************************************************)
EXTENDS Integers, FiniteSets

CONSTANTS
    FAN,         \* entries of a table (512)
    Machines     \* what a behaviour is about: the architecture ("aarch64",
                 \* "x86_64", "riscv64"), the number of frames that tables and
                 \* pages share, the address spaces and which of them are made
                 \* other than by fork, the pages that programs use, the
                 \* protections (sets of "r", "w" and "x") and calls

None == 0                       \* no frame
Kernel == -1                    \* tables and blocks of the kernel

VARIABLES
    machine,
    mem,         \* what each frame holds
    root,        \* root table of each space, or None
    view,        \* what each page of a space is meant to be
    lost         \* frames nobody will return

tableVars == <<machine, mem, root, view, lost>>

arch   == machine.arch
Ram == 1 .. machine.frames
Users  == machine.users
VAs    == machine.pages
UserProts  == machine.prots

(***************************************************************************)
(* What the bits of an entry mean                                          *)
(***************************************************************************)
Bit(b, when) == IF when THEN {b} ELSE {}

\* user_prot: the bits of a page of mmap.
user_prot_aarch64(p) ==
    Bit("AP1", p # {}) \cup Bit("AP2", p # {} /\ "w" \notin p) \cup Bit("UXN", "x" \notin p)
user_prot_x86_64(p) ==
    {"P"} \cup Bit("USER", p # {}) \cup Bit("RW", "w" \in p) \cup Bit("NX", "x" \notin p)
user_prot_riscv64(p) ==
    IF p = {} THEN {"R", "A"}
    ELSE {"R", "U", "A"} \cup (IF "w" \in p THEN {"W", "D"} ELSE {}) \cup Bit("X", "x" \in p)

user_prot(p) ==
    CASE arch = "aarch64" -> user_prot_aarch64(p)
      [] arch = "x86_64"  -> user_prot_x86_64(p)
      [] arch = "riscv64" -> user_prot_riscv64(p)

\* What the hardware lets a program do with such an entry.
Allows(b) ==
    CASE arch = "aarch64" -> IF "AP1" \in b
                             THEN {"r"} \cup Bit("w", "AP2" \notin b) \cup Bit("x", "UXN" \notin b) ELSE {}
      [] arch = "x86_64"  -> IF {"P", "USER"} \subseteq b
                             THEN {"r"} \cup Bit("w", "RW" \in b) \cup Bit("x", "NX" \notin b) ELSE {}
      [] arch = "riscv64" -> IF "U" \in b
                             THEN Bit("r", "R" \in b) \cup Bit("w", "W" \in b) \cup Bit("x", "X" \in b) ELSE {}

\* fork: what is read-only already, and what becomes so.
ReadOnly(b) ==
    CASE arch = "aarch64" -> "AP2" \in b
      [] arch = "x86_64"  -> "RW" \notin b
      [] arch = "riscv64" -> "W" \notin b
NoWrite(b) ==
    CASE arch = "aarch64" -> b \cup {"AP2"}
      [] arch = "x86_64"  -> b \ {"RW"}
      [] arch = "riscv64" -> b \ {"W"}

\* The bit of the software: a page of a shared object, which the space does
\* not own.
Shared(e) == "SHARED" \in e.bits

(***************************************************************************)
(* Frames and tables                                                    *)
(***************************************************************************)
NoEntry == [kind |-> "none", to |-> None, bits |-> {}]
Table(t) == [kind |-> "table", to |-> t, bits |-> {}]
Leaf(f, b) == [kind |-> "leaf", to |-> f, bits |-> b]
Block == [kind |-> "leaf", to |-> Kernel, bits |-> {}]

Free == [is |-> "free"]
Empty == [is |-> "table", e |-> [i \in 0 .. FAN - 1 |-> NoEntry]]
Page(n) == [is |-> "page", refs |-> n]

FreeIn(m) == {f \in Ram : m[f].is = "free"}
\* alloc_frame; which frame it is does not matter.
AllocIn(m) == IF FreeIn(m) = {} THEN None ELSE CHOOSE f \in FreeIn(m) : \A g \in FreeIn(m) : f <= g

\* free_frame and inc_ref of n references at once
Dropped(m, f, n) ==
    IF f \notin Ram \/ n = 0 THEN m
    ELSE [m EXCEPT ![f] = IF @.is = "page" /\ @.refs > n THEN Page(@.refs - n) ELSE Free]
Counted(m, f) == [m EXCEPT ![f] = Page(@.refs + 1)]

Top == IF arch = "riscv64" THEN 2 ELSE 3
Index(va, l) == (va \div (FAN ^ l)) % FAN

\* The table of each level that va is looked up in, None if the walk ends
\* before. A gigapage or a block ends it.
Tables(m, r, va) ==
    LET t[l \in 0 .. Top] ==
            IF l = Top THEN r
            ELSE LET up == t[l + 1]
                     e == IF up \in Ram THEN m[up].e[Index(va, l + 1)] ELSE NoEntry
                 IN IF e.kind = "table" THEN e.to ELSE None
    IN t
Walk(m, r, va) ==
    LET t == Tables(m, r, va)[0] IN IF t \in Ram THEN m[t].e[Index(va, 0)] ELSE NoEntry

\* The next table down, made if there is none.
next_table(m, t, i) ==
    LET e == m[t].e[i]
        f == AllocIn(m)
    IN IF e.kind = "table" THEN [m |-> m, t |-> e.to]
       ELSE IF e.kind = "leaf" \/ f = None THEN [m |-> m, t |-> None]
       ELSE [m |-> [m EXCEPT ![f] = Empty, ![t].e[i] = Table(f)], t |-> f]

\* The entry of va is written; tables made on the way stay when one is missing.
map_page_locked(m, r, va, entry) ==
    LET d[l \in 0 .. Top] ==
            IF l = Top THEN [m |-> m, t |-> r]
            ELSE IF d[l + 1].t = None THEN d[l + 1]
            ELSE next_table(d[l + 1].m, d[l + 1].t, Index(va, l + 1))
    IN IF d[0].t = None THEN [m |-> d[0].m, ok |-> FALSE]
       ELSE [m |-> [d[0].m EXCEPT ![d[0].t].e[Index(va, 0)] = entry], ok |-> TRUE]

\* All tables of a space that are its own, from the root down.
Own(m, r) ==
    LET down(ts) == {t \in Ram : \E u \in ts, i \in 0 .. FAN - 1 : m[u].e[i] = Table(t)}
        reach[l \in 0 .. Top] == IF l = Top THEN {r} ELSE down(reach[l + 1])
    IN [all |-> UNION {reach[l] : l \in 0 .. Top}, last |-> reach[0]]

LeavesTo(m, ts, f) ==
    {x \in ts \X (0 .. FAN - 1) : LET e == m[x[1]].e[x[2]] IN e.kind = "leaf" /\ e.to = f /\ ~Shared(e)}

\* Tables are returned, pages lose the references of the space's entries; what
\* is shared and what is the kernel's stays.
FreedSpace(m, r) ==
    LET own == Own(m, r)
    IN [f \in Ram |->
          IF f \in own.all THEN Free ELSE Dropped(m, f, Cardinality(LeavesTo(m, own.last, f)))[f]]

(***************************************************************************)
(* Spaces                                                                  *)
(***************************************************************************)
\* The tables a space starts with. Where the kernel is: of four levels, in the
\* second entry of the second level and in the first of the third; of three,
\* in the second of the root.
NewSpace(m) ==
    LET a == AllocIn(m)
        m1 == IF a = None THEN m ELSE [m EXCEPT ![a] = Empty]
        b == AllocIn(m1)
        m2 == IF b = None THEN m1 ELSE [m1 EXCEPT ![b] = Empty]
        c == AllocIn(m2)
        m3 == IF c = None THEN m2 ELSE [m2 EXCEPT ![c] = Empty]
        mmio == IF arch = "aarch64" THEN Table(Kernel) ELSE Block
    IN IF arch = "riscv64"
       THEN [m |-> IF a = None THEN m1 ELSE [m1 EXCEPT ![a].e[1] = Block],
             r |-> a, left |-> {}]
       ELSE IF c = None THEN [m |-> m2, r |-> None, left |-> {a, b} \ {None}]
       ELSE [m |-> [m3 EXCEPT ![a].e[0] = Table(b), ![b].e[0] = Table(c), ![b].e[1] = Table(Kernel),
                              ![c].e[0] = mmio],
             r |-> a, left |-> {}]

NoPage == [to |-> None, may |-> {}, shared |-> FALSE]
NoView == [va \in VAs |-> NoPage]
Granted(p) == IF p = {} THEN {} ELSE p \cup {"r"}

\* Without memory for the second or the third table the first are not
\* returned.
create_user_space(u) ==
    LET n == NewSpace(mem)
    IN /\ root[u] = None
       /\ mem' = n.m
       /\ root' = [root EXCEPT ![u] = n.r]
       /\ lost' = lost \cup n.left
       /\ UNCHANGED <<machine, view>>

free_user_space(u) ==
    /\ root[u] # None
    /\ mem' = FreedSpace(mem, root[u])
    /\ root' = [root EXCEPT ![u] = None]
    /\ view' = [view EXCEPT ![u] = NoView]
    /\ UNCHANGED <<machine, lost>>

(***************************************************************************)
(* Pages                                                                   *)
(***************************************************************************)
\* A page of its own, given back when a table is missing (vm.rs).
map_page_in(u, va, p) ==
    LET f == AllocIn(mem)
        d == map_page_locked([mem EXCEPT ![f] = Page(1)], root[u], va, Leaf(f, user_prot(p)))
    IN /\ root[u] # None /\ view[u][va] = NoPage
       /\ f # None
       /\ mem' = IF d.ok THEN d.m ELSE Dropped(d.m, f, 1)
       /\ view' = IF d.ok THEN [view EXCEPT ![u][va] = [to |-> f, may |-> Granted(p), shared |-> FALSE]]
                  ELSE view
       /\ UNCHANGED <<machine, root, lost>>

\* A page of a shared object; the frames of objects are not among these.
map_shared(u, va, p) ==
    LET d == map_page_locked(mem, root[u], va, Leaf(Kernel, user_prot(p) \cup {"SHARED"}))
    IN /\ root[u] # None /\ view[u][va] = NoPage
       /\ mem' = d.m
       /\ view' = IF d.ok THEN [view EXCEPT ![u][va] = [to |-> Kernel, may |-> Granted(p), shared |-> TRUE]]
                  ELSE view
       /\ UNCHANGED <<machine, root, lost>>

\* The leaves of [a, b) that exist, in order: a missing table skips all of its
\* range.
Visited(m, r, a, b) ==
    {va \in a .. b - 1 :
        LET t == Tables(m, r, va)[0]
        IN t \in Ram /\ m[t].e[Index(va, 0)].kind = "leaf"}

Cut(m, r, vas) ==
    LET at(va) == <<Tables(m, r, va)[0], Index(va, 0)>>
        gone == {at(va) : va \in vas}
    IN [f \in Ram |->
          IF m[f].is = "table"
          THEN [m[f] EXCEPT !.e = [i \in 0 .. FAN - 1 |-> IF <<f, i>> \in gone THEN NoEntry ELSE m[f].e[i]]]
          ELSE Dropped(m, f, Cardinality({x \in gone : LET e == m[x[1]].e[x[2]] IN e.to = f /\ ~Shared(e)}))[f]]

unmap_range(u, a, b) ==
    /\ root[u] # None
    /\ mem' = Cut(mem, root[u], Visited(mem, root[u], a, b))
    /\ view' = [view EXCEPT ![u] = [va \in VAs |-> IF va \in a .. b - 1 THEN NoPage ELSE @[va]]]
    /\ UNCHANGED <<machine, root, lost>>

\* The new bits, and the bit of the software as it was.
Reprotected_Plain(e, p) == Leaf(e.to, user_prot(p))
Reprotected(e, p) == Leaf(e.to, user_prot(p) \cup (e.bits \cap {"SHARED"}))

protect_range(u, a, b, p) ==
    LET vas == Visited(mem, root[u], a, b)
    IN /\ root[u] # None
       /\ mem' = [f \in Ram |->
             IF mem[f].is # "table" THEN mem[f]
             ELSE [mem[f] EXCEPT !.e = [i \in 0 .. FAN - 1 |->
                     IF \E va \in vas : f = Tables(mem, root[u], va)[0] /\ i = Index(va, 0)
                     THEN Reprotected(mem[f].e[i], p) ELSE mem[f].e[i]]]]
       /\ view' = [view EXCEPT ![u] = [va \in VAs |->
                     IF va \in a .. b - 1 /\ @[va] # NoPage THEN [@[va] EXCEPT !.may = Granted(p)] ELSE @[va]]]
       /\ UNCHANGED <<machine, root, lost>>

\* mremap: a page keeps its bits; one for which no table can be made stays.
move_range(u, va, to) ==
    LET e == Walk(mem, root[u], va)
        d == map_page_locked(mem, root[u], to, e)
    IN /\ root[u] # None /\ e.kind = "leaf" /\ view[u][to] = NoPage
       /\ IF d.ok
             THEN /\ mem' = [d.m EXCEPT ![Tables(d.m, root[u], va)[0]].e[Index(va, 0)] = NoEntry]
                  /\ view' = [view EXCEPT ![u][to] = view[u][va], ![u][va] = NoPage]
             ELSE mem' = d.m /\ view' = view
       /\ UNCHANGED <<machine, root, lost>>

(***************************************************************************)
(* fork                                                                    *)
(***************************************************************************)
\* One page: shared ones as they are, the others one more reference, and
\* without write permission in both spaces.
Copied(s, src, dst, va) ==
    LET e == Walk(s.m, src, va)
        own == ~Shared(e)
        bits == IF own /\ ~ReadOnly(e.bits) THEN NoWrite(e.bits) ELSE e.bits
        m1 == [s.m EXCEPT ![Tables(s.m, src, va)[0]].e[Index(va, 0)] = Leaf(e.to, bits)]
        m2 == IF own THEN Counted(m1, e.to) ELSE m1
        d == map_page_locked(m2, dst, va, Leaf(e.to, bits))
    IN IF e.kind # "leaf" \/ ~s.ok THEN s
       ELSE IF d.ok THEN [m |-> d.m, ok |-> TRUE, done |-> s.done \cup {va}]
       ELSE [m |-> IF own THEN Dropped(d.m, e.to, 1) ELSE d.m, ok |-> FALSE, done |-> s.done \cup {va}]

CopiedAll(m, src, dst) ==
    LET vas == VAs
        last == CHOOSE x \in vas : \A y \in vas : y <= x
        step[va \in 0 .. last] ==
            LET s == IF va = 0 THEN [m |-> m, ok |-> TRUE, done |-> {}] ELSE step[va - 1]
            IN IF va \in vas THEN Copied(s, src, dst, va) ELSE s
    IN step[last]

ForkView(v, done) ==
    [va \in VAs |-> IF va \in done /\ ~v[va].shared THEN [v[va] EXCEPT !.may = @ \ {"w"}] ELSE v[va]]

\* When a table is missing the child's space is given back; the pages of the
\* parent that were reached stay without write permission.
clone_user_space(u, child) ==
    LET n == NewSpace(mem)
        c == CopiedAll(n.m, root[u], n.r)
    IN /\ root[u] # None /\ root[child] = None
       /\ IF n.r = None THEN /\ mem' = n.m /\ lost' = lost \cup n.left
                             /\ UNCHANGED <<root, view>>
          ELSE /\ mem' = IF c.ok THEN c.m ELSE FreedSpace(c.m, n.r)
               /\ root' = IF c.ok THEN [root EXCEPT ![child] = n.r] ELSE root
               /\ view' = IF c.ok THEN [view EXCEPT ![u] = ForkView(@, c.done), ![child] = ForkView(view[u], c.done)]
                          ELSE [view EXCEPT ![u] = ForkView(@, c.done)]
               /\ UNCHANGED lost
       /\ UNCHANGED machine

\* The address the kernel uses for a page of a program, None if the program
\* could not use it so itself.
translate_user(u, va, write) ==
    LET e == Walk(mem, root[u], va)
    IN IF e.kind = "leaf" /\ "r" \in Allows(e.bits) /\ (write => "w" \in Allows(e.bits)) THEN e.to ELSE None

TableInit ==
    /\ machine \in Machines
    /\ mem = [f \in Ram |-> Free]
    /\ root = [u \in Users |-> None]
    /\ view = [u \in Users |-> NoView]
    /\ lost = {}

Ranges == {r \in VAs \X VAs : r[1] <= r[2]}

May(c) == c \in machine.calls

TableNext ==
    \/ \E u \in machine.makers : create_user_space(u)
    \/ \E u \in Users : free_user_space(u)
    \/ May("map") /\ \E u \in Users, va \in VAs, p \in UserProts : map_page_in(u, va, p)
    \/ May("shared") /\ \E u \in Users, va \in VAs, p \in UserProts : map_shared(u, va, p)
    \/ May("unmap") /\ \E u \in Users, r \in Ranges : unmap_range(u, r[1], r[2] + 1)
    \/ May("protect") /\ \E u \in Users, r \in Ranges, p \in UserProts : protect_range(u, r[1], r[2] + 1, p)
    \/ May("move") /\ \E u \in Users, a, b \in VAs : move_range(u, a, b)
    \/ May("clone") /\ \E u, v \in Users : clone_user_space(u, v)

\* A walk of the tables finds for each page what the calls made of it, and
\* the hardware lets the program do just that: through failures for want of
\* tables, moves, forks and returns of other spaces.
ViewRight ==
    \A u \in Users : root[u] # None =>
        \A va \in VAs :
            LET e == Walk(mem, root[u], va)
                v == view[u][va]
            IN /\ (e.kind = "none") = (v = NoPage)
               /\ v # NoPage => /\ e.to = v.to /\ Shared(e) = v.shared
                                /\ Allows(e.bits) = v.may
               /\ translate_user(u, va, FALSE) = (IF "r" \in v.may THEN v.to ELSE None)
               /\ translate_user(u, va, TRUE) = (IF "w" \in v.may THEN v.to ELSE None)

\* Every frame is free, a table of one space, a page with as many references
\* as entries name it, or lost; spaces share no table.
FramesRight ==
    LET spaces == {u \in Users : root[u] # None}
        own(u) == Own(mem, root[u])
    IN \A f \in Ram :
        CASE f \in lost -> mem[f].is = "table"
          [] f \notin lost /\ mem[f].is = "table" -> Cardinality({u \in spaces : f \in own(u).all}) = 1
          [] f \notin lost /\ mem[f].is = "page" ->
                mem[f].refs = Cardinality(UNION {LeavesTo(mem, own(u).last, f) : u \in spaces})
          [] OTHER -> \A u \in spaces : f \notin own(u).all /\ LeavesTo(mem, own(u).last, f) = {}

TablesRight == ViewRight /\ FramesRight
=============================================================================
