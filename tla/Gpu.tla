-------------------------------- MODULE Gpu ---------------------------------
(***************************************************************************)
(* The display (gpu.rs, fb.rs): a back buffer in memory, a resource of the *)
(* host that backs the scanout, rectangles that are transferred and        *)
(* flushed, and changes of the resolution, which rebuild the resource. A   *)
(* pixel of the host is the address of the back buffer whose contents it   *)
(* shows, or Old once that address has been drawn over.                    *)
(***************************************************************************)
EXTENDS Integers, FiniteSets

CONSTANTS
    MINW, MINH,      \* 640, 480
    SURF_W, SURF_H,  \* 2560, 1440
    MAXPIX,          \* MAX_FB_BYTES, in pixels
    Modes,           \* what the host says of its display at boot, <<w, h>>; <<0, 0>> for none
    Default,         \* <<1280, 800>>
    Rects,           \* rectangles that programs present, <<x, y, w, h>>
    Wishes,           \* resolutions that programs ask for
    HostFails        \* whether the host may refuse a command

Old == -1
Fb == 0 .. MAXPIX - 1
Off == [w |-> 0, h |-> 0, px |-> <<>>]

VARIABLES
    gpu,      \* the driver: whether there is one, and its size
    size,     \* WIDTH and HEIGHT of fb.rs
    res,      \* the resource RESOURCE_ID of the host
    shown,    \* what the scanout shows
    damage,   \* positions that were drawn and not presented since
    lock,     \* the rectangle that is on its way under GPU_LOCK
    told      \* the last answer of set_resolution

gpuVars == <<gpu, size, res, shown, damage, lock, told>>

Positions(w, h) == (0 .. w - 1) \X (0 .. h - 1)
Screen == Positions(gpu.w, gpu.h)
Address(x, y) == y * gpu.w + x

NoLock == <<>>
Fresh(w, h) == [w |-> w, h |-> h, px |-> [p \in Positions(w, h) |-> Old]]

\* A step of a command that may be refused.
Refused(n) == HostFails /\ n > 0

(***************************************************************************)
(* Boot                                                                    *)
(***************************************************************************)
\* The host's mode if it fits the back buffer.
Mode(m) == IF m[1] > 0 /\ m[1] * m[2] <= MAXPIX THEN m ELSE Default

init(m, fails) ==
    LET w == Mode(m)[1]
        h == Mode(m)[2]
    IN /\ ~gpu.on /\ gpu.w = 0
       /\ fails = 0 \/ Refused(fails)
       /\ gpu' = [on |-> fails = 0, w |-> w, h |-> h]
       /\ size' = IF fails = 0 THEN <<w, h>> ELSE size
       /\ res'   = IF fails = 0 THEN Fresh(w, h) ELSE res
       /\ shown' = IF fails = 0 THEN Fresh(w, h) ELSE shown
       /\ damage' = Positions(w, h)
       /\ UNCHANGED <<lock, told>>

(***************************************************************************)
(* Drawing and presenting                                                  *)
(***************************************************************************)
Drawn(s, a) == [s EXCEPT !.px = [p \in DOMAIN s.px |-> IF s.px[p] = a THEN Old ELSE s.px[p]]]

\* A program draws in the back buffer it has mapped, by the size it was told.
Draw(p) ==
    /\ gpu.on /\ p \in Positions(size[1], size[2])
    /\ res'   = Drawn(res, p[2] * size[1] + p[1])
    /\ shown' = Drawn(shown, p[2] * size[1] + p[1])
    /\ damage' = damage \cup {p}
    /\ UNCHANGED <<gpu, size, lock, told>>

Least(a, b) == IF a < b THEN a ELSE b

\* The part of the rectangle that is on the screen; an empty one is all of it.
Clip(r) ==
    IF r[3] = 0 \/ r[4] = 0 THEN <<0, 0, gpu.w, gpu.h>>
    ELSE LET x == Least(r[1], gpu.w)
             y == Least(r[2], gpu.h)
         IN <<x, y, Least(r[3], gpu.w - x), Least(r[4], gpu.h - y)>>

In(r, p) == /\ p[1] >= r[1] /\ p[1] < r[1] + r[3]
            /\ p[2] >= r[2] /\ p[2] < r[2] + r[4]

\* The host copies rows that are as far apart as the resource is wide, from an
\* offset on, and refuses a rectangle that is not inside the resource.
Inside(r) == r[1] + r[3] <= res.w /\ r[2] + r[4] <= res.h
Offset(r) == r[2] * gpu.w + r[1]
Transferred(r) ==
    [res EXCEPT !.px = [p \in DOMAIN res.px |->
        IF In(r, p) THEN Offset(r) + (p[2] - r[2]) * res.w + (p[1] - r[1]) ELSE res.px[p]]]

\* What the program means by a rectangle.
Meant(r, p) == r[3] = 0 \/ r[4] = 0 \/ In(r, p)

\* TRANSFER_TO_HOST_2D; drawing goes on.
Transfer(r) ==
    LET c == Clip(r)
    IN /\ gpu.on /\ lock = NoLock
       /\ res' = IF Inside(c) /\ c[3] > 0 /\ c[4] > 0 THEN Transferred(c) ELSE res
       /\ damage' = {p \in damage : ~Meant(r, p)}
       /\ lock' = c
       /\ UNCHANGED <<gpu, size, shown, told>>

\* RESOURCE_FLUSH
present_rect ==
    /\ lock # NoLock
    /\ shown' = [shown EXCEPT !.px = [p \in DOMAIN shown.px |->
                    IF In(lock, p) /\ p \in DOMAIN res.px THEN res.px[p] ELSE shown.px[p]]]
    /\ lock' = NoLock
    /\ UNCHANGED <<gpu, size, res, damage, told>>

(***************************************************************************)
(* Resolution                                                              *)
(***************************************************************************)
Even(n) == n - (n % 2)
Supported(w, h) == w >= MINW /\ h >= MINH /\ w <= SURF_W /\ h <= SURF_H /\ w * h <= MAXPIX

\* The scanout goes off and the resource away before the new one is made,
\* backed and shown: the commands 3, 4 and 5, of which one may be refused.
set_resolution(m, fails) ==
    LET w == Even(m[1])
        h == Even(m[2])
    IN /\ gpu.on /\ lock = NoLock
       /\ Supported(w, h) /\ <<w, h>> # <<gpu.w, gpu.h>>
       /\ told' = (fails = 0)
       /\ fails = 0 \/ Refused(fails)
       /\ res'   = IF fails = 3 THEN Off ELSE Fresh(w, h)
       /\ shown' = IF fails = 0 THEN Fresh(w, h) ELSE Off
       /\ gpu'   = IF fails = 0 THEN [gpu EXCEPT !.w = w, !.h = h] ELSE gpu
       /\ size'  = IF fails = 0 THEN <<w, h>> ELSE size
       /\ damage' = IF fails = 0 THEN Positions(w, h) ELSE damage
       /\ UNCHANGED lock

\* A resolution that cannot be, and the one there is.
set_resolution_early(m) ==
    LET w == Even(m[1])
        h == Even(m[2])
    IN /\ gpu.on /\ lock = NoLock
       /\ ~Supported(w, h) \/ <<w, h>> = <<gpu.w, gpu.h>>
       /\ told' = Supported(w, h)
       /\ UNCHANGED <<gpu, size, res, shown, damage, lock>>

GpuInit ==
    /\ gpu = [on |-> FALSE, w |-> 0, h |-> 0]
    /\ size = <<0, 0>> /\ res = Off /\ shown = Off
    /\ damage = {} /\ lock = NoLock
    /\ told = FALSE

GpuNext ==
    \/ \E m \in Modes, f \in {0, 2, 3, 4} : init(m, f)
    \/ \E p \in Positions(SURF_W, SURF_H) : Draw(p)
    \/ \E r \in Rects : Transfer(r)
    \/ present_rect
    \/ \E m \in Wishes, f \in {0, 3, 4, 5} : set_resolution(m, f)
    \/ \E m \in Wishes : set_resolution_early(m)

\* Every pixel that was drawn and presented is on the screen, at its place: for
\* all sizes, for rectangles that hang over the edges, and across changes of
\* the resolution. What programs are told is the size the host shows.
ScreenRight ==
    gpu.on /\ lock = NoLock =>
        /\ size = <<gpu.w, gpu.h>>
        /\ <<shown.w, shown.h>> = size
        /\ \A p \in Screen \ damage : shown.px[p] = Address(p[1], p[2])

\* The answer TRUE means that the screen shows that resolution. With a host
\* that refuses commands it does not: after a change that failed half way,
\* asking for the former resolution is answered without doing anything.
ToldRight == gpu.on /\ told => shown # Off
=============================================================================
