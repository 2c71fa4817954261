--------------------------------- MODULE Wm ---------------------------------
(***************************************************************************)
(* The window manager (user/shell/src/main.rs) and its clients             *)
(* (user/plib/src/lib.rs): the table of windows, who has which surface,    *)
(* what the pointer and the menus hold on to, the answers to the clients,  *)
(* and what happens when an application or the manager itself dies.        *)
(*                                                                         *)
(* The manager is one process that goes round: serve_ipc, handle_input,    *)
(* fast_tick, release_parked, render, and a wait for the next frame or     *)
(* message. Clients run beside it, and block from a message to its answer  *)
(* (the synchronous IPC of Process). Where things are on the screen is     *)
(* left out: the pointer may be over any visible                           *)
(* window. So are themes, settings, the catalogue and all drawing.         *)
(***************************************************************************)
EXTENDS Integers, FiniteSets, FiniteSetsExt, Sequences, SequencesExt

CONSTANTS
    MAXWIN, SURF_SLOTS, KQ,
    NPids,       \* processes that are ever started
    Panels,      \* applications the manager draws itself (Kind::Internal)
    Bins,        \* applications that are programs
    Linux,       \* the ones whose window comes later (is_linux)
    Multi,       \* the ones that may have several windows
    SERVE,       \* messages of one pass of serve_ipc (64 in the code)
    Worlds       \* bounds: what happens in a behaviour, and how often at most,
                 \* [events, inputs, extra, crashes]; it is in one of them

Pids == 1..NPids
Wins == 1..MAXWIN
Nobody == 0

ASSUME WmAssumption ==
    /\ MAXWIN \in Nat \ {0} /\ SURF_SLOTS \in Nat \ {0} /\ KQ \in Nat \ {0}
    /\ NPids \in Nat /\ SERVE \in Nat \ {0}
    /\ \A w \in Worlds : {w.inputs, w.extra, w.crashes} \subseteq Nat
    /\ Linux \subseteq Bins /\ Multi \subseteq Bins /\ Panels \cap Bins = {}

VARIABLES
    wm,      \* the memory of the manager, see Boot
    procs,   \* the clients, see Unborn
    pc,      \* where the manager is in its round; "down" while it is dead
    gen,     \* its process: SERVICES[SVC_WM]
    served,  \* messages served in this pass
    inputs,  \* events so far
    extra,   \* TITLEs and BYEs so far
    world    \* the bounds of this behaviour

vars == <<wm, procs, pc, gen, served, inputs, extra, world>>

\* close: a request to close is "asked", its deadline has passed "due". ev stands
\* for click, rclick, dbl, wheel, menu and a moved pointer: what fill_poll reports
\* and forgets. id is history: which window this is of all there ever were.
EmptyWin ==
    [used |-> FALSE, app |-> "none", pid |-> Nobody, slot |-> 0, min |-> FALSE,
     st |-> "normal", hello |-> FALSE, committed |-> FALSE, close |-> "no",
     keys |-> 0, ev |-> FALSE, rep |-> <<>>, id |-> 0]

NoHold == [kind |-> "none", win |-> 0, id |-> 0, panel |-> FALSE, moved |-> FALSE]
NoMenu == [kind |-> "none", win |-> 0, id |-> 0, app |-> "none"]

\* Wm::new
Boot ==
    [wins |-> [i \in Wins |-> EmptyWin], order |-> <<>>, launching |-> {},
     capture |-> NoHold, drag |-> NoHold, snap |-> "none", menu |-> NoMenu,
     sw |-> <<>>, sel |-> 0, spot |-> FALSE, dialog |-> FALSE,
     parked |-> <<>>, pending |-> <<>>]

\* A client: st is "start" before App::new, "run", "sent" and "taken" in
\* ipc_send, "lost" when the manager is gone. op is its message, next the
\* message it sends when its HELLO is answered.
Unborn ==
    [st |-> "unborn", app |-> "none", op |-> "none", next |-> "none",
     slot |-> 0, gen |-> 0, marked |-> FALSE]

Init ==
    /\ wm = Boot /\ procs = [p \in Pids |-> Unborn]
    /\ pc = "serve" /\ gen = 1 /\ served = 0 /\ inputs = 0 /\ extra = 0
    /\ world \in Worlds

-----------------------------------------------------------------------------
(* The table of windows. Handlers call one another, so they are functions  *)
(* of the state: the manager's memory with the clients in it.              *)

All ==
    [wins |-> wm.wins, order |-> wm.order,
     launching |-> wm.launching, capture |-> wm.capture, drag |-> wm.drag,
     snap |-> wm.snap, menu |-> wm.menu, sw |-> wm.sw, sel |-> wm.sel,
     spot |-> wm.spot, dialog |-> wm.dialog, parked |-> wm.parked,
     pending |-> wm.pending, procs |-> procs]
Memory(s) ==
    [wins |-> s.wins, order |-> s.order, launching |-> s.launching,
     capture |-> s.capture, drag |-> s.drag, snap |-> s.snap,
     menu |-> s.menu, sw |-> s.sw, sel |-> s.sel, spot |-> s.spot,
     dialog |-> s.dialog, parked |-> s.parked, pending |-> s.pending]
Becomes(s) == \E t \in {s} : wm' = Memory(t) /\ procs' = t.procs

Internal(w) == w.app \in Panels
Used(s) == {i \in Wins : s.wins[i].used}
Visible(s) == {i \in Used(s) : ~s.wins[i].min}
\* order is what z and zc make of the windows, the lowest first (z_order).
focused(s) ==
    LET shown == SelectSeq(s.order, LAMBDA i : i \in Visible(s))
    IN  IF shown = <<>> THEN 0 ELSE Last(shown)

raise(s, i) == [s EXCEPT !.order = Append(Remove(@, i), i), !.wins[i].min = FALSE]

FirstOf(S) == IF S = {} THEN 0 ELSE Min(S)
find_app_win(s, app) == FirstOf({i \in Used(s) : s.wins[i].app = app})
free_slots(s) == (0..SURF_SLOTS - 1) \
    {s.wins[i].slot : i \in {j \in Used(s) : ~Internal(s.wins[j])}}

\* The window of a process, 0 if it has none.
WinOf(s, p) == FirstOf({i \in Used(s) : s.wins[i].pid = p})

\* history: a name that no window has and nothing refers to
NewId(s) == Min((1..2 * MAXWIN + 4) \
    ({s.wins[i].id : i \in Wins} \cup {s.sw[k].id : k \in DOMAIN s.sw}
        \cup {s.capture.id, s.drag.id, s.menu.id}))

new_window(s, app, p) ==
    LET i == FirstOf(Wins \ Used(s)) IN
    IF i = 0 \/ (app \in Bins /\ free_slots(s) = {}) THEN s
    ELSE raise([s EXCEPT !.launching = @ \ {app},
                  !.wins[i] = [EmptyWin EXCEPT
                       !.used = TRUE, !.app = app, !.pid = p, !.id = NewId(s),
                       !.slot = IF app \in Bins THEN Min(free_slots(s)) ELSE @]], i)

\* The process that spawn makes, 0 if it fails.
Spawned(s) == FirstOf({p \in Pids : s.procs[p].st = "unborn"})
Started(app) == [Unborn EXCEPT !.st = "start", !.app = app]

\* file: a file is to be opened in it
launch(s, app, file) ==
    LET old == find_app_win(s, app)
        p == Spawned(s)
    IN  CASE (app \notin Multi \/ ~file) /\ old # 0 -> raise(s, old)
          [] app \in Panels /\ old = 0 -> new_window(s, app, Nobody)
          [] OTHER ->
               IF free_slots(s) = {} \/ Used(s) = Wins \/ p = 0 \/ app \in s.launching
               THEN s
               ELSE LET t == [s EXCEPT !.procs[p] = Started(app)] IN
                    IF app \in Linux THEN [t EXCEPT !.launching = @ \cup {app}]
                    ELSE new_window(t, app, p)

\* What is left of a window that is gone: its index may still be in use.
Closed(s, i) ==
    [s EXCEPT !.wins[i] = [EmptyWin EXCEPT !.app = s.wins[i].app, !.pid = s.wins[i].pid],
              !.order = Remove(@, i)]

\* Mutant: closing a window forgets that its capture and its drag go with it.
Gone_Holds(s, i) == Closed(s, i)
\* A window whose application is gone (BYE, fast_tick).
Gone(s, i) ==
    [Closed(s, i) EXCEPT !.capture = IF @.win = i THEN NoHold ELSE @,
                         !.drag    = IF @.win = i THEN NoHold ELSE @]

close_window(s, i) ==
    IF ~s.wins[i].used THEN s
    ELSE IF Internal(s.wins[i]) THEN Closed(s, i)
    ELSE [s EXCEPT !.launching = @ \ {s.wins[i].app},
                   !.wins[i].close = IF @ = "no" THEN "asked" ELSE @]

\* kill: a process that waits ends at once, one that runs at its next trap.
Kill(s, p) ==
    CASE s.procs[p].st \in {"sent", "taken"} -> [s EXCEPT !.procs[p] = [Unborn EXCEPT !.st = "dead"]]
      [] s.procs[p].st \in {"start", "run", "lost"} -> [s EXCEPT !.procs[p].marked = TRUE]
      [] OTHER -> s

force_quit(s, i) ==
    IF Internal(s.wins[i]) THEN close_window(s, i)
    ELSE IF s.wins[i].pid = Nobody THEN s ELSE Kill(s, s.wins[i].pid)

set_state(s, i, st) == [s EXCEPT !.wins[i].st = st]
toggle_zoom(s, i) == set_state(s, i, IF s.wins[i].st = "normal" THEN "max" ELSE "normal")
minimize(s, i) == [s EXCEPT !.wins[i].min = TRUE]

\* tile_all, cascade
tile_all(s) == [s EXCEPT !.wins = [i \in Wins |-> IF i \in Visible(s) THEN [@[i] EXCEPT !.st = "normal"]
                                                  ELSE @[i]]]
show_desktop(s) ==
    [s EXCEPT !.wins = [i \in Wins |-> IF i \in Used(s) THEN [@[i] EXCEPT !.min = Visible(s) # {}]
                                       ELSE @[i]]]
CloseAll(s) == FoldSet(LAMBDA i, t : close_window(t, i), s, Wins)

close_overlays(s) == [s EXCEPT !.menu = NoMenu, !.spot = FALSE]
open_spotlight(s) == [close_overlays(s) EXCEPT !.spot = TRUE]

-----------------------------------------------------------------------------
(* Actions of menus, panels and the search.                                *)

target(s) == IF s.menu.win # 0 THEN s.menu.win ELSE focused(s)

On(s, Op(_, _)) == IF target(s) = 0 THEN s ELSE Op(s, target(s))

do_action(s, a, app) ==
    CASE a = "launch"   -> launch(s, app, FALSE)
      [] a = "open"     -> launch(s, app, TRUE)
      [] a = "dockopen" -> launch(s, s.menu.app, FALSE)
      [] a = "close"    -> On(s, close_window)
      [] a = "force"    -> On(s, force_quit)
      [] a = "min"      -> On(s, minimize)
      [] a = "zoom"     -> On(s, toggle_zoom)
      [] a = "snap"     -> On(s, LAMBDA t, i : set_state(t, i, "snap"))
      [] a = "appmenu"  -> On(s, LAMBDA t, i : [t EXCEPT !.wins[i].ev = TRUE])
      [] a = "tile"     -> tile_all(s)
      [] a = "desktop"  -> show_desktop(s)
      [] a = "closeall" -> CloseAll(s)
      [] a = "poweroff" -> [s EXCEPT !.dialog = TRUE]
      [] a = "cancel"   -> [s EXCEPT !.dialog = FALSE]
      [] a = "search"   -> open_spotlight(s)

\* The menus of the catalogue, by what their items do.
Items(m) ==
    CASE m = "pulsar"   -> {"launch", "poweroff"}
      [] m = "proc"     -> {"launch", "close", "force"}
      [] m = "internal" -> {"launch", "close"}
      [] m = "own"      -> {"appmenu", "launch", "open", "close"}
      [] m = "window"   -> {"min", "zoom", "snap", "tile", "desktop", "closeall"}
      [] m = "help"     -> {"launch", "search"}
      [] m = "desk"     -> {"open", "launch", "tile", "desktop"}
      [] m = "idle"     -> {"dockopen"}
      [] m = "running"  -> {"dockopen", "min", "close", "force"}
      [] m = "file"     -> {"open"}
      [] m = "title"    -> {"min", "zoom", "snap", "close"}
      [] OTHER          -> {}

Named(s, i) == IF i = 0 THEN 0 ELSE s.wins[i].id
Menu(s, kind, i, app) ==
    [s EXCEPT !.menu = [kind |-> kind, win |-> i, id |-> Named(s, i), app |-> app]]

BarMenus(s) ==
    LET f == focused(s) IN
    {"pulsar", "window", "help"} \cup
    (IF f = 0 THEN {} ELSE IF Internal(s.wins[f]) THEN {"internal", "own"} ELSE {"proc", "own"})
open_bar_menu(s, kind) == Menu(s, kind, focused(s), "none")

-----------------------------------------------------------------------------
(* Input. An event is one of handle_input, which the manager also calls    *)
(* before it takes a message in its wait.                                  *)

Senders == {p \in Pids : procs[p].st = "sent"}
ServeEnds == pc = "serve" /\ (Senders = {} \/ served = SERVE)
AtInput == ServeEnds \/ pc = "wait"

Event(kind) ==
    /\ AtInput /\ kind \in world.events /\ inputs < world.inputs
    /\ inputs' = inputs + 1
    /\ UNCHANGED <<pc, gen, served, extra, world>>

Modal == wm.dialog \/ wm.spot \/ wm.menu # NoMenu
Apps == Panels \cup Bins

\* What a search finds: an application, a file, a command.
Hits == {"launch", "open", "poweroff", "desktop"}
spot_activate ==
    \E a \in Hits, app \in Apps : Becomes(do_action(close_overlays(All), a, app))

press_dialog == Event("menu") /\ wm.dialog /\ Becomes(do_action(All, "cancel", "none"))

press_spot ==
    /\ Event("spot") /\ ~wm.dialog /\ wm.spot
    /\ spot_activate \/ Becomes(close_overlays(All))

press_menu ==
    /\ Event("menu") /\ ~wm.dialog /\ ~wm.spot /\ wm.menu # NoMenu
    /\ \/ \E a \in Items(wm.menu.kind), app \in Apps :
            Becomes(close_overlays(do_action(All, a, app)))
       \/ Becomes(close_overlays(All))

press_bar ==
    /\ Event("menu") /\ ~wm.dialog /\ ~wm.spot
    /\ LET s == close_overlays(All) IN
       \/ \E kind \in BarMenus(s) : Becomes(open_bar_menu(s, kind))
       \/ Becomes(open_spotlight(s))
       \/ \E app \in Bins : Becomes(launch(s, app, FALSE))

press_dock(app) ==
    /\ Event("press") /\ ~Modal
    /\ LET i == find_app_win(All, app) IN
       \/ /\ i # 0 /\ wm.wins[i].min
          /\ Becomes(raise(All, i))
       \/ /\ i # 0 /\ focused(All) = i      \* dock_minimize
          /\ Becomes(minimize(All, i))
       \/ Becomes(launch(All, app, FALSE))

Hold(s, kind, i) == [kind |-> kind, win |-> i, id |-> s.wins[i].id,
                     panel |-> Internal(s.wins[i]), moved |-> FALSE]

press_window(i) ==
    /\ Event("press") /\ ~Modal /\ i \in Visible(All)
    /\ LET s == raise(All, i)
           w == s.wins[i]
       IN  \/ /\ w.st = "normal"
              /\ Becomes([s EXCEPT !.drag = Hold(s, "resize", i)])
           \/ Becomes(close_window(s, i))
           \/ Becomes(minimize(s, i))
           \/ Becomes(toggle_zoom(s, i))
           \/ Becomes([s EXCEPT !.drag = Hold(s, "move", i)])
           \/ /\ Internal(w)
              /\ \E app \in Bins : Becomes(do_action(s, "open", app))
           \/ /\ ~Internal(w)
              /\ Becomes([s EXCEPT !.capture = Hold(s, "press", i), !.wins[i].ev = TRUE])

on_release ==
    /\ Event("press")
    /\ LET s == IF wm.drag.kind = "move" /\ wm.drag.moved /\ wm.snap # "none"
                THEN set_state(All, wm.drag.win, wm.snap) ELSE All
       IN  Becomes([s EXCEPT !.capture = NoHold, !.drag = NoHold,
                       !.snap = IF wm.drag.kind = "move" THEN "none" ELSE @])

\* A move with a window in hand; where it may snap is shown.
drag_window ==
    /\ Event("press") /\ wm.drag.kind = "move"
    /\ \E edge \in {"none", "max", "snap"} :
         Becomes([All EXCEPT !.wins[wm.drag.win].st = "normal", !.drag.moved = TRUE,
                             !.snap = edge])

\* A move over window i (0: over none): the bar may open another menu.
on_move(i) ==
    /\ Event("move") /\ wm.drag = NoHold /\ i \in Visible(All) \cup {0}
    /\ LET hover == {j \in {i, wm.capture.win} \ {0} : ~Internal(wm.wins[j])}
           s == [All EXCEPT !.wins = [j \in Wins |-> IF j \in hover THEN [@[j] EXCEPT !.ev = TRUE]
                                                      ELSE @[j]]]
       IN  \/ Becomes(s)
           \/ /\ wm.menu.kind \in BarMenus(s) \cup {"proc", "internal", "own"}
              /\ \E kind \in BarMenus(s) : Becomes(open_bar_menu(s, kind))

on_rclick(i) ==
    /\ Event("rclick") /\ ~wm.dialog /\ ~wm.spot /\ i \in Visible(All) \cup {0}
    /\ LET s == close_overlays(All)
           t == raise(s, i)
       IN  \/ /\ i = 0
              /\ \E app \in Apps :
                   LET k == find_app_win(s, app) IN
                   Becomes(Menu(s, IF k = 0 THEN "idle" ELSE "running", k, app))
           \/ i = 0 /\ Becomes(Menu(s, "desk", 0, "none"))
           \/ i # 0 /\ ~Internal(s.wins[i]) /\ Becomes([t EXCEPT !.wins[i].ev = TRUE])
           \/ i # 0 /\ Internal(s.wins[i]) /\ Becomes(Menu(t, "file", i, "none"))
           \/ i # 0 /\ Becomes(Menu(t, "title", i, "none"))

on_wheel(i) ==
    /\ Event("move") /\ i \in Visible(All) /\ ~Internal(wm.wins[i])
    /\ Becomes([All EXCEPT !.wins[i].ev = TRUE])

\* Ctrl+Space, Super; in the search: Enter, Esc
toggle_spotlight ==
    /\ Event("spot") /\ Becomes(IF wm.spot THEN close_overlays(All) ELSE open_spotlight(All))
spotlight_key == Event("spot") /\ ~wm.dialog /\ wm.spot /\ spot_activate

\* sw_list, made when the list opens: places of the table, with what is there then.
Listed(order) == [k \in DOMAIN order |-> [win |-> order[k], id |-> wm.wins[order[k]].id]]
cycle_switcher ==
    /\ Event("tab") /\ wm.order # <<>>
    /\ Becomes(IF wm.sw = <<>>
               THEN [All EXCEPT !.sw = Listed(Reverse(wm.order)), !.sel = IF Len(wm.order) > 1 THEN 2 ELSE 1]
               ELSE [All EXCEPT !.sel = (@ % Len(wm.sw)) + 1])
finish_switcher ==
    /\ Event("tab") /\ wm.sw # <<>>
    /\ LET i == wm.sw[wm.sel].win
           s == [All EXCEPT !.sw = <<>>, !.sel = 0]
       IN  \/ Becomes(IF s.wins[i].used THEN raise(s, i) ELSE s)
           \/ Becomes(s)          \* Esc

\* Shortcuts for the window that has the focus, and for the desktop; Enter on a
\* file of a panel; Esc in a menu.
shortcut ==
    /\ Event("key") /\ ~wm.dialog /\ ~wm.spot
    /\ LET f == focused(All) IN
       \/ f # 0 /\ Becomes(close_window(All, f))
       \/ f # 0 /\ Becomes(toggle_zoom(All, f))
       \/ f # 0 /\ Becomes(minimize(All, f))
       \/ f # 0 /\ Internal(wm.wins[f]) /\ \E app \in Bins : Becomes(launch(All, app, TRUE))
       \/ wm.menu # NoMenu /\ Becomes(close_overlays(All))
       \/ Becomes(show_desktop(All))
       \/ \E app \in Apps : Becomes(launch(All, app, FALSE))

push_key ==
    /\ Event("type") /\ ~wm.dialog /\ ~wm.spot
    /\ LET f == focused(All) IN
       /\ f # 0 /\ ~Internal(wm.wins[f])
       /\ Becomes([All EXCEPT !.wins[f].keys = IF @ < KQ THEN @ + 1 ELSE @])

\* The dialog is confirmed: the machine stops.
poweroff ==
    /\ AtInput /\ wm.dialog /\ pc' = "off"
    /\ UNCHANGED <<wm, procs, gen, served, inputs, extra, world>>

handle_input ==
    \/ press_dialog \/ press_spot \/ press_menu \/ press_bar
    \/ \E app \in Apps : press_dock(app)
    \/ \E i \in Wins : press_window(i) \/ on_wheel(i)
    \/ \E i \in 0..MAXWIN : on_move(i) \/ on_rclick(i)
    \/ on_release \/ drag_window \/ toggle_spotlight \/ spotlight_key
    \/ cycle_switcher \/ finish_switcher \/ shortcut \/ push_key

-----------------------------------------------------------------------------
(* Messages. A client waits from its message to the answer.                *)

Waiting(p) == procs[p].st \in {"sent", "taken", "lost"}
Alive(s, p) == s.procs[p].st \notin {"unborn", "dead"}

state_flags(s, i) ==
    <<focused(s) = i, s.wins[i].min, s.wins[i].st, s.wins[i].close # "no">>
has_news(s, i) ==
    LET w == s.wins[i] IN
    w.keys > 0 \/ w.ev \/ w.close # "no" \/ state_flags(s, i) # w.rep

fill_poll(s, i) ==
    [s EXCEPT !.wins[i].keys = IF @ > 0 THEN @ - 1 ELSE @, !.wins[i].ev = FALSE,
              !.wins[i].rep = state_flags(s, i)]

\* reply: the client goes on, after a HELLO with the message it holds back.
Answer(s, p) ==
    IF s.procs[p].st # "taken" THEN s
    ELSE IF s.procs[p].op = "hello"
    THEN [s EXCEPT !.procs[p].st = "sent", !.procs[p].op = s.procs[p].next]
    ELSE [s EXCEPT !.procs[p].st = "run"]

\* Mutant: a client that registers again keeps the surface it had.
hello_Keeps(s, p) ==
    LET t == IF WinOf(s, p) = 0 THEN new_window(s, s.procs[p].app, p) ELSE s
        i == WinOf(t, p)
    IN  IF i = 0 \/ s.procs[p].next # "poll" THEN Answer(t, p)
        ELSE Answer([t EXCEPT !.wins[i].hello = TRUE, !.procs[p].slot = t.wins[i].slot], p)
hello(s, p) ==
    LET t == IF WinOf(s, p) = 0 THEN new_window(s, s.procs[p].app, p) ELSE s
        i == WinOf(t, p)
    IN  IF i = 0 THEN Answer([t EXCEPT !.procs[p].slot = 0], p)
        ELSE Answer([t EXCEPT !.wins[i].hello = TRUE, !.procs[p].slot = t.wins[i].slot], p)

commit(s, p) ==
    LET i == WinOf(s, p)
        t == [s EXCEPT !.wins[i].committed = TRUE]
    IN  IF i = 0 THEN Answer(s, p)
        ELSE IF ~s.wins[i].min /\ Len(s.pending) < MAXWIN
        THEN [t EXCEPT !.pending = Append(@, [pid |-> p, win |-> i])]
        ELSE Answer(fill_poll(t, i), p)

poll(s, p) ==
    LET i == WinOf(s, p) IN
    IF i = 0 THEN Answer(s, p)
    ELSE IF ~has_news(s, i) /\ Len(s.parked) < MAXWIN
    THEN [s EXCEPT !.parked = Append(@, [pid |-> p, win |-> i, due |-> FALSE])]
    ELSE Answer(fill_poll(s, i), p)

peek(s, p) ==
    LET i == WinOf(s, p) IN Answer(IF i = 0 THEN s ELSE fill_poll(s, i), p)

bye(s, p) ==
    LET i == WinOf(s, p) IN Answer(IF i = 0 THEN s ELSE Gone(s, i), p)

\* find_sender: the first slot after the manager's.
handle_msg ==
    /\ Senders # {}
    /\ LET p == Min(Senders)
           s == [All EXCEPT !.procs[p].st = "taken"]
           op == procs[p].op
       IN  Becomes(CASE op = "hello"  -> hello(s, p)
                     [] op = "commit" -> commit(s, p)
                     [] op = "poll"   -> poll(s, p)
                     [] op = "peek"   -> peek(s, p)
                     [] op = "bye"    -> bye(s, p)
                     [] OTHER         -> Answer(s, p))    \* TITLE, SET_RES

-----------------------------------------------------------------------------
(* The round of the manager.                                               *)

Rest == UNCHANGED <<gen, inputs, extra, world>>

serve_ipc ==
    /\ pc = "serve" /\ served < SERVE /\ handle_msg
    /\ served' = served + 1 /\ UNCHANGED pc /\ Rest

\* Mutant: an application that does not answer is never ended.
Ticked_Patient(s, i) ==
    LET w == s.wins[i] IN
    IF i \in Used(s) /\ ~Internal(w) /\ ~Alive(s, w.pid) THEN Gone(s, i) ELSE s
Ticked(s, i) ==
    LET w == s.wins[i] IN
    IF i \notin Used(s) \/ Internal(w) THEN s
    ELSE IF ~Alive(s, w.pid) THEN Gone(s, i)
    ELSE IF w.close = "due" THEN [Kill(s, w.pid) EXCEPT !.wins[i].close = "asked"]
    ELSE s

\* late: the launches that have waited 15 s for their window
fast_tick(s, late) ==
    [FoldSet(LAMBDA i, t : Ticked(t, i), s, Wins) EXCEPT !.launching = @ \ late]

\* One entry of parked: does it get its answer?
Owner(s, e) == s.wins[e.win].used /\ s.wins[e.win].pid = e.pid
\* Mutant: an entry is answered only when there is news for it.
Released_OnNews(s, e) == Owner(s, e) /\ has_news(s, e.win)
Released(s, e) == ~Owner(s, e) \/ has_news(s, e.win) \/ e.due

\* An answer to a COMMIT or a POLL: the window may be someone else's by now.
Reported(s, e) == Answer(IF Owner(s, e) THEN fill_poll(s, e.win) ELSE s, e.pid)

release_parked(s) ==
    FoldLeft(LAMBDA t, e : IF Released(t, e) THEN Reported(t, e)
                           ELSE [t EXCEPT !.parked = Append(@, e)],
             [s EXCEPT !.parked = <<>>], s.parked)

\* what render ends with
flush_commits(s) ==
    [FoldLeft(Reported, s, s.pending) EXCEPT !.pending = <<>>]

\* The rest of a round, in which no message is taken.
frame ==
    /\ ServeEnds /\ pc' = "wait" /\ served' = 0 /\ Rest
    /\ \E late \in SUBSET wm.launching :
         Becomes(flush_commits(release_parked(fast_tick(All, late))))

\* recv_timeout: a message before the next frame; a COMMIT begins a round.
recv_timeout ==
    /\ pc = "wait" /\ handle_msg
    /\ pc' = IF procs[Min(Senders)].op = "commit" THEN "serve" ELSE "wait"
    /\ UNCHANGED served /\ Rest
next_frame ==
    /\ pc = "wait" /\ pc' = "serve" /\ UNCHANGED <<wm, procs, served>> /\ Rest

\* Time: POLL_MAX_MS of a parked POLL, close_at of a window.
PollDue(p) ==
    /\ pc # "down" /\ pc # "off"
    /\ \E k \in DOMAIN wm.parked :
         /\ wm.parked[k].pid = p /\ ~wm.parked[k].due
         /\ wm' = [wm EXCEPT !.parked[k].due = TRUE]
    /\ UNCHANGED <<procs, pc, served>> /\ Rest
CloseDue(i) ==
    /\ pc # "down" /\ pc # "off" /\ wm.wins[i].used /\ wm.wins[i].close = "asked"
    /\ wm' = [wm EXCEPT !.wins[i].close = "due"]
    /\ UNCHANGED <<procs, pc, served>> /\ Rest

-----------------------------------------------------------------------------
(* The clients.                                                            *)

Client(p) == pc # "off" /\ UNCHANGED <<wm, pc, gen, served, inputs, world>>
Sent(r, op) ==
    IF pc = "down" \/ r.gen # gen THEN [r EXCEPT !.st = "lost", !.next = op]
    ELSE [r EXCEPT !.st = "sent", !.op = op]
Hello(r, op) == [r EXCEPT !.st = "sent", !.op = "hello", !.next = op, !.gen = gen]

\* App::new: wait_service, HELLO, then a POLL
start(p) ==
    /\ Client(p) /\ procs[p].st = "start" /\ ~procs[p].marked /\ pc # "down"
    /\ procs' = [procs EXCEPT ![p] = Hello(@, "poll")] /\ UNCHANGED extra

\* App::commit and App::poll
call(p) ==
    /\ Client(p) /\ "call" \in world.events
    /\ procs[p].st = "run" /\ ~procs[p].marked /\ procs[p].op # "bye"
    /\ \E op \in {"commit", "poll"} :
         /\ procs' = [procs EXCEPT ![p] = Sent(@, op)]
         /\ UNCHANGED extra

\* A title, a POLL that does not wait, the end of a window, and the next one.
more(p) ==
    /\ Client(p) /\ procs[p].st = "run" /\ ~procs[p].marked
    /\ "bye" \in world.events /\ extra < world.extra /\ extra' = extra + 1
    /\ \/ /\ procs[p].op # "bye"
          /\ \E op \in {"title", "peek", "bye"} : procs' = [procs EXCEPT ![p] = Sent(@, op)]
       \/ /\ procs[p].op = "bye" /\ pc # "down"
          /\ procs' = [procs EXCEPT ![p] = Hello(@, "poll")]

\* App::call when the manager is gone: the next one, a HELLO, and again.
reconnect(p) ==
    /\ Client(p) /\ procs[p].st = "lost" /\ ~procs[p].marked
    /\ pc # "down" /\ procs[p].gen # gen
    /\ procs' = [procs EXCEPT ![p] = Hello(@, @.next)] /\ UNCHANGED extra

\* The end of a client: its own, a fault, or a kill that finds it at a trap.
Dead == [Unborn EXCEPT !.st = "dead"]
exit(p) ==
    /\ Client(p) /\ "exit" \in world.events /\ procs[p].st \in {"start", "run"}
    /\ procs' = [procs EXCEPT ![p] = Dead] /\ UNCHANGED extra
die(p) ==
    /\ Client(p) /\ procs[p].marked /\ procs' = [procs EXCEPT ![p] = Dead] /\ UNCHANGED extra

\* A program started by another one (the terminal, wlsrv).
outside(p) ==
    /\ Client(p) /\ p = Spawned(All) /\ \E app \in Bins : procs' = [procs EXCEPT ![p] = Started(app)]
    /\ "outside" \in world.events /\ extra < world.extra /\ extra' = extra + 1

-----------------------------------------------------------------------------
(* The manager dies; init starts it again.                                 *)

\* exit wakes whoever waits for an answer: ipc_send fails.
crash ==
    /\ pc \notin {"down", "off"} /\ gen <= world.crashes /\ pc' = "down"
    /\ procs' = [p \in Pids |->
         LET r == procs[p] IN
         CASE r.st \in {"sent", "taken"} /\ r.op = "hello" -> [r EXCEPT !.st = "lost"]
           [] r.st \in {"sent", "taken"} /\ r.op # "hello" -> [r EXCEPT !.st = "lost", !.next = r.op]
           [] OTHER -> r]
    /\ wm' = Boot /\ served' = 0 /\ Rest
restart ==
    /\ pc = "down" /\ pc' = "serve" /\ gen' = gen + 1
    /\ UNCHANGED <<wm, procs, served, inputs, extra, world>>

Off == pc = "off" /\ UNCHANGED vars

\* A step by which the loop of run goes on: serve_ipc, frame, next_frame, or a
\* COMMIT in recv_timeout. One of the first three is possible whenever it is up.
Loop ==
    /\ pc \in {"serve", "wait"} /\ pc' \in {"serve", "wait"} /\ served' \in 0..SERVE
    /\ <<pc', served'>> # <<pc, served>>

Next ==
    \/ serve_ipc \/ frame \/ recv_timeout \/ next_frame \/ handle_input \/ poweroff \/ crash \/ restart \/ Off
    \/ \E p \in Pids : \/ PollDue(p) \/ start(p) \/ call(p) \/ more(p)
                        \/ reconnect(p) \/ exit(p) \/ die(p) \/ outside(p)
    \/ \E i \in Wins : CloseDue(i)

\* The manager is scheduled and its frames come, init starts it again, deadlines
\* pass, a client that waits in reconnect goes on, one that was killed ends.
Fairness ==
    /\ WF_<<pc, served>>(Loop) /\ WF_vars(restart)
    /\ \A p \in Pids : WF_vars(PollDue(p)) /\ WF_vars(reconnect(p)) /\ WF_vars(die(p))
    /\ \A i \in Wins : WF_vars(CloseDue(i))

Spec == Init /\ [][Next]_vars /\ Fairness

-----------------------------------------------------------------------------
(* Properties.                                                             *)

Names(h) == h.win # 0 => /\ wm.wins[h.win].used
                         /\ wm.wins[h.win].id = h.id

\* What the pointer holds is the very window it took hold of: capture, and a drag
\* of an application's window, are dropped when that window goes (BYE, the death
\* of its application, fast_tick), so no later press, move or release reaches
\* another window that was given the same place of the table.
PointerRight ==
    pc # "down" => /\ Names(wm.capture)
                   /\ ~wm.drag.panel => Names(wm.drag)

\* A client of the present manager that has been answered draws in the surface
\* the manager shows in its window, and no surface belongs to two windows,
\* whatever manager gave it its surface before.
SurfaceRight ==
    /\ \A p \in Pids :
         LET i == WinOf(wm, p) IN
         /\ pc # "down" /\ procs[p].gen = gen /\ procs[p].st \in {"run", "sent", "taken"}
         /\ procs[p].op # "hello" /\ i # 0
         => procs[p].slot = wm.wins[i].slot
    /\ \A i, j \in Used(wm) : i # j /\ ~Internal(wm.wins[i]) /\ ~Internal(wm.wins[j])
                              => wm.wins[i].slot # wm.wins[j].slot

\* Places of the window table and of the surfaces are reused: what the pointer
\* holds and the surface of the former owner do not reach the next. (Two things do,
\* of which this says nothing: MenuRight and SwitchRight, below.)
OwnersRight == PointerRight /\ SurfaceRight

\* Would say: the window that an open menu is about (Menu::target_win), or one in
\* the list of Alt+Tab (sw_list), is still that window, or gone. The code breaks
\* both: BYE and fast_tick leave them with the place of a window that goes, and the
\* next owner of the place is closed, killed or raised instead (README, 4).
Still(h) == h.win # 0 => wm.wins[h.win].id \in {0, h.id}
MenuRight == Still(wm.menu)
SwitchRight == \A k \in DOMAIN wm.sw : Still(wm.sw[k])

\* An application that waits for the manager goes on or ends, even when the
\* manager dies with its message and another one has to be found.
AppSurvives == \A p \in Pids : Waiting(p) ~> (~Waiting(p) \/ pc = "off")

\* A window that was asked to close does: its application ends or says BYE, or
\* is killed when its deadline passes.
CloseAsked(p) == \E i \in Used(wm) : wm.wins[i].pid = p /\ wm.wins[i].close # "no"
CloseEnds == \A p \in Pids : CloseAsked(p) ~> (~CloseAsked(p) \/ pc = "off")

=============================================================================
