-------------------------------- MODULE MCWm --------------------------------
(***************************************************************************)
(* A desktop of two windows and two programs. Every behaviour is of one    *)
(* world: one kind of user and one kind of trouble, so that few events are *)
(* enough for the interesting orders of each of them.                      *)
(***************************************************************************)
EXTENDS Wm

World(events, n, m, k) == [events |-> events, inputs |-> n, extra |-> m, crashes |-> k]

MCWorlds ==
    {World({"call", "exit", "press", "key"}, 2, 0, 0),
     World({"call", "exit", "press"}, 2, 0, 1),
     World({"call", "outside", "bye"}, 0, 2, 1),
     World({"exit", "outside", "tab"}, 3, 2, 0),
     World({"exit", "outside", "press"}, 2, 1, 0),
     World({"outside", "bye", "press"}, 1, 2, 0),
     World({"menu"}, 3, 0, 0),
     World({"outside", "press", "move"}, 2, 1, 0),
     World({"exit", "outside", "menu"}, 2, 1, 0),
     World({"outside", "rclick", "menu", "key"}, 2, 1, 0),
     World({"outside", "spot", "type"}, 3, 2, 0)}

=============================================================================
