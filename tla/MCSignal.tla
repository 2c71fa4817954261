------------------------------ MODULE MCSignal ------------------------------
(* Instances of Signal for the model checker.                              *)
EXTENDS Signal

Ignore == [DFL EXCEPT !.handler = "ign"]
Handle == [DFL EXCEPT !.handler = "fn"]
MCActions == {DFL, Ignore, Handle, [Handle EXCEPT !.restart = TRUE, !.reset = TRUE]}

\* Waits for files; rt_sigsuspend, with one signal and with two; waits that
\* do not look for signals; actions that change.
MCPrograms ==
    {{"read", "poll", "sleep"},
     {"sigsuspend", "sigprocmask", "send"},
     {"sigsuspend", "poll", "second"},
     {"futex", "exit"},
     {"wait4", "sigaction", "read"}}
=============================================================================
