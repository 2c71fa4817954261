----------------------------- MODULE ByteStream -----------------------------
(***************************************************************************)
(* What a byte stream promises: its reader gets the writer's bytes, each   *)
(* once and in order, and is told of the end only after the last of them.  *)
(* Tcp implements it in both directions.                                   *)
(***************************************************************************)
EXTENDS Naturals, Sequences

VARIABLES
    sent,   \* bytes the writer's calls have accepted
    rcvd,   \* bytes the reader has been given
    shut,   \* the writer will write no more
    eof     \* the reader has been told of the end

streamVars == <<sent, rcvd, shut, eof>>

\* SequencesExt!IsPrefix, by the indices it compares
Starts(s, t) ==
    /\ Len(s) <= Len(t)
    /\ \A i \in 1 .. Len(s) : s[i] = t[i]

Init ==
    /\ sent = <<>> /\ rcvd = <<>>
    /\ ~shut /\ ~eof

Write ==
    /\ ~shut
    /\ Starts(sent, sent') /\ sent' # sent
    /\ UNCHANGED <<rcvd, shut, eof>>

Deliver ==
    /\ ~eof
    /\ Starts(rcvd, rcvd') /\ rcvd' # rcvd
    /\ Starts(rcvd', sent)
    /\ UNCHANGED <<sent, shut, eof>>

Shut ==
    /\ shut'
    /\ UNCHANGED <<sent, rcvd, eof>>

Eof ==
    /\ shut /\ rcvd = sent
    /\ eof'
    /\ UNCHANGED <<sent, rcvd, shut>>

Next == Write \/ Deliver \/ Shut \/ Eof
Spec == Init /\ [][Next]_streamVars
=============================================================================
