----------------------------- MODULE LatestWins -----------------------------
(* What SerialIndexRunner promises to whoever asks it for an index run: one    *)
(* run at a time, each the latest one asked for when it starts, and the latest *)
(* one asked for does start.                                                   *)
EXTENDS Naturals

CONSTANT MaxRuns        \* bound: runs asked for

VARIABLES
    latest,     \* the latest run asked for, 0 before the first one
    running,    \* the run in progress, as a set
    ran         \* runs that were started

lwVars == <<latest, running, ran>>

Init == latest = 0 /\ running = {} /\ ran = {}

Ask ==
    /\ latest < MaxRuns
    /\ latest' = latest + 1
    /\ UNCHANGED <<running, ran>>

Start ==
    /\ running = {}
    /\ latest # 0 /\ latest \notin ran
    /\ running' = {latest}
    /\ ran' = ran \cup {latest}
    /\ UNCHANGED latest

End ==
    /\ running # {}
    /\ running' = {}
    /\ UNCHANGED <<latest, ran>>

Next == Ask \/ Start \/ End

Safe == Init /\ [][Next]_lwVars
Spec == Safe /\ WF_lwVars(Start) /\ WF_lwVars(End)
=============================================================================
