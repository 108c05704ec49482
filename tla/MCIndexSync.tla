----------------------------- MODULE MCIndexSync -----------------------------
(* Small instances of IndexSync for TLC: one workspace folder "p".             *)
EXTENDS IndexSync, TLC

\* Path "a" is a.c; "b" is gen/b.c, which pattern "gen" matches by either form
\* and pattern "p/gen" only by the form that starts with the folder's name.
MCOne == {"b"}
MCBoth == {"a", "b"}
MCFormsIn == [f \in Paths |-> {<<f, IF f = "a" THEN "p/a" ELSE "p/b">>}]
MCFindMatches == [g \in Patterns |-> IF g = "gen" THEN {"b"} \cap Paths ELSE {}]
MCMatches == [g \in Patterns |-> IF g = "gen" THEN {"b", "p/b"} ELSE {"p/b"}]
\* "gen" is left out, or an include re-admits it.
MCSettings == {[include |-> << >>, exclude |-> <<"gen">>],
               [include |-> <<"p/gen">>, exclude |-> <<"gen">>]}
MCSymmetry == Permutations(Texts)
\* What the next steps and the invariants read: the slots of the jobs are
\* interchangeable (two of them make a set without loss), a run that was started is not asked for again, a stop is
\* forgotten when its run is over.
MCView == <<workspace, rows, {jobs[k] : k \in DOMAIN jobs}, orphans, latest, running,
            latest \in ran, force /\ latest \notin ran, phase, forced, asked, found,
            toRemove, toIndex, stopRequested /\ ~Over, canceled, quiet>>
=============================================================================
