---------------------------- MODULE MCWorkerPool ----------------------------
(* Small instances of WorkerPool for TLC.                                      *)
EXTENDS WorkerPool

CONSTANTS f1, f2, f3

MCFiles2 == {f1, f2}
MCFiles3 == {f1, f2, f3}
MCPlans2 == {<<f1, f2>>}
MCPlans3 == {<<f1, f2, f3>>}
\* f1 and f2 need the grammars of C and of C++, the others have no grammar.
MCLangOf == [f \in Files |-> IF f = f1 THEN "c" ELSE IF f = f2 THEN "cpp" ELSE NoLang]
\* Every grammar is cached from the start.
MCNoGrammar == [f \in Files |-> NoLang]
MCFiles1 == {f1}
MCPlans1 == {<<f1>>}
=============================================================================
