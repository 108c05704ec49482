---------------------------- MODULE MCCodeInsight ----------------------------
(* Small instances of CodeInsight for TLC.                                    *)
EXTENDS CodeInsight, TLC

\* The cursor visits a call of f: in g, `void g() { f(); }', which is also where
\* g's node points to, or in f itself, `void f() { f(); }'.
MCSymbols == {[name |-> "f", at |-> "call of f"]}
MCCallers == [n \in {"f", "g"} |->
                CASE n = "f" -> {[name |-> "g", at |-> "call of f"]}
                  [] n = "g" -> {}]
MCRecursion == [n \in {"f"} |-> {[name |-> "f", at |-> "call of f"]}]

=============================================================================
