----------------------------- MODULE IndexGate -----------------------------
(* src/core/indexGate.ts: indexing operations bracket their work with begin    *)
(* and end; a navigation query waits until none is in flight or its time-out.  *)
(* A query is a reader: "idle", "waiting" for the gate, or "go": its promise   *)
(* is resolved and it is about to query.                                       *)
EXTENDS Naturals

CONSTANT Readers
VARIABLES
    active,     \* operations between begin and end
    reader      \* reader[r]; the `waiters' are the ones "waiting"

gateVars == <<active, reader>>

GateTypeOK ==
    /\ active \in Nat
    /\ reader \in [Readers -> {"idle", "waiting", "go"}]

GateInit ==
    /\ active = 0
    /\ reader = [r \in Readers |-> "idle"]

Begin ==
    /\ active' = active + 1
    /\ UNCHANGED reader

\* The last end resolves every waiter. The mutant resolves them only when the
\* counter was already 0.
Opens_Late == active = 0
Opens == active <= 1

End ==
    /\ active' = IF active = 0 THEN 0 ELSE active - 1
    /\ reader' = IF Opens
                 THEN [r \in Readers |-> IF reader[r] = "waiting" THEN "go" ELSE reader[r]]
                 ELSE reader

\* whenIdle; with a time-out of 0 the setting disables waiting.
WhenIdle(r, timeout) ==
    /\ reader[r] = "idle"
    /\ reader' = [reader EXCEPT ![r] = IF active > 0 /\ timeout > 0 THEN "waiting" ELSE "go"]
    /\ UNCHANGED active

TimesOut(r) ==
    /\ reader[r] = "waiting"
    /\ reader' = [reader EXCEPT ![r] = "go"]
    /\ UNCHANGED active
=============================================================================
