------------------------- MODULE SerialIndexRunner -------------------------
(* src/core/serialIndexRunner.ts. request() makes a run, tells the one in      *)
(* progress to cancel, and chains the new one to `tail', the promise of the    *)
(* request before it; when that settles, whichever way, the run takes its turn *)
(* and either is skipped (a newer request came meanwhile) or runs its task.    *)
EXTENDS Naturals

CONSTANT MaxRuns        \* bound: requests
ASSUME RunsAssumption == MaxRuns \in Nat

Runs == 1..MaxRuns

VARIABLES
    gen,        \* number of the latest request
    run,        \* run[i]: where the i-th request is
    told        \* runs in progress for which the cancel hook was called

runnerVars == <<gen, run, told>>

Settled == {"done", "failed", "skipped"}
RunStates == {"none", "waiting", "running"} \cup Settled

RunnerTypeOK ==
    /\ gen \in 0..MaxRuns
    /\ run \in [Runs -> RunStates]
    /\ told \in SUBSET Runs

RunnerInit ==
    /\ gen = 0
    /\ run = [i \in Runs |-> "none"]
    /\ told = {}

Running == {i \in Runs : run[i] = "running"}

\* request, up to its return.
Request ==
    /\ gen < MaxRuns
    /\ gen' = gen + 1
    /\ run' = [run EXCEPT ![gen + 1] = "waiting"]
    /\ told' = told \cup Running

\* The promise that was `tail' when request i came has settled. The mutants do
\* not wait for it, or (without .catch) wait for its success.
PriorSettled_Ignored(i) == TRUE
PriorSettled_Success(i) == \A j \in Runs : j + 1 = i => run[j] \in {"done", "skipped"}
PriorSettled(i) == \A j \in Runs : j + 1 = i => run[j] \in Settled

\* The .then callback of request i. The mutant forgets the generation.
Superseded_Never(i) == FALSE
Superseded(i) == i # gen

Turn(i) ==
    /\ run[i] = "waiting"
    /\ PriorSettled(i)
    /\ run' = [run EXCEPT ![i] = IF Superseded(i) THEN "skipped" ELSE "running"]
    /\ UNCHANGED <<gen, told>>

\* The task's promise settles.
TaskSettles(i, outcome) ==
    /\ run[i] = "running"
    /\ run' = [run EXCEPT ![i] = outcome]
    /\ told' = told \ {i}
    /\ UNCHANGED gen

RunnerNext ==
    \/ Request
    \/ \E i \in Runs : Turn(i)
    \/ \E i \in Runs, outcome \in {"done", "failed"} : TaskSettles(i, outcome)

RunnerSpec == RunnerInit /\ [][RunnerNext]_runnerVars

----------------------------------------------------------------------------
(* The runner implements LatestWins: a skipped turn is a stutter there.       *)

Ran == {i \in Runs : run[i] \in {"running", "done", "failed"}}

Promise == INSTANCE LatestWins WITH latest <- gen, running <- Running, ran <- Ran

\* One run at a time, each the latest request when it starts (`two runs never
\* write concurrently', `only the latest pending task runs').
RunsLatestOnly == Promise!Safe

\* And the latest request does start and end, whatever failed before it, as
\* long as tasks end.
LatestRuns == Promise!Spec

\* A run that a newer request supersedes was told to cancel: it never goes on
\* for ever without having heard of it.
SupersededIsTold == \A i \in Running : i < gen => i \in told
=============================================================================
