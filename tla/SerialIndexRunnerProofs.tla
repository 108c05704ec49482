---------------------- MODULE SerialIndexRunnerProofs ----------------------
(* SerialIndexRunner implements LatestWins, for any number of requests. The    *)
(* code compares a request only with the one before it and with the latest;    *)
(* that no two run at once follows from an invariant over all of them: when a  *)
(* request has had its turn, every earlier one has settled.                    *)
EXTENDS SerialIndexRunner, TLAPS

Called(i) == run[i] \notin {"none", "waiting"}

\* Requests are numbered without a gap, turns are taken in order, and a running
\* request that is no longer the latest has been told.
RunnerInv ==
    /\ RunnerTypeOK
    /\ \A i \in Runs : run[i] = "none" <=> i > gen
    /\ \A i, j \in Runs : j < i /\ Called(i) => run[j] \in Settled
    /\ SupersededIsTold

LEMMA RunnerInvInit == RunnerInit => RunnerInv
  BY RunsAssumption DEF RunnerInit, RunnerInv, RunnerTypeOK, RunStates, Called,
     SupersededIsTold, Running, Runs

LEMMA RequestKeepsInv == RunnerInv /\ Request => RunnerInv'
<1> SUFFICES ASSUME RunnerInv, Request PROVE RunnerInv'
  OBVIOUS
<1> USE RunsAssumption DEF Runs
<1>1. /\ gen \in 0..MaxRuns /\ gen < MaxRuns /\ gen' = gen + 1
      /\ gen + 1 \in Runs
      /\ run \in [Runs -> RunStates]
      /\ run' = [run EXCEPT ![gen + 1] = "waiting"]
      /\ told' = told \cup Running
  BY DEF RunnerInv, RunnerTypeOK, Request
<1>2. \A i \in Runs : run'[i] = IF i = gen + 1 THEN "waiting" ELSE run[i]
  BY <1>1
<1>3. run[gen + 1] = "none"
  BY <1>1 DEF RunnerInv
<1>4. RunnerTypeOK'
  <2>1. run' \in [Runs -> RunStates]
    BY <1>1 DEF RunStates
  <2>2. told' \in SUBSET Runs
    BY <1>1 DEF RunnerInv, RunnerTypeOK, Running
  <2> QED BY <1>1, <2>1, <2>2 DEF RunnerTypeOK
<1>5. \A i \in Runs : run'[i] = "none" <=> i > gen'
  BY <1>1, <1>2 DEF RunnerInv
<1>6. \A i, j \in Runs : j < i /\ Called(i)' => run'[j] \in Settled
  <2> SUFFICES ASSUME NEW i \in Runs, NEW j \in Runs, j < i, Called(i)'
               PROVE  run'[j] \in Settled
    OBVIOUS
  <2>1. i # gen + 1 /\ Called(i)
    BY <1>2 DEF Called
  <2>2. i <= gen
    BY <1>1, <2>1 DEF RunnerInv, Called
  <2> QED BY <1>1, <1>2, <2>1, <2>2 DEF RunnerInv
<1>7. SupersededIsTold'
  BY <1>1, <1>2 DEF SupersededIsTold, Running
<1> QED BY <1>4, <1>5, <1>6, <1>7 DEF RunnerInv

LEMMA TurnKeepsInv == ASSUME RunnerInv, NEW i \in Runs, Turn(i) PROVE RunnerInv'
<1> USE RunsAssumption DEF Runs
<1>1. /\ run \in [Runs -> RunStates] /\ gen \in 0..MaxRuns
      /\ run[i] = "waiting"
      /\ gen' = gen /\ told' = told
      /\ run'[i] = (IF i # gen THEN "skipped" ELSE "running")
      /\ \A j \in Runs : j # i => run'[j] = run[j]
  BY DEF RunnerInv, RunnerTypeOK, Turn, Superseded
<1>2. \A j \in Runs : j < i => run[j] \in Settled
  <2> SUFFICES ASSUME NEW j \in Runs, j < i PROVE run[j] \in Settled
    OBVIOUS
  <2>1. i - 1 \in Runs /\ run[i - 1] \in Settled
    BY DEF Turn, PriorSettled
  <2>2. Called(i - 1)
    BY <2>1 DEF Called, Settled
  <2>3. CASE j = i - 1
    BY <2>1, <2>3
  <2>4. CASE j < i - 1
    BY <2>1, <2>2, <2>4 DEF RunnerInv
  <2> QED BY <2>3, <2>4
<1>3. RunnerTypeOK'
  <2>1. run' \in [Runs -> RunStates]
    BY DEF RunnerInv, RunnerTypeOK, Turn, RunStates, Settled
  <2> QED BY <1>1, <2>1 DEF RunnerInv, RunnerTypeOK
<1>4. \A j \in Runs : run'[j] = "none" <=> j > gen'
  BY <1>1 DEF RunnerInv
<1>5. \A k, j \in Runs : j < k /\ Called(k)' => run'[j] \in Settled
  <2> SUFFICES ASSUME NEW k \in Runs, NEW j \in Runs, j < k, Called(k)'
               PROVE  run'[j] \in Settled
    OBVIOUS
  <2>1. CASE k = i
    BY <1>1, <1>2, <2>1
  <2>2. CASE k # i
    <3>1. Called(k)
      BY <1>1, <2>2 DEF Called
    <3>2. run[j] \in Settled
      BY <3>1 DEF RunnerInv
    <3>3. j # i
      BY <1>1, <3>2 DEF Settled
    <3> QED BY <1>1, <3>2, <3>3
  <2> QED BY <2>1, <2>2
<1>6. SupersededIsTold'
  BY <1>1 DEF RunnerInv, SupersededIsTold, Running
<1> QED BY <1>3, <1>4, <1>5, <1>6 DEF RunnerInv

LEMMA SettlesKeepsInv ==
  ASSUME RunnerInv, NEW i \in Runs, NEW outcome \in {"done", "failed"}, TaskSettles(i, outcome)
  PROVE  RunnerInv'
<1> USE RunsAssumption DEF Runs
<1>1. /\ run \in [Runs -> RunStates] /\ gen \in 0..MaxRuns
      /\ run[i] = "running"
      /\ gen' = gen /\ told' = told \ {i}
      /\ run'[i] = outcome
      /\ \A j \in Runs : j # i => run'[j] = run[j]
  BY DEF RunnerInv, RunnerTypeOK, TaskSettles
<1>2. RunnerTypeOK'
  <2>1. run' \in [Runs -> RunStates]
    BY DEF RunnerInv, RunnerTypeOK, TaskSettles, RunStates, Settled
  <2> QED BY <1>1, <2>1 DEF RunnerInv, RunnerTypeOK
<1>3. \A j \in Runs : run'[j] = "none" <=> j > gen'
  BY <1>1 DEF RunnerInv
<1>4. \A k, j \in Runs : j < k /\ Called(k)' => run'[j] \in Settled
  BY <1>1 DEF RunnerInv, Called, Settled
<1>5. SupersededIsTold'
  BY <1>1 DEF RunnerInv, SupersededIsTold, Running
<1> QED BY <1>2, <1>3, <1>4, <1>5 DEF RunnerInv

LEMMA RunnerInvStep == RunnerInv /\ [RunnerNext]_runnerVars => RunnerInv'
<1>1. ASSUME RunnerInv, UNCHANGED runnerVars PROVE RunnerInv'
  BY <1>1 DEF runnerVars, RunnerInv, RunnerTypeOK, Called, SupersededIsTold, Running
<1> QED BY <1>1, RequestKeepsInv, TurnKeepsInv, SettlesKeepsInv DEF RunnerNext

\* Two requests never run at the same time.
LEMMA OneAtATime ==
  ASSUME RunnerInv, NEW i \in Running, NEW j \in Running PROVE i = j
  BY RunsAssumption DEF RunnerInv, Running, Called, Settled, Runs

\* Every superseded run in progress was told to cancel (request calls the hook
\* before it chains itself, and no superseded request starts).
THEOREM SupersededAreTold == RunnerSpec => []SupersededIsTold
<1>1. RunnerInv => SupersededIsTold
  BY DEF RunnerInv
<1> QED BY <1>1, RunnerInvInit, RunnerInvStep, PTL DEF RunnerSpec

----------------------------------------------------------------------------

LEMMA InitRefines == RunnerInit => Promise!Init
  BY DEF RunnerInit, Promise!Init, Running, Ran

LEMMA StepRefines ==
  RunnerInv /\ [RunnerNext]_runnerVars => [Promise!Next]_(Promise!lwVars)
<1> SUFFICES ASSUME RunnerInv, [RunnerNext]_runnerVars
             PROVE  [Promise!Next]_(Promise!lwVars)
  OBVIOUS
<1> USE RunsAssumption DEF Runs
<1>0. run \in [Runs -> RunStates] /\ gen \in 0..MaxRuns
  BY DEF RunnerInv, RunnerTypeOK
<1>1. CASE Request
  <2>1. gen + 1 \in Runs /\ run[gen + 1] = "none"
    BY <1>0, <1>1 DEF Request, RunnerInv
  <2>2. Running' = Running /\ Ran' = Ran
    BY <1>0, <1>1, <2>1 DEF Request, Running, Ran
  <2> QED BY <1>1, <2>2 DEF Request, Promise!Next, Promise!Ask
<1>2. ASSUME NEW i \in Runs, Turn(i) PROVE [Promise!Next]_(Promise!lwVars)
  <2>1. /\ run[i] = "waiting" /\ gen' = gen
        /\ run' = [run EXCEPT ![i] = IF i # gen THEN "skipped" ELSE "running"]
    BY <1>2 DEF Turn, Superseded
  <2>2. CASE i # gen
    <3>1. Running' = Running /\ Ran' = Ran
      BY <1>0, <2>1, <2>2 DEF Running, Ran
    <3> QED BY <2>1, <3>1 DEF Promise!lwVars
  <2>3. CASE i = gen
    <3>1. Running = {}
      <4> SUFFICES ASSUME NEW j \in Runs, run[j] = "running" PROVE FALSE
        BY DEF Running
      <4>1. RunnerInv'
        BY <1>2, TurnKeepsInv
      <4>2. run'[i] = "running" /\ run'[j] = "running"
        BY <1>0, <2>1, <2>3
      <4>3. i = j
        BY <4>1, <4>2 DEF RunnerInv, Called, Settled
      <4> QED BY <2>1, <4>3
    <3>2. Running' = {gen} /\ Ran' = Ran \cup {gen} /\ gen \notin Ran /\ gen # 0
      BY <1>0, <2>1, <2>3, <3>1 DEF Running, Ran
    <3> QED BY <2>1, <3>1, <3>2 DEF Promise!Next, Promise!Start
  <2> QED BY <2>2, <2>3
<1>3. ASSUME NEW i \in Runs, NEW outcome \in {"done", "failed"}, TaskSettles(i, outcome)
      PROVE  [Promise!Next]_(Promise!lwVars)
  <2>1. /\ run[i] = "running" /\ gen' = gen
        /\ run' = [run EXCEPT ![i] = outcome]
    BY <1>3 DEF TaskSettles
  <2>2. Running = {i}
    <3>1. i \in Running
      BY <2>1 DEF Running
    <3> QED BY <3>1, OneAtATime
  <2>3. Running' = {} /\ Ran' = Ran
    BY <1>0, <2>1, <2>2 DEF Running, Ran
  <2> QED BY <2>1, <2>2, <2>3 DEF Promise!Next, Promise!End
<1>4. CASE UNCHANGED runnerVars
  BY <1>4 DEF runnerVars, Promise!lwVars, Running, Ran
<1> QED BY <1>1, <1>2, <1>3, <1>4 DEF RunnerNext

\* The runner keeps its promise: one run at a time, each the latest request
\* when it starts, for every number of requests and whatever fails.
THEOREM RunnerKeepsPromise == RunnerSpec => RunsLatestOnly
<1> QED BY InitRefines, StepRefines, RunnerInvInit, RunnerInvStep, PTL
        DEF RunnerSpec, RunsLatestOnly, Promise!Safe
=============================================================================
