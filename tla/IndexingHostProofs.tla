------------------------- MODULE IndexingHostProofs -------------------------
(* What the host shows and when it queries, for any number of requests,        *)
(* incremental operations and readers. The flags bulkActive, bulkDropsIndexes  *)
(* and bulkIndexing are shared by all runs; that they speak of the one run     *)
(* whose indexes are dropped rests on the runner's invariant (RunnerInv: two   *)
(* requests never run at once).                                                *)
EXTENDS IndexingHost, SerialIndexRunnerProofs, FiniteSetTheorems

\* The flags are those of the run in its bulk part.
BulkInv ==
    /\ \A i \in Runs : phase[i] # "none" <=> run[i] = "running"
    /\ bulkActive <=> \E i \in Runs : phase[i] \in Bulk
    /\ \A i \in Runs : phase[i] \in Bulk => (bulkDropsIndexes <=> plan[i].drops)
    /\ bulkIndexing <=> bulkActive /\ bulkDropsIndexes
    /\ \A i \in Runs : phase[i] = "remove" => plan[i].removes > 0

\* Tables that a run dropped the indexes of, and that it is still to build, are
\* those of a from-scratch run in its parse or its rebuild.
ToBuild == \E i \in Runs : phase[i] \in {"parse", "rebuild"} /\ plan[i].drops
Drops == \A i \in Runs : phase[i] = "drop" => plan[i].drops
DroppedInv == Drops /\ (unindexed /\ ~lost => ToBuild)

HostInv == HostTypeOK /\ RunnerInv /\ BulkInv /\ DroppedInv /\ ShownIsTrue /\ NavigationAbstains

LEMMA NoPlanIsAPlan == NoPlan \in Plans
  BY HostAssumption DEF Plans, NoPlan

LEMMA HostInvInit == Init => HostInv
<1> SUFFICES ASSUME Init PROVE HostInv
  OBVIOUS
<1> USE RunsAssumption, HostAssumption DEF Runs
<1>1. RunnerInv /\ RunnerTypeOK
  BY RunnerInvInit DEF Init, RunnerInv
<1>2. HostTypeOK
  <2>1. NoPlan \in Plans
    BY NoPlanIsAPlan
  <2>2. phase \in [Runs -> Phases] /\ forceAll \in [Runs -> BOOLEAN] /\ plan \in [Runs -> Plans]
    BY <2>1 DEF Init, Phases
  <2>3. GateTypeOK /\ op \in [IncOps -> {"new", "busy", "settled"}]
    BY DEF Init, GateInit, GateTypeOK
  <2>4. view \in [indexing : BOOLEAN, suspended : BOOLEAN]
    BY DEF Init
  <2> QED BY <1>1, <2>2, <2>3, <2>4 DEF Init, HostTypeOK
<1>3. BulkInv
  BY DEF Init, BulkInv, RunnerInit, Bulk
<1>4. ShownIsTrue /\ NavigationAbstains /\ DroppedInv
  BY DEF Init, ShownIsTrue, NavigationAbstains, DroppedInv, Drops
<1> QED BY <1>1, <1>2, <1>3, <1>4 DEF HostInv

\* What the host does to the runner's state is a step of the runner.
LEMMA HostStepsRunner == [Next]_vars => [RunnerNext]_runnerVars
<1> SUFFICES ASSUME [Next]_vars PROVE [RunnerNext]_runnerVars
  OBVIOUS
<1>1. ASSUME NEW i \in Runs, DoRunIndex(i) PROVE [RunnerNext]_runnerVars
  BY <1>1 DEF DoRunIndex, ScanEndsRun, ScanMakesPlan, ProgressShows, Removed, Proceed,
     IndexAllGoesOn, TryEnds, Finish, RunnerNext
<1>2. ASSUME NEW i \in Runs, TakeTurn(i) PROVE [RunnerNext]_runnerVars
  BY <1>2 DEF TakeTurn, RunnerNext
<1>3. CASE User
  BY <1>3 DEF User, RunIndex, StopIndexing, TrackIncremental, LiveEdit, Navigate, OpenSearch,
     SearchQuery, CloseSearch, RunnerNext
<1>4. CASE \/ \E o \in Saves : IncrementalEnds(o)
           \/ \E o \in LiveEdits : LiveEditEnds(o)
           \/ \E r \in Readers : NavigationTimesOut(r) \/ NavigationQuery(r)
           \/ UNCHANGED vars
  BY <1>4 DEF IncrementalEnds, LiveEditEnds, NavigationTimesOut, NavigationQuery, vars
<1> QED BY <1>1, <1>2, <1>3, <1>4 DEF Next

LEMMA RunnerInvKept == ASSUME RunnerInv, [Next]_vars PROVE RunnerInv' /\ RunnerTypeOK'
  BY HostStepsRunner, RunnerInvStep DEF RunnerInv

\* At most one run is in progress, and only that run can be in its bulk part.
LEMMA OneBulk ==
  ASSUME HostInv, NEW i \in Runs, NEW j \in Runs, phase[i] # "none", phase[j] # "none"
  PROVE  i = j
  BY OneAtATime DEF HostInv, BulkInv, Running

----------------------------------------------------------------------------
(* Types.                                                                     *)

\* The variables of a bulk run keep their types.
LEMMA RunTypes ==
  ASSUME HostTypeOK, BulkInv, [Next]_vars
  PROVE  /\ phase' \in [Runs -> Phases]
         /\ forceAll' \in [Runs -> BOOLEAN]
         /\ plan' \in [Runs -> Plans]
<1> USE RunsAssumption, HostAssumption DEF HostTypeOK
<1>1. ASSUME NEW i \in Runs, ScanEndsRun(i) \/ IndexAllGoesOn(i) \/ TakeTurn(i)
      PROVE  /\ phase' \in [Runs -> Phases]
             /\ forceAll' \in [Runs -> BOOLEAN]
             /\ plan' \in [Runs -> Plans]
  BY <1>1 DEF ScanEndsRun, IndexAllGoesOn, TakeTurn, Phases
<1>2. ASSUME NEW i \in Runs, NEW p \in Plans, ScanMakesPlan(i, p)
      PROVE  /\ phase' \in [Runs -> Phases]
             /\ forceAll' \in [Runs -> BOOLEAN]
             /\ plan' \in [Runs -> Plans]
  BY <1>2 DEF ScanMakesPlan, Phases
<1>3. ASSUME NEW i \in Runs, Finish(i), UNCHANGED forceAll
      PROVE  /\ phase' \in [Runs -> Phases]
             /\ forceAll' \in [Runs -> BOOLEAN]
             /\ plan' \in [Runs -> Plans]
  <2> QED BY <1>3, NoPlanIsAPlan DEF Finish, Phases
<1>4. ASSUME NEW i \in Runs, NEW removes \in 0..MaxRemoves, Proceed(i, removes)
      PROVE  /\ phase' \in [Runs -> Phases]
             /\ forceAll' \in [Runs -> BOOLEAN]
             /\ plan' \in [Runs -> Plans]
  <2>1. CASE Finish(i)
    BY <1>3, <1>4, <2>1 DEF Proceed
  <2>2. CASE /\ phase' = [phase EXCEPT ![i] =
                  IF More(removes) THEN "remove" ELSE IF plan[i].drops THEN "drop" ELSE "parse"]
             /\ plan' = [plan EXCEPT ![i].removes = removes]
    <3>1. plan' \in [Runs -> Plans]
      <4>1. plan[i] \in Plans
        OBVIOUS
      <4>2. [plan[i] EXCEPT !.removes = removes] \in Plans
        BY <4>1 DEF Plans
      <4>3. plan' = [plan EXCEPT ![i] = [plan[i] EXCEPT !.removes = removes]]
        BY <2>2, <4>1 DEF Plans
      <4> QED BY <4>2, <4>3
    <3>2. phase' \in [Runs -> Phases]
      BY <2>2 DEF Phases
    <3> QED BY <1>4, <3>1, <3>2 DEF Proceed
  <2> QED BY <1>4, <2>1, <2>2 DEF Proceed
<1>5. ASSUME NEW i \in Runs, ProgressShows(i) \/ Removed(i)
      PROVE  /\ phase' \in [Runs -> Phases]
             /\ forceAll' \in [Runs -> BOOLEAN]
             /\ plan' \in [Runs -> Plans]
  <2>1. plan[i].removes \in 0..MaxRemoves
    BY DEF Plans
  <2>2. CASE ProgressShows(i)
    BY <1>4, <2>1, <2>2 DEF ProgressShows
  <2>3. CASE Removed(i)
    <3>1. plan[i].removes - 1 \in 0..MaxRemoves
      <4>1. plan[i].removes > 0
        BY <2>3, Zenon DEF Removed, BulkInv
      <4> HIDE DEF HostTypeOK
      <4> QED BY <2>1, <4>1
    <3> QED BY <1>4, <2>3, <3>1 DEF Removed
  <2> QED BY <1>5, <2>2, <2>3
<1>6. ASSUME NEW i \in Runs, TryEnds(i)
      PROVE  /\ phase' \in [Runs -> Phases]
             /\ forceAll' \in [Runs -> BOOLEAN]
             /\ plan' \in [Runs -> Plans]
  BY <1>3, <1>6 DEF TryEnds
<1>7. ASSUME NEW force \in BOOLEAN, RunIndex(force)
      PROVE  /\ phase' \in [Runs -> Phases]
             /\ forceAll' \in [Runs -> BOOLEAN]
             /\ plan' \in [Runs -> Plans]
  BY <1>7 DEF RunIndex
<1>8. CASE UNCHANGED runVars
  BY <1>8 DEF runVars
<1>9. CASE StopIndexing
  BY <1>9 DEF StopIndexing
<1>10. (User /\ ~(\E force \in BOOLEAN : RunIndex(force)) /\ ~StopIndexing) => UNCHANGED runVars
  BY DEF User, TrackIncremental, LiveEdit, Navigate, OpenSearch, SearchQuery, CloseSearch, hostVars
<1>11. \/ \E o \in Saves : IncrementalEnds(o)
       \/ \E o \in LiveEdits : LiveEditEnds(o)
       \/ \E r \in Readers : NavigationTimesOut(r) \/ NavigationQuery(r)
       \/ UNCHANGED vars
       => UNCHANGED runVars
  BY DEF IncrementalEnds, LiveEditEnds, NavigationTimesOut, NavigationQuery, vars, hostVars
<1> QED BY <1>1, <1>2, <1>5, <1>6, <1>7, <1>8, <1>9, <1>10, <1>11 DEF Next, DoRunIndex

LEMMA IndicatorTypes ==
  UpdateBusyIndicator => /\ bulkIndexing' \in BOOLEAN
                         /\ view' \in [indexing : BOOLEAN, suspended : BOOLEAN]
  BY DEF UpdateBusyIndicator

LEMMA GateCounts ==
  ASSUME active \in Nat, Begin \/ End PROVE active' \in Nat
<1>1. CASE Begin
  BY <1>1 DEF Begin
<1>2. CASE End
  <2>1. active' = 0 \/ (active # 0 /\ active' = active - 1)
    BY <1>2 DEF End
  <2> QED BY <2>1
<1> QED BY <1>1, <1>2

\* The flags, the counters and what is shown keep their types.
LEMMA FlagTypes ==
  ASSUME HostTypeOK, [Next]_vars
  PROVE  /\ bulkActive' \in BOOLEAN /\ bulkDropsIndexes' \in BOOLEAN
         /\ bulkIndexing' \in BOOLEAN
         /\ view' \in [indexing : BOOLEAN, suspended : BOOLEAN]
         /\ status' \in {"idle", "indexing", "changed files", "stopping"}
         /\ inflight' \in Nat /\ incTotal' \in Nat /\ incDone' \in Nat
         /\ notification' \in BOOLEAN
         /\ active' \in Nat
<1> DEFINE Goal == /\ bulkActive' \in BOOLEAN /\ bulkDropsIndexes' \in BOOLEAN
                   /\ bulkIndexing' \in BOOLEAN
                   /\ view' \in [indexing : BOOLEAN, suspended : BOOLEAN]
                   /\ status' \in {"idle", "indexing", "changed files", "stopping"}
                   /\ inflight' \in Nat /\ incTotal' \in Nat /\ incDone' \in Nat
                   /\ notification' \in BOOLEAN
                   /\ active' \in Nat
<1> USE DEF HostTypeOK, GateTypeOK
<1>1. ASSUME UNCHANGED <<active, bulkFlags, shown, incVars>> PROVE Goal
  BY <1>1 DEF bulkFlags, shown, incVars
<1>2. ASSUME NEW i \in Runs, Finish(i) PROVE Goal
  <2>1. /\ bulkActive' = FALSE /\ bulkDropsIndexes' = FALSE
        /\ UNCHANGED incVars
        /\ status' = status \/ status' = "idle"
    BY <1>2 DEF Finish, IdleStatus
  <2>2. active' \in Nat
    BY <1>2, GateCounts DEF Finish
  <2>3. UpdateBusyIndicator
    BY <1>2 DEF Finish
  <2> QED BY <2>1, <2>2, <2>3, IndicatorTypes DEF incVars
<1>3. ASSUME NEW i \in Runs, ScanEndsRun(i) PROVE Goal
  BY <1>3 DEF ScanEndsRun, bulkFlags, incVars, gateVars
<1>4. ASSUME NEW i \in Runs, NEW p \in Plans, ScanMakesPlan(i, p) PROVE Goal
  <2>1. /\ bulkActive' = TRUE /\ bulkDropsIndexes' = p.drops
        /\ UNCHANGED incVars
        /\ status' = "indexing"
        /\ p.drops \in BOOLEAN
    BY <1>4 DEF ScanMakesPlan, Plans
  <2>2. active' \in Nat
    BY <1>4, GateCounts DEF ScanMakesPlan
  <2>3. UpdateBusyIndicator
    BY <1>4 DEF ScanMakesPlan
  <2> QED BY <2>1, <2>2, <2>3, IndicatorTypes DEF incVars
<1>5. ASSUME NEW i \in Runs, NEW removes, Proceed(i, removes) PROVE Goal
  BY <1>1, <1>2, <1>5 DEF Proceed, gateVars
<1>6. ASSUME NEW i \in Runs, DoRunIndex(i) PROVE Goal
  BY <1>1, <1>2, <1>3, <1>4, <1>5, <1>6
     DEF DoRunIndex, ProgressShows, Removed, IndexAllGoesOn, TryEnds, gateVars
<1>7. ASSUME NEW o \in Saves, TrackIncremental(o) PROVE Goal
  <2>1. /\ UNCHANGED <<bulkActive, bulkDropsIndexes, incDone>>
        /\ status' = status \/ status' = "changed files"
        /\ inflight' = inflight + 1 /\ incTotal' = incTotal + 1
        /\ notification' = (notification \/ ~bulkActive)
    BY <1>7 DEF TrackIncremental, bulkFlags
  <2>2. active' \in Nat
    BY <1>7, GateCounts DEF TrackIncremental
  <2>3. UpdateBusyIndicator
    BY <1>7 DEF TrackIncremental
  <2>4. inflight' \in Nat /\ incTotal' \in Nat
    <3>1. inflight \in Nat /\ incTotal \in Nat
      OBVIOUS
    <3>2. inflight' = inflight + 1 /\ incTotal' = incTotal + 1
      BY <2>1
    <3> HIDE DEF HostTypeOK
    <3> QED BY <3>1, <3>2
  <2> QED BY <2>1, <2>2, <2>3, <2>4, IndicatorTypes
<1>8. ASSUME NEW o \in Saves, IncrementalEnds(o) PROVE Goal
  <2>1. /\ UNCHANGED <<bulkActive, bulkDropsIndexes>>
        /\ status' = status \/ status' = "idle" \/ status' = "changed files"
        /\ inflight' = 0 \/ (inflight # 0 /\ inflight' = inflight - 1)
        /\ incTotal' = 0 \/ incTotal' = incTotal
        /\ incDone' = 0 \/ incDone' = incDone + 1
        /\ notification' = (notification /\ ~BurstEnds)
    BY <1>8 DEF IncrementalEnds, bulkFlags
  <2>2. active' \in Nat
    BY <1>8, GateCounts DEF IncrementalEnds
  <2>3. UpdateBusyIndicator
    BY <1>8 DEF IncrementalEnds
  <2>4. inflight' \in Nat /\ incTotal' \in Nat /\ incDone' \in Nat
    <3>1. inflight \in Nat /\ incTotal \in Nat /\ incDone \in Nat
      OBVIOUS
    <3>2. /\ inflight' = 0 \/ (inflight # 0 /\ inflight' = inflight - 1)
          /\ incTotal' = 0 \/ incTotal' = incTotal
          /\ incDone' = 0 \/ incDone' = incDone + 1
      BY <2>1
    <3> HIDE DEF HostTypeOK
    <3> QED BY <3>1, <3>2
  <2> QED BY <2>1, <2>2, <2>3, <2>4, IndicatorTypes
<1>9. ASSUME NEW o \in LiveEdits, LiveEdit(o) \/ LiveEditEnds(o) PROVE Goal
  <2>1. UNCHANGED <<bulkFlags, inflight, incTotal, incDone, notification, shown>>
    BY <1>9 DEF LiveEdit, LiveEditEnds
  <2>2. active' \in Nat
    BY <1>9, GateCounts DEF LiveEdit, LiveEditEnds
  <2> QED BY <2>1, <2>2 DEF bulkFlags, shown
<1>10. CASE StopIndexing
  BY <1>10 DEF StopIndexing, bulkFlags, incVars, gateVars
<1>11. ASSUME NEW force \in BOOLEAN, RunIndex(force) PROVE Goal
  BY <1>1, <1>11 DEF RunIndex, gateVars
<1>12. ASSUME NEW i \in Runs, TakeTurn(i) PROVE Goal
  BY <1>1, <1>12 DEF TakeTurn, gateVars
<1>13. ASSUME NEW r \in Readers, Navigate(r) \/ NavigationTimesOut(r) \/ NavigationQuery(r)
       PROVE  Goal
  BY <1>1, <1>13 DEF Navigate, NavigationTimesOut, NavigationQuery, WhenIdle, TimesOut, hostVars
<1>14. CASE OpenSearch \/ SearchQuery \/ CloseSearch
  BY <1>1, <1>14 DEF OpenSearch, SearchQuery, CloseSearch, gateVars
<1>15. CASE UNCHANGED vars
  BY <1>1, <1>15 DEF vars, gateVars, hostVars
<1> QED BY <1>6, <1>7, <1>8, <1>9, <1>10, <1>11, <1>12, <1>13, <1>14, <1>15 DEF Next, User

\* What only the queries, the operations and the stops change keeps its type.
LEMMA OtherTypes ==
  ASSUME HostTypeOK, [Next]_vars
  PROVE  /\ stopRequested' \in BOOLEAN /\ canceled' \in BOOLEAN
         /\ stopped' \in BOOLEAN /\ strayStop' \in BOOLEAN
         /\ op' \in [IncOps -> {"new", "busy", "settled"}]
         /\ picker' \in BOOLEAN /\ scans' \in SUBSET {"navigation", "search"}
         /\ unindexed' \in BOOLEAN /\ lost' \in BOOLEAN
         /\ reader' \in [Readers -> {"idle", "waiting", "go"}]
<1> DEFINE Flags == /\ stopRequested' \in BOOLEAN /\ canceled' \in BOOLEAN
                    /\ stopped' \in BOOLEAN /\ strayStop' \in BOOLEAN
           Queries == /\ op' \in [IncOps -> {"new", "busy", "settled"}]
                      /\ picker' \in BOOLEAN /\ scans' \in SUBSET {"navigation", "search"}
                      /\ unindexed' \in BOOLEAN /\ lost' \in BOOLEAN
           Gate == reader' \in [Readers -> {"idle", "waiting", "go"}]
<1> USE DEF HostTypeOK, GateTypeOK
<1>1. ASSUME Begin \/ End \/ UNCHANGED reader PROVE Gate
  BY <1>1 DEF Begin, End
<1>2. ASSUME UNCHANGED <<stopRequested, canceled, stopped, strayStop>> PROVE Flags
  BY <1>2
<1>3. ASSUME UNCHANGED <<op, picker, scans, tables>> PROVE Queries
  BY <1>3 DEF tables
<1>4. ASSUME NEW i \in Runs, Finish(i)
      PROVE  Gate /\ UNCHANGED op /\ canceled' = FALSE /\ stopped' = FALSE
  BY <1>1, <1>4 DEF Finish, incVars
<1>5. ASSUME NEW i \in Runs, DoRunIndex(i) PROVE Flags /\ Queries /\ Gate
  <2>1. ASSUME NEW removes, Proceed(i, removes) PROVE Flags /\ Queries /\ Gate
    BY <1>1, <1>3, <1>4, <2>1 DEF Proceed, gateVars, reads, incVars
  <2>2. CASE ScanEndsRun(i)
    BY <1>1, <1>2, <1>3, <2>2 DEF ScanEndsRun, gateVars, reads, incVars
  <2>3. ASSUME NEW p \in Plans, ScanMakesPlan(i, p) PROVE Flags /\ Queries /\ Gate
    BY <1>1, <1>2, <1>3, <2>3 DEF ScanMakesPlan, reads, incVars
  <2>4. CASE IndexAllGoesOn(i)
    <3>1. unindexed' \in BOOLEAN /\ lost' \in BOOLEAN
      BY <2>4 DEF IndexAllGoesOn, tables
    <3>2. UNCHANGED <<op, picker, scans>>
      BY <2>4 DEF IndexAllGoesOn, incVars
    <3>3. Flags /\ Gate
      BY <1>1, <2>4 DEF IndexAllGoesOn, gateVars
    <3> QED BY <3>1, <3>2, <3>3
  <2>5. CASE TryEnds(i)
    <3>1. unindexed' \in BOOLEAN /\ lost' \in BOOLEAN
      BY <2>5 DEF TryEnds, IndexAllResolves, IndexAllFails
    <3> QED BY <1>4, <2>5, <3>1 DEF TryEnds
  <2> QED BY <1>5, <2>1, <2>2, <2>3, <2>4, <2>5 DEF DoRunIndex, ProgressShows, Removed
<1>6. ASSUME NEW o \in Saves, TrackIncremental(o) \/ IncrementalEnds(o)
      PROVE  Flags /\ Queries /\ Gate
  BY <1>1, <1>2, <1>6 DEF TrackIncremental, IncrementalEnds, IncOps, runVars, reads, tables
<1>7. ASSUME NEW o \in LiveEdits, LiveEdit(o) \/ LiveEditEnds(o)
      PROVE  Flags /\ Queries /\ Gate
  BY <1>1, <1>2, <1>7 DEF LiveEdit, LiveEditEnds, IncOps, runVars, reads, tables
<1>8. ASSUME NEW r \in Readers, Navigate(r) \/ NavigationTimesOut(r) \/ NavigationQuery(r)
      PROVE  Flags /\ Queries /\ Gate
  <2>1. Gate
    BY <1>8 DEF Navigate, NavigationTimesOut, NavigationQuery, WhenIdle, TimesOut
  <2>2. /\ UNCHANGED runVars /\ op' = op /\ picker' = picker /\ UNCHANGED tables
        /\ scans' = scans \/ scans' = scans \cup {"navigation"}
    BY <1>8 DEF Navigate, NavigationTimesOut, NavigationQuery, hostVars, reads, incVars, ScannedBy
  <2>3. scans' \in SUBSET {"navigation", "search"}
    BY <2>2
  <2>4. Flags
    BY <1>2, <2>2 DEF runVars
  <2> QED BY <2>1, <2>2, <2>3, <2>4 DEF tables
<1>9. CASE OpenSearch \/ SearchQuery \/ CloseSearch
  <2>1. /\ UNCHANGED runVars /\ UNCHANGED gateVars /\ op' = op /\ UNCHANGED tables
        /\ scans' = scans \/ scans' = scans \cup {"search"}
        /\ picker' = picker \/ picker' = TRUE \/ picker' = FALSE
    BY <1>9 DEF OpenSearch, SearchQuery, CloseSearch, incVars, ScannedBy
  <2>2. scans' \in SUBSET {"navigation", "search"}
    BY <2>1
  <2>3. Flags /\ Gate
    BY <1>1, <1>2, <2>1 DEF runVars, gateVars
  <2>4. op' = op /\ picker' \in BOOLEAN /\ unindexed' \in BOOLEAN /\ lost' \in BOOLEAN
    BY <2>1 DEF tables
  <2> QED BY <2>2, <2>3, <2>4
<1>10. CASE StopIndexing
  BY <1>1, <1>3, <1>10 DEF StopIndexing, PoolCancel, gateVars, reads, incVars
<1>11. ASSUME NEW force \in BOOLEAN, RunIndex(force) PROVE Flags /\ Queries /\ Gate
  BY <1>1, <1>3, <1>11 DEF RunIndex, PoolCancel, gateVars, reads, incVars
<1>12. ASSUME NEW i \in Runs, TakeTurn(i) PROVE Flags /\ Queries /\ Gate
  BY <1>1, <1>3, <1>12 DEF TakeTurn, FreshStop, gateVars, reads, incVars
<1>13. CASE UNCHANGED vars
  BY <1>1, <1>2, <1>3, <1>13 DEF vars, gateVars, hostVars, runVars, reads, incVars
<1> QED BY <1>5, <1>6, <1>7, <1>8, <1>9, <1>10, <1>11, <1>12, <1>13 DEF Next, User

LEMMA TypesKept == ASSUME HostInv, [Next]_vars PROVE HostTypeOK'
<1>1. HostTypeOK /\ BulkInv /\ RunnerInv
  BY DEF HostInv
<1> QED BY <1>1, RunnerInvKept, RunTypes, FlagTypes, OtherTypes DEF HostTypeOK, GateTypeOK

----------------------------------------------------------------------------
(* The flags.                                                                 *)

\* A step that leaves the runs and their plans alone may recompute the flags.
LEMMA FlagsRecomputed ==
  ASSUME BulkInv, UNCHANGED <<run, phase, plan, bulkActive, bulkDropsIndexes>>,
         UNCHANGED bulkIndexing \/ UpdateBusyIndicator
  PROVE  BulkInv'
<1>1. bulkIndexing' <=> bulkActive' /\ bulkDropsIndexes'
  <2>1. CASE UNCHANGED bulkIndexing
    BY <2>1 DEF BulkInv
  <2>2. CASE UpdateBusyIndicator
    BY <2>2 DEF UpdateBusyIndicator
  <2> QED BY <2>1, <2>2
<1> QED BY <1>1 DEF BulkInv

\* The only run in progress leaves doRunIndex.
LEMMA FinishKeepsBulk == ASSUME HostInv, NEW i \in Runs, phase[i] # "none", Finish(i) PROVE BulkInv'
<1>1. /\ phase' = [phase EXCEPT ![i] = "none"] /\ run' = [run EXCEPT ![i] = "done"]
      /\ phase \in [Runs -> Phases] /\ run \in [Runs -> RunStates]
      /\ bulkActive' = FALSE /\ bulkIndexing' = FALSE
  BY DEF Finish, TaskSettles, UpdateBusyIndicator, HostInv, HostTypeOK, RunnerTypeOK
<1>2. \A j \in Runs : phase'[j] = "none"
  BY <1>1, OneBulk
<1>3. \A j \in Runs : run'[j] # "running"
  <2>1. \A j \in Runs : j # i => phase[j] = "none" /\ run[j] # "running"
    BY OneBulk DEF HostInv, BulkInv
  <2> QED BY <1>1, <2>1
<1> QED BY <1>1, <1>2, <1>3 DEF BulkInv, Bulk

LEMMA DoRunIndexKeepsBulk == ASSUME HostInv, NEW i \in Runs, DoRunIndex(i) PROVE BulkInv'
<1>0. /\ phase \in [Runs -> Phases] /\ run \in [Runs -> RunStates] /\ plan \in [Runs -> Plans]
      /\ BulkInv
      /\ \A j \in Runs : j # i /\ phase[i] # "none" => phase[j] = "none" /\ run[j] # "running"
  BY OneBulk DEF HostInv, HostTypeOK, RunnerTypeOK, BulkInv
<1>1. CASE ScanEndsRun(i)
  <2>1. PICK outcome \in {"done", "failed"} : run' = [run EXCEPT ![i] = outcome]
    BY <1>1 DEF ScanEndsRun, TaskSettles
  <2>2. /\ phase[i] = "scan" /\ phase' = [phase EXCEPT ![i] = "none"]
        /\ UNCHANGED <<plan, bulkActive, bulkDropsIndexes, bulkIndexing>>
    BY <1>1 DEF ScanEndsRun, bulkFlags
  <2>3. \A j \in Runs : phase'[j] = "none" /\ run'[j] # "running"
    BY <1>0, <2>1, <2>2
  <2>4. ~bulkActive
    BY <1>0, <2>2 DEF BulkInv, Bulk
  <2> QED BY <1>0, <2>2, <2>3, <2>4 DEF BulkInv, Bulk
<1>2. ASSUME NEW p \in Plans, ScanMakesPlan(i, p) PROVE BulkInv'
  <2>1. /\ phase[i] = "scan" /\ phase' = [phase EXCEPT ![i] = "notify"]
        /\ plan' = [plan EXCEPT ![i] = p]
        /\ bulkActive' = TRUE /\ bulkDropsIndexes' = p.drops /\ run' = run
        /\ bulkIndexing' = (bulkActive' /\ bulkDropsIndexes')
    BY <1>2 DEF ScanMakesPlan, UpdateBusyIndicator, runnerVars
  <2>2. /\ phase'[i] = "notify" /\ plan'[i] = p
        /\ \A j \in Runs : j # i => phase'[j] = "none" /\ phase[j] = "none"
    BY <1>0, <2>1
  <2>3. \A j \in Runs : phase'[j] # "none" <=> run'[j] = "running"
    BY <1>0, <2>1, <2>2 DEF BulkInv
  <2>4. \A j \in Runs : phase'[j] \in Bulk => j = i
    BY <2>2 DEF Bulk
  <2>5. "notify" \in Bulk
    BY DEF Bulk
  <2>6. bulkActive' <=> \E j \in Runs : phase'[j] \in Bulk
    BY <2>1, <2>2, <2>5
  <2>7. \A j \in Runs : phase'[j] \in Bulk => (bulkDropsIndexes' <=> plan'[j].drops)
    BY <2>1, <2>2, <2>4
  <2>8. \A j \in Runs : phase'[j] = "remove" => plan'[j].removes > 0
    BY <2>2
  <2> QED BY <2>1, <2>3, <2>6, <2>7, <2>8 DEF BulkInv
<1>3. ASSUME phase[i] \in Bulk, UNCHANGED <<run, bulkActive, bulkDropsIndexes, bulkIndexing>>,
             NEW q \in Bulk, phase' = [phase EXCEPT ![i] = q],
             \A j \in Runs : j # i => plan'[j] = plan[j],
             plan'[i].drops = plan[i].drops,
             q = "remove" => plan'[i].removes > 0
      PROVE  BulkInv'
  <2>1. /\ phase'[i] = q
        /\ \A j \in Runs : j # i => phase'[j] = phase[j]
    BY <1>0, <1>3
  <2>2. \A j \in Runs : phase'[j] # "none" <=> run'[j] = "running"
    BY <1>0, <1>3, <2>1 DEF BulkInv, Bulk
  <2>3. bulkActive' <=> \E j \in Runs : phase'[j] \in Bulk
    BY <1>0, <1>3, <2>1 DEF BulkInv
  <2>4. \A j \in Runs : phase'[j] \in Bulk => (bulkDropsIndexes' <=> plan'[j].drops)
    BY <1>0, <1>3, <2>1 DEF BulkInv
  <2>5. \A j \in Runs : phase'[j] = "remove" => plan'[j].removes > 0
    BY <1>0, <1>3, <2>1 DEF BulkInv
  <2>6. bulkIndexing' <=> bulkActive' /\ bulkDropsIndexes'
    BY <1>0, <1>3 DEF BulkInv
  <2> QED BY <2>2, <2>3, <2>4, <2>5, <2>6 DEF BulkInv
<1>4. ASSUME NEW removes, phase[i] \in Bulk, Proceed(i, removes) PROVE BulkInv'
  <2>1. phase[i] # "none"
    BY <1>4 DEF Bulk
  <2>2. CASE Finish(i)
    BY <2>1, <2>2, FinishKeepsBulk
  <2>3. CASE /\ phase' = [phase EXCEPT ![i] =
                  IF More(removes) THEN "remove" ELSE IF plan[i].drops THEN "drop" ELSE "parse"]
             /\ plan' = [plan EXCEPT ![i].removes = removes]
             /\ UNCHANGED <<runnerVars, bulkFlags, shown>>
    <3>1. /\ plan'[i].drops = plan[i].drops /\ plan'[i].removes = removes
          /\ \A j \in Runs : j # i => plan'[j] = plan[j]
      BY <1>0, <2>3 DEF Plans
    <3>2. UNCHANGED <<run, bulkActive, bulkDropsIndexes, bulkIndexing>>
      BY <2>3 DEF runnerVars, bulkFlags, shown
    <3>3. PICK q \in Bulk : /\ phase' = [phase EXCEPT ![i] = q]
                            /\ q = "remove" => removes > 0
      BY <2>3 DEF Bulk, More
    <3> QED BY <1>3, <1>4, <3>1, <3>2, <3>3
  <2> QED BY <1>4, <2>2, <2>3 DEF Proceed
<1>5. CASE ProgressShows(i) \/ Removed(i)
  BY <1>4, <1>5 DEF ProgressShows, Removed, Bulk
<1>6. CASE IndexAllGoesOn(i)
  <2>1. /\ UNCHANGED <<run, plan, bulkActive, bulkDropsIndexes, bulkIndexing>>
        /\ phase[i] \in Bulk
        /\ \/ phase' = [phase EXCEPT ![i] = "parse"]
           \/ phase' = [phase EXCEPT ![i] = "rebuild"]
    BY <1>6 DEF IndexAllGoesOn, runnerVars, bulkFlags, shown, Bulk
  <2>2. "parse" \in Bulk /\ "rebuild" \in Bulk
    BY DEF Bulk
  <2> QED BY <1>3, <2>1, <2>2
<1>7. CASE TryEnds(i)
  BY <1>7, FinishKeepsBulk DEF TryEnds, IndexAllResolves, IndexAllFails
<1> QED BY <1>1, <1>2, <1>5, <1>6, <1>7 DEF DoRunIndex

LEMMA BulkKept == ASSUME HostInv, [Next]_vars PROVE BulkInv'
<1>0. /\ BulkInv /\ RunnerInv
      /\ phase \in [Runs -> Phases] /\ run \in [Runs -> RunStates]
  BY DEF HostInv, HostTypeOK, RunnerTypeOK
<1>1. ASSUME NEW i \in Runs, TakeTurn(i) PROVE BulkInv'
  <2>1. /\ run[i] = "waiting"
        /\ UNCHANGED <<plan, bulkActive, bulkDropsIndexes, bulkIndexing>>
        /\ \/ run' = [run EXCEPT ![i] = "skipped"] /\ UNCHANGED phase
           \/ /\ run' = [run EXCEPT ![i] = "running"]
              /\ phase' = [phase EXCEPT ![i] = "scan"]
    BY <1>1 DEF TakeTurn, Turn, bulkFlags, shown
  <2>2. phase[i] = "none" /\ phase[i] \notin Bulk
    BY <1>0, <2>1 DEF BulkInv, Bulk
  <2>3. \A j \in Runs : phase'[j] = phase[j] \/ (j = i /\ phase'[j] = "scan")
    BY <1>0, <2>1
  <2>4. \A j \in Runs : phase'[j] \in Bulk <=> phase[j] \in Bulk
    BY <2>2, <2>3 DEF Bulk
  <2>5. \A j \in Runs : phase'[j] # "none" <=> run'[j] = "running"
    BY <1>0, <2>1, <2>2 DEF BulkInv
  <2>6. \A j \in Runs : phase'[j] = "remove" => phase[j] = "remove"
    BY <2>3
  <2> QED BY <1>0, <2>1, <2>4, <2>5, <2>6 DEF BulkInv
<1>2. ASSUME NEW force \in BOOLEAN, RunIndex(force) PROVE BulkInv'
  <2>1. /\ gen + 1 \in Runs /\ run[gen + 1] = "none"
        /\ run' = [run EXCEPT ![gen + 1] = "waiting"]
        /\ UNCHANGED <<phase, plan, bulkActive, bulkDropsIndexes, bulkIndexing>>
    BY <1>0, <1>2, RunsAssumption
       DEF RunIndex, Request, bulkFlags, shown, RunnerInv, RunnerTypeOK, Runs
  <2>2. \A j \in Runs : phase'[j] # "none" <=> run'[j] = "running"
    BY <1>0, <2>1 DEF BulkInv
  <2> QED BY <1>0, <2>1, <2>2 DEF BulkInv
<1>3. ASSUME UNCHANGED <<run, phase, plan, bulkActive, bulkDropsIndexes>>,
             UNCHANGED bulkIndexing \/ UpdateBusyIndicator
      PROVE  BulkInv'
  BY <1>0, <1>3, FlagsRecomputed
<1>4. CASE StopIndexing
  BY <1>3, <1>4 DEF StopIndexing, runnerVars, bulkFlags
<1>5. ASSUME NEW o \in Saves, TrackIncremental(o) \/ IncrementalEnds(o) PROVE BulkInv'
  BY <1>3, <1>5 DEF TrackIncremental, IncrementalEnds, runnerVars, runVars, bulkFlags
<1>6. ASSUME NEW o \in LiveEdits, LiveEdit(o) \/ LiveEditEnds(o) PROVE BulkInv'
  BY <1>3, <1>6 DEF LiveEdit, LiveEditEnds, runnerVars, runVars, bulkFlags, shown
<1>7. ASSUME NEW r \in Readers, Navigate(r) \/ NavigationTimesOut(r) \/ NavigationQuery(r)
      PROVE  BulkInv'
  BY <1>3, <1>7 DEF Navigate, NavigationTimesOut, NavigationQuery, hostVars, runnerVars, runVars,
     bulkFlags, shown
<1>8. CASE OpenSearch \/ SearchQuery \/ CloseSearch
  BY <1>3, <1>8 DEF OpenSearch, SearchQuery, CloseSearch, runnerVars, runVars, bulkFlags, shown
<1>9. CASE UNCHANGED vars
  BY <1>3, <1>9 DEF vars, hostVars, runnerVars, runVars, bulkFlags, shown
<1> QED BY <1>1, <1>2, <1>4, <1>5, <1>6, <1>7, <1>8, <1>9, DoRunIndexKeepsBulk DEF Next, User

----------------------------------------------------------------------------
(* What is shown, and who queries.                                            *)

LEMMA DropsKept == ASSUME HostInv, [Next]_vars PROVE Drops'
<1>0. Drops /\ phase \in [Runs -> Phases] /\ plan \in [Runs -> Plans]
  BY DEF HostInv, HostTypeOK, DroppedInv
<1>1. ASSUME \A j \in Runs : phase'[j] = "drop" => phase[j] = "drop" /\ plan'[j] = plan[j]
      PROVE  Drops'
  BY <1>0, <1>1 DEF Drops
<1>2. ASSUME NEW i \in Runs, DoRunIndex(i) PROVE Drops'
  <2>1. ASSUME NEW q \in Phases \ {"drop"}, phase' = [phase EXCEPT ![i] = q],
               \A j \in Runs \ {i} : plan'[j] = plan[j]
        PROVE  Drops'
    BY <1>0, <1>1, <2>1
  <2>2. ASSUME Finish(i) PROVE Drops'
    <3>1. phase' = [phase EXCEPT ![i] = "none"] /\ \A j \in Runs \ {i} : plan'[j] = plan[j]
      BY <1>0, <2>2 DEF Finish
    <3> QED BY <2>1, <3>1 DEF Phases
  <2>3. CASE ScanEndsRun(i) \/ IndexAllGoesOn(i) \/ \E p \in Plans : ScanMakesPlan(i, p)
    <3>1. \A j \in Runs \ {i} : plan'[j] = plan[j]
      BY <1>0, <2>3 DEF ScanEndsRun, IndexAllGoesOn, ScanMakesPlan
    <3>2. PICK q \in {"none", "notify", "parse", "rebuild"} : phase' = [phase EXCEPT ![i] = q]
      BY <2>3 DEF ScanEndsRun, IndexAllGoesOn, ScanMakesPlan
    <3> QED BY <2>1, <3>1, <3>2 DEF Phases
  <2>4. CASE TryEnds(i)
    BY <2>2, <2>4 DEF TryEnds
  <2>5. ASSUME NEW removes, Proceed(i, removes) PROVE Drops'
    <3>1. CASE Finish(i)
      BY <2>2, <3>1
    <3>2. CASE ~Finish(i)
      <4>1. /\ phase' = [phase EXCEPT ![i] = IF More(removes) THEN "remove"
                                             ELSE IF plan[i].drops THEN "drop" ELSE "parse"]
            /\ plan' = [plan EXCEPT ![i].removes = removes]
        BY <2>5, <3>2 DEF Proceed
      <4>2. plan'[i].drops = plan[i].drops /\ \A j \in Runs \ {i} : plan'[j] = plan[j]
        BY <1>0, <4>1 DEF Plans
      <4>3. phase'[i] = "drop" => plan[i].drops
        BY <1>0, <4>1
      <4>4. \A j \in Runs \ {i} : phase'[j] = phase[j]
        BY <1>0, <4>1
      <4> QED BY <1>0, <4>2, <4>3, <4>4 DEF Drops
    <3> QED BY <3>1, <3>2
  <2> QED BY <1>2, <2>3, <2>4, <2>5 DEF DoRunIndex, ProgressShows, Removed
<1>3. ASSUME NEW i \in Runs, TakeTurn(i) PROVE Drops'
  <2>1. UNCHANGED plan /\ \A j \in Runs : phase'[j] = phase[j] \/ phase'[j] = "scan"
    BY <1>0, <1>3 DEF TakeTurn
  <2> QED BY <1>1, <2>1
<1>4. CASE \/ User \/ UNCHANGED vars
           \/ \E o \in Saves : IncrementalEnds(o)
           \/ \E o \in LiveEdits : LiveEditEnds(o)
           \/ \E r \in Readers : NavigationTimesOut(r) \/ NavigationQuery(r)
  <2>1. UNCHANGED <<phase, plan>>
    BY <1>4 DEF User, RunIndex, StopIndexing, TrackIncremental, LiveEdit, Navigate, OpenSearch,
       SearchQuery, CloseSearch, IncrementalEnds, LiveEditEnds, NavigationTimesOut,
       NavigationQuery, vars, hostVars, runVars
  <2> QED BY <1>1, <2>1
<1> QED BY <1>2, <1>3, <1>4 DEF Next

LEMMA DroppedKept == ASSUME HostInv, [Next]_vars PROVE DroppedInv'
<1> DEFINE Built == unindexed /\ ~lost => ToBuild
<1> SUFFICES Built'
  BY DropsKept DEF DroppedInv
<1>0. /\ Built /\ Drops /\ phase \in [Runs -> Phases] /\ plan \in [Runs -> Plans]
      /\ \A i, j \in Runs : phase[i] # "none" /\ phase[j] # "none" => i = j
  BY OneBulk DEF HostInv, HostTypeOK, DroppedInv
<1>1. ASSUME UNCHANGED tables,
             \A i \in Runs : phase[i] \in {"parse", "rebuild"} => UNCHANGED <<phase[i], plan[i]>>
      PROVE  Built'
  <2>1. CASE unindexed /\ ~lost
    <3>1. PICK i \in Runs : phase[i] \in {"parse", "rebuild"} /\ plan[i].drops
      BY <1>0, <2>1 DEF ToBuild
    <3>2. phase'[i] = phase[i] /\ plan'[i] = plan[i]
      BY <1>1, <3>1
    <3> QED BY <3>1, <3>2 DEF ToBuild
  <2>2. CASE ~(unindexed /\ ~lost)
    BY <1>1, <2>2 DEF ToBuild, tables
  <2> QED BY <2>1, <2>2
<1>2. ASSUME UNCHANGED <<tables, phase, plan>> PROVE Built'
  BY <1>1, <1>2
<1>3. ASSUME NEW i \in Runs, phase[i] \notin {"none", "parse", "rebuild"}, UNCHANGED tables
      PROVE  Built'
  <2>1. ~(unindexed /\ ~lost)
    BY <1>0, <1>3 DEF ToBuild
  <2> QED BY <1>3, <2>1 DEF ToBuild, tables
<1>4. ASSUME NEW i \in Runs, DoRunIndex(i) PROVE Built'
  <2>1. CASE \/ ScanEndsRun(i) \/ ProgressShows(i) \/ Removed(i)
             \/ \E p \in Plans : ScanMakesPlan(i, p)
    <3>1. phase[i] \notin {"none", "parse", "rebuild"} /\ UNCHANGED tables
      BY <2>1 DEF ScanEndsRun, ScanMakesPlan, ProgressShows, Removed, Proceed, reads
    <3> QED BY <1>3, <3>1
  <2>2. CASE IndexAllGoesOn(i)
    <3>1. UNCHANGED plan
      BY <2>2 DEF IndexAllGoesOn
    <3>2. CASE phase[i] = "drop" /\ phase' = [phase EXCEPT ![i] = "parse"]
      <4>1. phase'[i] = "parse" /\ plan'[i].drops
        BY <1>0, <3>1, <3>2 DEF Drops
      <4> QED BY <4>1 DEF ToBuild
    <3>3. CASE /\ phase[i] = "parse" /\ phase' = [phase EXCEPT ![i] = "rebuild"]
               /\ UNCHANGED tables
      <4>1. ASSUME unindexed, ~lost PROVE plan[i].drops
        BY <1>0, <3>3, <4>1 DEF ToBuild
      <4>2. phase'[i] = "rebuild"
        BY <1>0, <3>3
      <4> QED BY <3>1, <3>3, <4>1, <4>2 DEF ToBuild, tables
    <3> QED BY <2>2, <3>2, <3>3 DEF IndexAllGoesOn
  <2>3. CASE TryEnds(i)
    <3>1. CASE IndexAllFails(i)
      BY <3>1 DEF IndexAllFails
    <3>2. CASE IndexAllResolves(i)
      <4>1. ASSUME unindexed, ~lost PROVE plan[i].drops
        BY <1>0, <3>2, <4>1 DEF IndexAllResolves, ToBuild
      <4> QED BY <3>2, <4>1 DEF IndexAllResolves, ToBuild
    <3> QED BY <2>3, <3>1, <3>2 DEF TryEnds
  <2> QED BY <1>4, <2>1, <2>2, <2>3 DEF DoRunIndex
<1>5. ASSUME NEW i \in Runs, TakeTurn(i) PROVE Built'
  <2>1. phase[i] = "none" /\ UNCHANGED <<tables, plan>>
        /\ \A j \in Runs : j # i => phase'[j] = phase[j]
    BY <1>0, <1>5 DEF TakeTurn, Turn, HostInv, BulkInv, reads
  <2> QED BY <1>1, <2>1
<1>6. CASE User
  <2>1. UNCHANGED <<tables, phase, plan>>
    BY <1>6 DEF User, RunIndex, StopIndexing, TrackIncremental, LiveEdit, Navigate, OpenSearch,
       SearchQuery, CloseSearch, runVars, reads, hostVars
  <2> QED BY <1>2, <2>1
<1>7. CASE \/ \E o \in Saves : IncrementalEnds(o)
           \/ \E o \in LiveEdits : LiveEditEnds(o)
           \/ \E r \in Readers : NavigationTimesOut(r) \/ NavigationQuery(r)
           \/ UNCHANGED vars
  <2>1. UNCHANGED <<tables, phase, plan>>
    BY <1>7 DEF IncrementalEnds, LiveEditEnds, NavigationTimesOut, NavigationQuery, vars, hostVars,
       runVars, reads
  <2> QED BY <1>2, <2>1
<1> QED BY <1>4, <1>5, <1>6, <1>7 DEF Next

LEMMA NavigationKept == ASSUME HostInv, [Next]_vars PROVE NavigationAbstains'
<1>0. BulkInv /\ DroppedInv /\ NavigationAbstains
  BY DEF HostInv
<1>1. ASSUME UNCHANGED scans PROVE NavigationAbstains'
  BY <1>0, <1>1 DEF NavigationAbstains
<1>2. ASSUME NEW r \in Readers, NavigationQuery(r) PROVE NavigationAbstains'
  <2>1. CASE bulkIndexing
    BY <1>1, <1>2, <2>1 DEF NavigationQuery
  <2>2. CASE ~bulkIndexing
    <3>1. ~(unindexed /\ ~lost)
      BY <1>0, <2>2 DEF DroppedInv, ToBuild, BulkInv, Bulk
    <3> QED BY <1>1, <1>2, <2>2, <3>1 DEF NavigationQuery, ScannedBy
  <2> QED BY <2>1, <2>2
<1>3. CASE SearchQuery
  BY <1>0, <1>3 DEF SearchQuery, ScannedBy, NavigationAbstains
<1>4. ASSUME NEW i \in Runs, DoRunIndex(i) PROVE UNCHANGED scans
  BY <1>4 DEF DoRunIndex, ScanEndsRun, ScanMakesPlan, ProgressShows, Removed, Proceed,
     IndexAllGoesOn, TryEnds, reads
<1>5. ASSUME NEW i \in Runs, TakeTurn(i) PROVE UNCHANGED scans
  BY <1>5 DEF TakeTurn, reads
<1>6. CASE User /\ ~SearchQuery
  <2>1. UNCHANGED scans
    BY <1>6 DEF User, RunIndex, StopIndexing, TrackIncremental, LiveEdit, Navigate, OpenSearch,
       CloseSearch, reads, hostVars
  <2> QED BY <1>1, <2>1
<1>7. CASE \/ \E o \in Saves : IncrementalEnds(o)
           \/ \E o \in LiveEdits : LiveEditEnds(o)
           \/ \E r \in Readers : NavigationTimesOut(r)
           \/ UNCHANGED vars
  <2>1. UNCHANGED scans
    BY <1>7 DEF IncrementalEnds, LiveEditEnds, NavigationTimesOut, vars, hostVars, reads
  <2> QED BY <1>1, <2>1
<1> QED BY <1>1, <1>2, <1>3, <1>4, <1>5, <1>6, <1>7 DEF Next

LEMMA ShownKept == ASSUME HostInv, [Next]_vars PROVE ShownIsTrue'
<1>0. /\ ShownIsTrue /\ BulkInv
      /\ inflight \in Nat /\ incTotal \in Nat /\ incDone \in Nat
      /\ bulkActive \in BOOLEAN
  BY DEF HostInv, HostTypeOK
<1>1. ASSUME UNCHANGED <<bulkActive, inflight, incTotal, incDone, notification, status, view>>
      PROVE  ShownIsTrue'
  BY <1>0, <1>1 DEF ShownIsTrue
<1>2. ASSUME NEW i \in Runs, Finish(i) PROVE ShownIsTrue'
  <2>1. /\ bulkActive' = FALSE
        /\ UNCHANGED <<inflight, incTotal, incDone, notification>>
        /\ view'.indexing <=> bulkActive' \/ inflight' > 0
        /\ status' = IF bulkActive' \/ inflight' > 0 THEN status ELSE "idle"
    BY <1>2 DEF Finish, incVars, UpdateBusyIndicator, IdleStatus
  <2>2. status' = "idle" <=> ~bulkActive' /\ inflight' = 0
    BY <1>0, <2>1 DEF ShownIsTrue
  <2> QED BY <1>0, <2>1, <2>2 DEF ShownIsTrue
<1>3. ASSUME NEW i \in Runs, ScanEndsRun(i) PROVE ShownIsTrue'
  <2>1. /\ UNCHANGED <<bulkActive, inflight, incTotal, incDone, notification, view>>
        /\ \/ UNCHANGED status
           \/ status' = IF bulkActive \/ inflight > 0 THEN status ELSE "idle"
    BY <1>3 DEF ScanEndsRun, incVars, bulkFlags
  <2>2. status' = "idle" <=> ~bulkActive' /\ inflight' = 0
    BY <1>0, <2>1 DEF ShownIsTrue
  <2> QED BY <1>0, <2>1, <2>2 DEF ShownIsTrue
<1>4. ASSUME NEW i \in Runs, NEW p \in Plans, ScanMakesPlan(i, p) PROVE ShownIsTrue'
  <2>1. /\ bulkActive' = TRUE /\ status' = "indexing"
        /\ UNCHANGED <<inflight, incTotal, incDone, notification>>
        /\ view'.indexing <=> bulkActive' \/ inflight' > 0
    BY <1>4 DEF ScanMakesPlan, incVars, UpdateBusyIndicator
  <2> QED BY <1>0, <2>1 DEF ShownIsTrue
<1>5. ASSUME NEW o \in Saves, TrackIncremental(o) PROVE ShownIsTrue'
  <2>1. /\ UNCHANGED <<bulkActive, incDone>>
        /\ inflight' = inflight + 1 /\ incTotal' = incTotal + 1
        /\ status' = IF bulkActive THEN status ELSE "changed files"
        /\ view'.indexing <=> bulkActive' \/ inflight' > 0
    BY <1>5 DEF TrackIncremental, bulkFlags, UpdateBusyIndicator
  <2>2. inflight' > 0 /\ inflight' # 0 /\ incTotal' = incDone' + inflight'
    <3>1. inflight' = inflight + 1 /\ incTotal' = incTotal + 1 /\ incDone' = incDone
      BY <2>1
    <3>2. inflight \in Nat /\ incDone \in Nat /\ incTotal = incDone + inflight
      BY <1>0 DEF ShownIsTrue
    <3> QED BY <3>1, <3>2
  <2>3. status' # "idle"
    BY <1>0, <2>1 DEF ShownIsTrue
  <2> QED BY <2>1, <2>2, <2>3 DEF ShownIsTrue
<1>6. ASSUME NEW o \in Saves, IncrementalEnds(o) PROVE ShownIsTrue'
  <2>1. /\ UNCHANGED bulkActive
        /\ view'.indexing <=> bulkActive' \/ inflight' > 0
    BY <1>6 DEF IncrementalEnds, bulkFlags, UpdateBusyIndicator
  <2>2. CASE inflight <= 1
    <3>1. /\ incDone' = 0 /\ incTotal' = 0 /\ ~notification'
          /\ inflight' = 0 \/ (inflight # 0 /\ inflight' = inflight - 1)
          /\ status' = IF bulkActive THEN status ELSE "idle"
      BY <1>6, <2>2 DEF IncrementalEnds, BurstEnds
    <3>2. inflight' = 0 /\ ~(inflight' > 0) /\ incTotal' = incDone' + inflight'
      BY <1>0, <2>2, <3>1
    <3>3. status' = "idle" <=> ~bulkActive
      BY <1>0, <3>1 DEF ShownIsTrue
    <3> QED BY <2>1, <3>1, <3>2, <3>3 DEF ShownIsTrue
  <2>3. CASE ~(inflight <= 1)
    <3>1. /\ incDone' = incDone + 1 /\ incTotal' = incTotal
          /\ inflight = 0 \/ inflight' = inflight - 1
          /\ status' = IF bulkActive THEN status ELSE "changed files"
      BY <1>6, <2>3 DEF IncrementalEnds, BurstEnds
    <3>2. inflight' > 0 /\ inflight' # 0 /\ incTotal' = incDone' + inflight'
      <4>1. inflight \in Nat /\ incDone \in Nat /\ incTotal = incDone + inflight
        BY <1>0 DEF ShownIsTrue
      <4>2. inflight # 0
        BY <2>3
      <4>3. incDone' = incDone + 1 /\ incTotal' = incTotal
        BY <3>1
      <4>4. inflight' = inflight - 1
        BY <3>1, <4>2
      <4> QED BY <2>3, <4>1, <4>3, <4>4
    <3>3. status' # "idle"
      BY <1>0, <3>1 DEF ShownIsTrue
    <3> QED BY <2>1, <3>2, <3>3 DEF ShownIsTrue
  <2> QED BY <2>2, <2>3
<1>7. CASE StopIndexing
  <2>1. /\ bulkActive /\ status' = "stopping"
        /\ UNCHANGED <<bulkActive, inflight, incTotal, incDone, notification, view>>
    BY <1>7 DEF StopIndexing, bulkFlags, incVars
  <2> QED BY <1>0, <2>1 DEF ShownIsTrue
<1>8. ASSUME NEW i \in Runs, DoRunIndex(i) PROVE ShownIsTrue'
  <2>1. ASSUME NEW removes, Proceed(i, removes) PROVE ShownIsTrue'
    BY <1>1, <1>2, <2>1 DEF Proceed, bulkFlags, incVars, shown
  <2>2. CASE IndexAllGoesOn(i)
    BY <1>1, <2>2 DEF IndexAllGoesOn, bulkFlags, incVars, shown
  <2>3. CASE TryEnds(i)
    BY <1>2, <2>3 DEF TryEnds
  <2> QED BY <1>3, <1>4, <1>8, <2>1, <2>2, <2>3 DEF DoRunIndex, ProgressShows, Removed
<1>9. ASSUME NEW i \in Runs, TakeTurn(i) PROVE ShownIsTrue'
  BY <1>1, <1>9 DEF TakeTurn, bulkFlags, incVars, shown
<1>10. ASSUME NEW force \in BOOLEAN, RunIndex(force) PROVE ShownIsTrue'
  BY <1>1, <1>10 DEF RunIndex, bulkFlags, incVars, shown
<1>11. ASSUME NEW o \in LiveEdits, LiveEdit(o) \/ LiveEditEnds(o) PROVE ShownIsTrue'
  BY <1>1, <1>11 DEF LiveEdit, LiveEditEnds, bulkFlags, shown
<1>12. ASSUME NEW r \in Readers, Navigate(r) \/ NavigationTimesOut(r) \/ NavigationQuery(r)
       PROVE  ShownIsTrue'
  BY <1>1, <1>12 DEF Navigate, NavigationTimesOut, NavigationQuery, hostVars, bulkFlags, incVars,
     shown
<1>13. CASE OpenSearch \/ SearchQuery \/ CloseSearch
  BY <1>1, <1>13 DEF OpenSearch, SearchQuery, CloseSearch, bulkFlags, incVars, shown
<1>14. CASE UNCHANGED vars
  BY <1>1, <1>14 DEF vars, hostVars, bulkFlags, incVars, shown
<1> QED BY <1>5, <1>6, <1>7, <1>8, <1>9, <1>10, <1>11, <1>12, <1>13, <1>14 DEF Next, User

LEMMA HostInvariance == Spec => []HostInv
<1>1. HostInv /\ [Next]_vars => HostInv'
  <2> SUFFICES ASSUME HostInv, [Next]_vars PROVE HostInv'
    OBVIOUS
  <2>1. RunnerInv
    BY DEF HostInv
  <2> QED BY <2>1, RunnerInvKept, TypesKept, BulkKept, DroppedKept, NavigationKept, ShownKept
         DEF HostInv
<1> QED BY <1>1, HostInvInit, PTL DEF Spec

\* Go to Definition and Find References never query tables whose name indexes a
\* run has dropped and is to build: the shared flags always speak of the run in
\* progress, and a from-scratch run that does not fail leaves indexed tables.
THEOREM NavigationAlwaysAbstains == Spec => []NavigationAbstains
<1>1. HostInv => NavigationAbstains
  BY DEF HostInv
<1> QED BY <1>1, HostInvariance, PTL

\* The status bar, the view's header, the counts and the notification agree with
\* what is in flight in every interleaving of bulk and incremental work.
THEOREM ShownIsAlwaysTrue == Spec => []ShownIsTrue
<1>1. HostInv => ShownIsTrue
  BY DEF HostInv
<1> QED BY <1>1, HostInvariance, PTL

\* Every variable of the host keeps its type.
THEOREM HostTypeCorrect == Spec => []HostTypeOK
<1>1. HostInv => HostTypeOK
  BY DEF HostInv
<1> QED BY <1>1, HostInvariance, PTL

\* Within the host, too, the runner runs one request at a time, each the latest.
THEOREM HostRunsLatestOnly == Spec => RunsLatestOnly
<1>1. Init => RunnerInit
  BY DEF Init
<1>2. Spec => RunnerSpec
  BY <1>1, HostStepsRunner, PTL DEF Spec, RunnerSpec
<1> QED BY <1>2, RunnerKeepsPromise, PTL

----------------------------------------------------------------------------
(* The gate counts, and a stop stays with its run. Every path of doRunIndex    *)
(* that begins at the gate ends there once, and there is one run in its bulk   *)
(* part, so that the stop it bails out on is its own.                          *)

BulkRuns == {i \in Runs : phase[i] \in Bulk}
BusyOps == {o \in IncOps : op[o] = "busy"}

\* A stop on record is that of the run in progress.
StopInv ==
    /\ \A i \in Runs : phase[i] = "scan" => ~stopRequested
    /\ \A i \in Runs : phase[i] \in Bulk /\ stopRequested => stopped
    /\ ~strayStop

----------------------------------------------------------------------------
(* Counting.                                                                  *)

LEMMA Counted ==
  /\ IsFiniteSet(BulkRuns) /\ Cardinality(BulkRuns) \in Nat
  /\ IsFiniteSet(BusyOps) /\ Cardinality(BusyOps) \in Nat
<1>1. IsFiniteSet(Runs)
  BY FS_Interval, RunsAssumption DEF Runs
<1>2. IsFiniteSet(IncOps)
  BY FS_Union, HostAssumption DEF IncOps
<1>3. BulkRuns \in SUBSET Runs /\ BusyOps \in SUBSET IncOps
  BY DEF BulkRuns, BusyOps
<1>4. IsFiniteSet(BulkRuns) /\ IsFiniteSet(BusyOps)
  BY <1>1, <1>2, <1>3, FS_Subset
<1> QED BY <1>4, FS_CardinalityType

\* Something begins: at the gate and among what is in flight.
LEMMA GateBegun ==
  ASSUME HostTypeOK, GateExact, Begin,
         \/ /\ \E i : i \notin BulkRuns /\ BulkRuns' = BulkRuns \cup {i}
            /\ BusyOps' = BusyOps
         \/ /\ \E o : o \notin BusyOps /\ BusyOps' = BusyOps \cup {o}
            /\ BulkRuns' = BulkRuns
  PROVE  GateExact'
<1>1. Cardinality(BulkRuns') + Cardinality(BusyOps') =
      Cardinality(BulkRuns) + Cardinality(BusyOps) + 1
  <2>1. ASSUME NEW S, NEW x, IsFiniteSet(S), x \notin S
        PROVE  Cardinality(S \cup {x}) = Cardinality(S) + 1
    BY <2>1, FS_AddElement
  <2>2. CASE \E i : i \notin BulkRuns /\ BulkRuns' = BulkRuns \cup {i}
    <3>1. Cardinality(BulkRuns') = Cardinality(BulkRuns) + 1 /\ BusyOps' = BusyOps
      BY <2>1, <2>2, Counted
    <3> QED BY <3>1, Counted
  <2>3. CASE \E o : o \notin BusyOps /\ BusyOps' = BusyOps \cup {o}
    <3>1. Cardinality(BusyOps') = Cardinality(BusyOps) + 1 /\ BulkRuns' = BulkRuns
      BY <2>1, <2>3, Counted
    <3> QED BY <3>1, Counted
  <2> QED BY <2>2, <2>3
<1>2. active' = active + 1 /\ active = Cardinality(BulkRuns) + Cardinality(BusyOps)
  BY DEF Begin, GateExact, BulkRuns, BusyOps
<1>3. active' = Cardinality(BulkRuns') + Cardinality(BusyOps') /\ active' # 0
  BY <1>1, <1>2, Counted
<1> QED BY <1>3 DEF GateExact, BulkRuns, BusyOps

\* Something ends: the last one opens the gate.
LEMMA GateEnded ==
  ASSUME HostTypeOK, GateExact, End,
         \/ /\ \E i : i \in BulkRuns /\ BulkRuns' = BulkRuns \ {i}
            /\ BusyOps' = BusyOps
         \/ /\ \E o : o \in BusyOps /\ BusyOps' = BusyOps \ {o}
            /\ BulkRuns' = BulkRuns
  PROVE  GateExact'
<1>1. Cardinality(BulkRuns') + Cardinality(BusyOps') =
      Cardinality(BulkRuns) + Cardinality(BusyOps) - 1
  <2>1. ASSUME NEW S, NEW x, IsFiniteSet(S), x \in S
        PROVE  Cardinality(S \ {x}) = Cardinality(S) - 1
    BY <2>1, FS_RemoveElement
  <2>2. CASE \E i : i \in BulkRuns /\ BulkRuns' = BulkRuns \ {i}
    <3>1. Cardinality(BulkRuns') = Cardinality(BulkRuns) - 1 /\ BusyOps' = BusyOps
      BY <2>1, <2>2, Counted
    <3> QED BY <3>1, Counted
  <2>3. CASE \E o : o \in BusyOps /\ BusyOps' = BusyOps \ {o}
    <3>1. Cardinality(BusyOps') = Cardinality(BusyOps) - 1 /\ BulkRuns' = BulkRuns
      BY <2>1, <2>3, Counted
    <3> QED BY <3>1, Counted
  <2> QED BY <2>2, <2>3
<1>2. active = Cardinality(BulkRuns) + Cardinality(BusyOps)
  BY DEF GateExact, BulkRuns, BusyOps
<1>3. active # 0
  <2>1. BulkRuns # {} \/ BusyOps # {}
    OBVIOUS
  <2>2. Cardinality(BulkRuns) # 0 \/ Cardinality(BusyOps) # 0
    BY <2>1, Counted, FS_EmptySet
  <2> QED BY <1>2, <2>2, Counted
<1>4. active' = active - 1
  BY <1>3 DEF End
<1>5. active' = Cardinality(BulkRuns') + Cardinality(BusyOps')
  BY <1>1, <1>2, <1>4, Counted
<1>6. active' = 0 => \A r \in Readers : reader'[r] # "waiting"
  <2>1. active' = 0 => Opens
    BY <1>2, <1>4, Counted DEF Opens
  <2> QED BY <2>1 DEF End, HostTypeOK, GateTypeOK
<1> QED BY <1>5, <1>6 DEF GateExact, BulkRuns, BusyOps

----------------------------------------------------------------------------
(* The gate.                                                                  *)

LEMMA GateKept == HostInv /\ GateExact /\ [Next]_vars => GateExact'
<1> SUFFICES ASSUME HostInv, GateExact, [Next]_vars PROVE GateExact'
  OBVIOUS
<1>t. HostTypeOK /\ phase \in [Runs -> Phases] /\ op \in [IncOps -> {"new", "busy", "settled"}]
  BY DEF HostInv, HostTypeOK
<1>u. ASSUME UNCHANGED <<BulkRuns, BusyOps, gateVars>> PROVE GateExact'
  BY <1>u DEF GateExact, BulkRuns, BusyOps, gateVars
<1>o. ASSUME UNCHANGED op PROVE UNCHANGED BusyOps
  BY <1>o DEF BusyOps
<1>p. ASSUME UNCHANGED phase PROVE UNCHANGED BulkRuns
  BY <1>p DEF BulkRuns
<1>1. ASSUME NEW i \in Runs, Finish(i), phase[i] \in Bulk PROVE GateExact'
  <2>1. i \in BulkRuns /\ BulkRuns' = BulkRuns \ {i}
    BY <1>1, <1>t DEF Finish, BulkRuns, Bulk
  <2>2. BusyOps' = BusyOps
    BY <1>1, <1>o DEF Finish, incVars
  <2> QED BY <1>1, <1>t, <2>1, <2>2, GateEnded DEF Finish
<1>2. ASSUME NEW i \in Runs, NEW removes, Proceed(i, removes), phase[i] \in Bulk PROVE GateExact'
  <2>1. CASE Finish(i)
    BY <1>1, <1>2, <2>1
  <2>2. CASE ~Finish(i)
    <3>1. UNCHANGED <<gateVars, op>> /\ BulkRuns' = BulkRuns
      BY <1>2, <1>t, <2>2 DEF Proceed, incVars, BulkRuns, Bulk
    <3> QED BY <1>o, <1>u, <3>1
  <2> QED BY <2>1, <2>2
<1>3. ASSUME NEW i \in Runs, ScanEndsRun(i) PROVE GateExact'
  <2>1. UNCHANGED <<gateVars, op>> /\ BulkRuns' = BulkRuns
    BY <1>3, <1>t DEF ScanEndsRun, incVars, BulkRuns, Bulk
  <2> QED BY <1>o, <1>u, <2>1
<1>4. ASSUME NEW i \in Runs, NEW p \in Plans, ScanMakesPlan(i, p) PROVE GateExact'
  <2>1. i \notin BulkRuns /\ BulkRuns' = BulkRuns \cup {i}
    BY <1>4, <1>t DEF ScanMakesPlan, BulkRuns, Bulk
  <2>2. BusyOps' = BusyOps
    BY <1>4, <1>o DEF ScanMakesPlan, incVars
  <2> QED BY <1>4, <1>t, <2>1, <2>2, GateBegun DEF ScanMakesPlan
<1>5. ASSUME NEW i \in Runs, IndexAllGoesOn(i) PROVE GateExact'
  <2>1. UNCHANGED <<gateVars, op>> /\ BulkRuns' = BulkRuns
    BY <1>5, <1>t DEF IndexAllGoesOn, incVars, BulkRuns, Bulk
  <2> QED BY <1>o, <1>u, <2>1
<1>6. ASSUME NEW i \in Runs, DoRunIndex(i) PROVE GateExact'
  BY <1>1, <1>2, <1>3, <1>4, <1>5, <1>6
     DEF DoRunIndex, ProgressShows, Removed, TryEnds, IndexAllResolves, IndexAllFails, Bulk
<1>7. ASSUME NEW i \in Runs, TakeTurn(i) PROVE GateExact'
  <2>1. run[i] = "waiting" /\ phase[i] \notin Bulk
    BY <1>7 DEF TakeTurn, Turn, HostInv, BulkInv, Bulk
  <2>2. UNCHANGED <<gateVars, op>> /\ BulkRuns' = BulkRuns
    BY <1>7, <1>t, <2>1 DEF TakeTurn, incVars, BulkRuns, Bulk
  <2> QED BY <1>o, <1>u, <2>2
<1>8. ASSUME NEW o \in IncOps, op[o] = "new", op' = [op EXCEPT ![o] = "busy"], Begin,
             UNCHANGED phase
      PROVE  GateExact'
  <2>1. o \notin BusyOps /\ BusyOps' = BusyOps \cup {o}
    BY <1>8, <1>t DEF BusyOps
  <2> QED BY <1>8, <1>p, <1>t, <2>1, GateBegun
<1>9. ASSUME NEW o \in IncOps, op[o] = "busy", op' = [op EXCEPT ![o] = "settled"], End,
             UNCHANGED phase
      PROVE  GateExact'
  <2>1. o \in BusyOps /\ BusyOps' = BusyOps \ {o}
    BY <1>9, <1>t DEF BusyOps
  <2> QED BY <1>9, <1>p, <1>t, <2>1, GateEnded
<1>10. ASSUME NEW o \in Saves, TrackIncremental(o) \/ IncrementalEnds(o) PROVE GateExact'
  BY <1>8, <1>9, <1>10 DEF TrackIncremental, IncrementalEnds, IncOps, runVars
<1>11. ASSUME NEW o \in LiveEdits, LiveEdit(o) \/ LiveEditEnds(o) PROVE GateExact'
  BY <1>8, <1>9, <1>11 DEF LiveEdit, LiveEditEnds, IncOps, runVars
<1>12. ASSUME NEW r \in Readers, Navigate(r) \/ NavigationTimesOut(r) \/ NavigationQuery(r)
       PROVE  GateExact'
  <2>1. UNCHANGED <<active, phase, op>>
    BY <1>12 DEF Navigate, WhenIdle, NavigationTimesOut, TimesOut, NavigationQuery,
       hostVars, runVars, incVars
  <2>2. reader \in [Readers -> {"idle", "waiting", "go"}]
    BY <1>t DEF HostTypeOK, GateTypeOK
  <2>3. \A q \in Readers \ {r} : reader'[q] = reader[q]
    BY <1>12, <2>2 DEF Navigate, WhenIdle, NavigationTimesOut, TimesOut, NavigationQuery
  <2>4. active = 0 => reader'[r] # "waiting"
    BY <1>12, <2>2 DEF Navigate, WhenIdle, NavigationTimesOut, TimesOut, NavigationQuery
  <2> QED BY <2>1, <2>3, <2>4 DEF GateExact
<1>13. ASSUME NEW force \in BOOLEAN, RunIndex(force) PROVE GateExact'
  BY <1>o, <1>p, <1>u, <1>13 DEF RunIndex, incVars
<1>14. CASE StopIndexing \/ OpenSearch \/ SearchQuery \/ CloseSearch \/ UNCHANGED vars
  BY <1>o, <1>p, <1>u, <1>14
     DEF StopIndexing, OpenSearch, SearchQuery, CloseSearch, vars, hostVars, runVars, incVars
<1> QED BY <1>6, <1>7, <1>10, <1>11, <1>12, <1>13, <1>14 DEF Next, User

----------------------------------------------------------------------------
(* Stops.                                                                     *)

LEMMA StopKept == HostInv /\ StopInv /\ [Next]_vars => StopInv'
<1> SUFFICES ASSUME HostInv, StopInv, [Next]_vars PROVE StopInv'
  OBVIOUS
<1>t. phase \in [Runs -> Phases]
  BY DEF HostInv, HostTypeOK
<1>one. \A i, j \in Runs : phase[i] # "none" /\ phase[j] # "none" => i = j
  BY OneBulk
<1>u. ASSUME UNCHANGED <<phase, stopRequested, stopped, strayStop>> PROVE StopInv'
  BY <1>u DEF StopInv
<1>1. ASSUME NEW i \in Runs, Finish(i), phase[i] \in Bulk, ~strayStop' PROVE StopInv'
  <2>1. \A j \in Runs : phase'[j] = "none"
    BY <1>1, <1>t, <1>one DEF Finish, Bulk
  <2> QED BY <1>1, <2>1 DEF StopInv, Bulk
<1>2. ASSUME NEW i \in Runs, NEW removes, Proceed(i, removes), phase[i] \in Bulk PROVE StopInv'
  <2>1. ~strayStop'
    BY <1>2 DEF Proceed, StopInv
  <2>2. CASE Finish(i)
    BY <1>1, <1>2, <2>1, <2>2
  <2>3. CASE ~Finish(i)
    <3>1. ~stopRequested /\ UNCHANGED stopRequested
      BY <1>2, <2>3 DEF Proceed
    <3> QED BY <2>1, <3>1 DEF StopInv
  <2> QED BY <2>2, <2>3
<1>3. ASSUME NEW i \in Runs, DoRunIndex(i) PROVE StopInv'
  <2>1. CASE ScanEndsRun(i)
    BY <1>t, <2>1 DEF ScanEndsRun, StopInv, Bulk
  <2>2. ASSUME NEW p \in Plans, ScanMakesPlan(i, p) PROVE StopInv'
    BY <2>2 DEF ScanMakesPlan, StopInv
  <2>3. CASE IndexAllGoesOn(i)
    BY <1>t, <2>3 DEF IndexAllGoesOn, StopInv, Bulk
  <2>4. CASE TryEnds(i)
    BY <1>1, <2>4 DEF TryEnds, IndexAllResolves, IndexAllFails, StopInv, Bulk
  <2>5. CASE ProgressShows(i) \/ Removed(i)
    BY <1>2, <2>5 DEF ProgressShows, Removed, Bulk
  <2> QED BY <1>3, <2>1, <2>2, <2>3, <2>4, <2>5 DEF DoRunIndex
<1>4. ASSUME NEW i \in Runs, TakeTurn(i) PROVE StopInv'
  BY <1>4, <1>u DEF TakeTurn, FreshStop, StopInv
<1>5. CASE StopIndexing
  <2>1. PICK i \in Runs : phase[i] \in Bulk
    BY <1>5 DEF StopIndexing, HostInv, BulkInv
  <2>2. \A j \in Runs : phase[j] # "scan"
    BY <1>one, <2>1 DEF Bulk
  <2> QED BY <1>5, <2>2 DEF StopIndexing, StopInv
<1>6. ASSUME NEW force \in BOOLEAN, RunIndex(force) PROVE StopInv'
  BY <1>6, <1>u DEF RunIndex
<1>7. ASSUME NEW o \in IncOps, \/ TrackIncremental(o) \/ IncrementalEnds(o)
                               \/ LiveEdit(o) \/ LiveEditEnds(o)
      PROVE  StopInv'
  BY <1>7, <1>u DEF TrackIncremental, IncrementalEnds, LiveEdit, LiveEditEnds, runVars
<1>8. ASSUME NEW r \in Readers, Navigate(r) \/ NavigationTimesOut(r) \/ NavigationQuery(r)
      PROVE  StopInv'
  BY <1>8, <1>u DEF Navigate, NavigationTimesOut, NavigationQuery, hostVars, runVars
<1>9. CASE OpenSearch \/ SearchQuery \/ CloseSearch \/ UNCHANGED vars
  BY <1>9, <1>u DEF OpenSearch, SearchQuery, CloseSearch, vars, hostVars, runVars
<1> QED BY <1>3, <1>4, <1>5, <1>6, <1>7, <1>8, <1>9 DEF Next, User, IncOps

----------------------------------------------------------------------------
(* The theorems.                                                              *)

\* The gate counts exactly the operations in flight, and nobody waits at an open
\* gate: every path of doRunIndex, trackIncremental and liveReindex that begins
\* ends once.
THEOREM GateCountsExactly == Spec => []GateExact
<1>1. Init => GateExact
  <2> SUFFICES ASSUME Init PROVE GateExact
    OBVIOUS
  <2>1. BulkRuns = {} /\ BusyOps = {}
    BY DEF Init, BulkRuns, BusyOps, Bulk
  <2>2. Cardinality(BulkRuns) = 0 /\ Cardinality(BusyOps) = 0
    BY <2>1, FS_EmptySet
  <2> QED BY <2>2 DEF Init, GateInit, GateExact, BulkRuns, BusyOps
<1> QED BY <1>1, GateKept, HostInvariance, PTL DEF Spec

\* A run cuts its plan short only if the user stopped that very run (stopIndexing,
\* doRunIndex).
THEOREM StopsAreOwn == Spec => []NoInheritedStop
<1>1. Init => StopInv
  BY DEF Init, StopInv, Bulk
<1>2. StopInv => NoInheritedStop
  BY DEF StopInv, NoInheritedStop
<1> QED BY <1>1, <1>2, StopKept, HostInvariance, PTL DEF Spec
=============================================================================
