---------------------------- MODULE IndexingHost ----------------------------
(* The extension host's side of indexing: src/extension.ts with core/host.ts,  *)
(* over the runner and the gate. All of it is one thread: an action runs up to *)
(* the next await. The pool's calls are seen from here as awaits that settle   *)
(* (WorkerPool models what happens meanwhile).                                 *)
(*                                                                             *)
(* phase[i] is the await at which doRunIndex of request i is suspended:        *)
(*   "scan"    findFiles;                                                      *)
(*   "notify"  withProgress, before its callback runs;                         *)
(*   "remove"  pool.remove of a stale file;                                    *)
(*   "drop", "parse", "rebuild"  pool.indexAll, while the writer drops the     *)
(*             name indexes, the parsers work, the writer flushes and rebuilds.*)
EXTENDS SerialIndexRunner, IndexGate, FiniteSets

CONSTANTS
    Saves,          \* operations of the file watcher: pool.reindex, pool.remove
    LiveEdits,      \* debounced live edits: pool.reindexContent
    MaxRemoves      \* bound: stale files one run removes
ASSUME HostAssumption ==
    /\ IsFiniteSet(Saves) /\ IsFiniteSet(LiveEdits)
    /\ Saves \cap LiveEdits = {}
    /\ MaxRemoves \in Nat

VARIABLES
    phase,              \* see above; "none" when doRunIndex i does not run
    forceAll,           \* forceAll[i]: a Rescan whose plan is not made yet
    plan,               \* plan[i]: what is left of the plan of run i
    bulkActive, bulkDropsIndexes, stopRequested,        \* extension.ts
    bulkIndexing,       \* host.bulkIndexing
    canceled,           \* a cancel reached the parsers during this "parse"
    op,                 \* op[o]: an incremental operation is "new", "busy", "settled"
    inflight, incTotal, incDone,                        \* extension.ts
    notification,       \* incResolve is set: the incremental notification shows
    status,             \* what the status bar says
    view,               \* what RelationsProvider.setIndexing was last told
    picker,             \* F10's quick pick is open
    unindexed,          \* the tables lack name indexes: a query by name scans them whole
    lost,               \* history: no run that dropped them is left to build them
    scans,              \* who queried tables a run had dropped the indexes of
    stopped,            \* history: the user stopped the bulk run in progress
    strayStop           \* history: a run bailed out that the user had not stopped

runVars == <<phase, forceAll, plan, stopRequested, canceled, stopped, strayStop>>
bulkFlags == <<bulkActive, bulkDropsIndexes>>
incVars == <<op, inflight, incTotal, incDone, notification>>
shown == <<bulkIndexing, status, view>>
tables == <<unindexed, lost>>
reads == <<picker, scans, tables>>
hostVars == <<runVars, bulkFlags, incVars, shown, reads>>
vars == <<runnerVars, gateVars, hostVars>>

IncOps == Saves \cup LiveEdits
Phases == {"none", "scan", "notify", "remove", "drop", "parse", "rebuild"}
Bulk == {"notify", "remove", "drop", "parse", "rebuild"}
Plans == [removes : 0..MaxRemoves, indexes : BOOLEAN, drops : BOOLEAN]
NoPlan == [removes |-> 0, indexes |-> FALSE, drops |-> FALSE]

HostTypeOK ==
    /\ RunnerTypeOK /\ GateTypeOK
    /\ phase \in [Runs -> Phases]
    /\ forceAll \in [Runs -> BOOLEAN]
    /\ plan \in [Runs -> Plans]
    /\ bulkActive \in BOOLEAN /\ bulkDropsIndexes \in BOOLEAN
    /\ stopRequested \in BOOLEAN /\ bulkIndexing \in BOOLEAN /\ canceled \in BOOLEAN
    /\ op \in [IncOps -> {"new", "busy", "settled"}]
    /\ inflight \in Nat /\ incTotal \in Nat /\ incDone \in Nat
    /\ notification \in BOOLEAN /\ picker \in BOOLEAN
    /\ status \in {"idle", "indexing", "changed files", "stopping"}
    /\ view \in [indexing : BOOLEAN, suspended : BOOLEAN]
    /\ unindexed \in BOOLEAN /\ lost \in BOOLEAN
    /\ scans \in SUBSET {"navigation", "search"}
    /\ stopped \in BOOLEAN /\ strayStop \in BOOLEAN

\* activate, up to the first run it asks for (StartUp). The schema makes no name
\* index, and the last session may have ended in the middle of a bulk run.
Init ==
    /\ RunnerInit /\ GateInit
    /\ phase = [i \in Runs |-> "none"]
    /\ forceAll = [i \in Runs |-> FALSE]
    /\ plan = [i \in Runs |-> NoPlan]
    /\ bulkActive = FALSE /\ bulkDropsIndexes = FALSE
    /\ stopRequested = FALSE /\ bulkIndexing = FALSE /\ canceled = FALSE
    /\ op = [o \in IncOps |-> "new"]
    /\ inflight = 0 /\ incTotal = 0 /\ incDone = 0
    /\ notification = FALSE /\ picker = FALSE
    /\ status = "idle"
    /\ view = [indexing |-> FALSE, suspended |-> FALSE]
    /\ unindexed \in BOOLEAN /\ lost = unindexed
    /\ scans = {} /\ stopped = FALSE /\ strayStop = FALSE

\* updateBusyIndicator, on the values of this very step.
UpdateBusyIndicator ==
    /\ bulkIndexing' = (bulkActive' /\ bulkDropsIndexes')
    /\ view' = [indexing |-> bulkActive' \/ inflight' > 0,
                suspended |-> bulkActive' /\ bulkDropsIndexes']

\* showIdleStatus.
IdleStatus == IF bulkActive' \/ inflight' > 0 THEN status ELSE "idle"

----------------------------------------------------------------------------
(* Bulk runs.                                                                 *)

\* pool.cancel. A parser clears the flag when its indexAll starts, so only a
\* cancel that comes during "parse" has an effect.
PoolCancel == canceled' = (canceled \/ \E i \in Runs : phase[i] = "parse")

\* runIndex: at start-up, on Rescan (force), or when include or exclude changed.
RunIndex(force) ==
    /\ Request
    /\ forceAll' = [forceAll EXCEPT ![gen + 1] = force]
    /\ PoolCancel
    /\ UNCHANGED <<gateVars, phase, plan, stopRequested, stopped, strayStop,
                   bulkFlags, incVars, shown, reads>>

\* A request takes its turn; doRunIndex runs up to findFiles. The mutant keeps
\* the flag of an earlier stop.
FreshStop_Kept == stopRequested
FreshStop == FALSE
TakeTurn(i) ==
    /\ Turn(i)
    /\ IF Superseded(i)
       THEN UNCHANGED <<phase, stopRequested>>
       ELSE /\ phase' = [phase EXCEPT ![i] = "scan"]
            /\ stopRequested' = FreshStop
    /\ UNCHANGED <<gateVars, forceAll, plan, canceled, stopped, strayStop,
                   bulkFlags, incVars, shown, reads>>

\* findFiles rejected, or there is nothing to index and nothing to remove.
ScanEndsRun(i) ==
    /\ phase[i] = "scan"
    /\ phase' = [phase EXCEPT ![i] = "none"]
    /\ forceAll' = [forceAll EXCEPT ![i] = FALSE]
    /\ \/ TaskSettles(i, "failed") /\ UNCHANGED status
       \/ TaskSettles(i, "done") /\ status' = IF bulkActive \/ inflight > 0 THEN status ELSE "idle"
    /\ UNCHANGED <<gateVars, plan, stopRequested, canceled, stopped, strayStop,
                   bulkFlags, incVars, bulkIndexing, view, reads>>

\* The plan is made and has something to do. A from-scratch build (a Rescan, or
\* an empty table, which has nothing to remove) drops the name indexes.
ScanMakesPlan(i, p) ==
    /\ phase[i] = "scan"
    /\ p.indexes \/ p.removes > 0
    /\ forceAll[i] => p.drops
    /\ p.drops /\ ~forceAll[i] => p.removes = 0
    /\ phase' = [phase EXCEPT ![i] = "notify"]
    /\ plan' = [plan EXCEPT ![i] = p]
    /\ bulkActive' = TRUE
    /\ bulkDropsIndexes' = p.drops
    /\ Begin
    /\ status' = "indexing"
    /\ forceAll' = [forceAll EXCEPT ![i] = FALSE]
    /\ UNCHANGED <<runnerVars, stopRequested, canceled, stopped, strayStop,
                   incVars, reads>>
    /\ UpdateBusyIndicator

\* The finally block of doRunIndex, which settles the run.
Finish(i) ==
    /\ TaskSettles(i, "done")
    /\ phase' = [phase EXCEPT ![i] = "none"]
    /\ bulkActive' = FALSE
    /\ bulkDropsIndexes' = FALSE
    /\ End
    /\ plan' = [plan EXCEPT ![i] = NoPlan]
    /\ canceled' = FALSE /\ stopped' = FALSE
    /\ UNCHANGED incVars
    /\ UpdateBusyIndicator
    /\ status' = IdleStatus

\* The loop has one more file to remove. The mutant goes one too far.
More_OneTooMany(removes) == removes >= 0
More(removes) == removes > 0

\* The loop over the stale files, from its head; then indexAll.
Proceed(i, removes) ==
    /\ UNCHANGED <<forceAll, stopRequested, reads>>
    /\ \/ /\ stopRequested
          /\ strayStop' = (strayStop \/ ~stopped)
          /\ Finish(i)
       \/ /\ ~stopRequested /\ ~More(removes) /\ ~plan[i].indexes
          /\ UNCHANGED strayStop
          /\ Finish(i)
       \/ /\ ~stopRequested
          /\ More(removes) \/ plan[i].indexes
          /\ phase' = [phase EXCEPT ![i] =
                IF More(removes) THEN "remove" ELSE IF plan[i].drops THEN "drop" ELSE "parse"]
          /\ plan' = [plan EXCEPT ![i].removes = removes]
          /\ UNCHANGED <<runnerVars, gateVars, canceled, stopped, strayStop, bulkFlags, incVars,
                         shown>>

ProgressShows(i) == phase[i] = "notify" /\ Proceed(i, plan[i].removes)
Removed(i) == phase[i] = "remove" /\ Proceed(i, plan[i].removes - 1)

\* indexAll goes on when the writer dropped the indexes, or failed to (which is
\* swallowed), and when the parsers are done. This run is to build the indexes.
IndexAllGoesOn(i) ==
    /\ \/ /\ phase[i] = "drop"
          /\ phase' = [phase EXCEPT ![i] = "parse"]
          /\ unindexed' \in {unindexed, TRUE}
          /\ lost' = FALSE
       \/ /\ phase[i] = "parse"
          /\ phase' = [phase EXCEPT ![i] = "rebuild"]
          /\ UNCHANGED tables
    /\ canceled' = FALSE
    /\ UNCHANGED <<runnerVars, gateVars, forceAll, plan, stopRequested, stopped, strayStop,
                   bulkFlags, incVars, shown, picker, scans>>

\* indexAll resolves: a from-scratch run has built the name indexes, a run on
\* live indexes leaves the tables as it found them.
IndexAllResolves(i) ==
    /\ phase[i] = "rebuild"
    /\ unindexed' = (unindexed /\ ~plan[i].drops)
    /\ UNCHANGED lost

\* An await of the try block rejects (a removal, the parse, the last flush), or
\* createIndexes fails, which is swallowed: dropped indexes stay dropped.
IndexAllFails(i) ==
    /\ phase[i] \in {"remove", "parse", "rebuild"}
    /\ lost' = (lost \/ unindexed)
    /\ UNCHANGED unindexed

TryEnds(i) ==
    /\ IndexAllResolves(i) \/ IndexAllFails(i)
    /\ Finish(i)
    /\ UNCHANGED <<forceAll, stopRequested, strayStop, picker, scans>>

\* stopIndexing.
StopIndexing ==
    /\ bulkActive
    /\ stopRequested' = TRUE
    /\ PoolCancel
    /\ status' = "stopping"
    /\ stopped' = TRUE
    /\ UNCHANGED <<runnerVars, gateVars, phase, forceAll, plan, strayStop,
                   bulkFlags, incVars, bulkIndexing, view, reads>>

----------------------------------------------------------------------------
(* Incremental operations.                                                    *)

\* trackIncremental, up to its return.
TrackIncremental(o) ==
    /\ op[o] = "new"
    /\ op' = [op EXCEPT ![o] = "busy"]
    /\ Begin
    /\ inflight' = inflight + 1
    /\ incTotal' = incTotal + 1
    /\ notification' = (notification \/ ~bulkActive)
    /\ status' = IF bulkActive THEN status ELSE "changed files"
    /\ UNCHANGED <<runnerVars, runVars, bulkFlags, incDone, reads>>
    /\ UpdateBusyIndicator

\* Its finally block, whether the operation succeeded or not. The mutant leaves
\* the burst open during a bulk run.
BurstEnds_OutsideBulk == inflight <= 1 /\ ~bulkActive
BurstEnds == inflight <= 1

IncrementalEnds(o) ==
    /\ op[o] = "busy"
    /\ op' = [op EXCEPT ![o] = "settled"]
    /\ inflight' = IF inflight = 0 THEN 0 ELSE inflight - 1
    /\ incDone' = IF BurstEnds THEN 0 ELSE incDone + 1
    /\ incTotal' = IF BurstEnds THEN 0 ELSE incTotal
    /\ notification' = (notification /\ ~BurstEnds)
    /\ End
    /\ status' = IF bulkActive THEN status ELSE IF BurstEnds THEN "idle" ELSE "changed files"
    /\ UNCHANGED <<runnerVars, runVars, bulkFlags, reads>>
    /\ UpdateBusyIndicator

\* liveReindex: through the gate only.
LiveEdit(o) ==
    /\ op[o] = "new"
    /\ op' = [op EXCEPT ![o] = "busy"]
    /\ Begin
    /\ UNCHANGED <<runnerVars, runVars, bulkFlags, inflight, incTotal, incDone, notification,
                   shown, reads>>

LiveEditEnds(o) ==
    /\ op[o] = "busy"
    /\ op' = [op EXCEPT ![o] = "settled"]
    /\ End
    /\ UNCHANGED <<runnerVars, runVars, bulkFlags, inflight, incTotal, incDone, notification,
                   shown, reads>>

----------------------------------------------------------------------------
(* Queries of the host's own connection.                                      *)

\* A query by name scans the tables of a run that dropped their indexes and has
\* not built them yet.
ScannedBy(who) == scans' = IF unindexed /\ ~lost THEN scans \cup {who} ELSE scans

\* F12, definition and reference providers: awaitFreshIndex, then the query on
\* what getDb returns then.
Navigate(r) ==
    /\ \E timeout \in {0, 1} : WhenIdle(r, timeout)
    /\ UNCHANGED <<runnerVars, hostVars>>
NavigationTimesOut(r) ==
    /\ TimesOut(r)
    /\ UNCHANGED <<runnerVars, hostVars>>
NavigationQuery(r) ==
    /\ reader[r] = "go"
    /\ reader' = [reader EXCEPT ![r] = "idle"]
    /\ IF bulkIndexing THEN UNCHANGED scans ELSE ScannedBy("navigation")
    /\ UNCHANGED <<runnerVars, active, runVars, bulkFlags, incVars, shown, picker, tables>>

\* F10: the quick pick keeps the connection it got when it opened.
OpenSearch ==
    /\ ~picker /\ ~bulkIndexing
    /\ picker' = TRUE
    /\ UNCHANGED <<runnerVars, gateVars, runVars, bulkFlags, incVars, shown, scans, tables>>
SearchQuery ==
    /\ picker
    /\ ScannedBy("search")
    /\ UNCHANGED <<runnerVars, gateVars, runVars, bulkFlags, incVars, shown, picker, tables>>
CloseSearch ==
    /\ picker
    /\ picker' = FALSE
    /\ UNCHANGED <<runnerVars, gateVars, runVars, bulkFlags, incVars, shown, scans, tables>>

----------------------------------------------------------------------------

DoRunIndex(i) ==
    \/ ScanEndsRun(i)
    \/ \E p \in Plans : ScanMakesPlan(i, p)
    \/ ProgressShows(i)
    \/ Removed(i)
    \/ IndexAllGoesOn(i)
    \/ TryEnds(i)

User ==
    \/ \E force \in BOOLEAN : RunIndex(force)
    \/ StopIndexing
    \/ \E o \in Saves : TrackIncremental(o)
    \/ \E o \in LiveEdits : LiveEdit(o)
    \/ \E r \in Readers : Navigate(r)
    \/ OpenSearch \/ SearchQuery \/ CloseSearch

Next ==
    \/ User
    \/ \E i \in Runs : TakeTurn(i) \/ DoRunIndex(i)
    \/ \E o \in Saves : IncrementalEnds(o)
    \/ \E o \in LiveEdits : LiveEditEnds(o)
    \/ \E r \in Readers : NavigationTimesOut(r) \/ NavigationQuery(r)

Spec == Init /\ [][Next]_vars

\* Promise callbacks run, timers fire, and what doRunIndex awaits settles: VS
\* Code's calls and, as long as no parser is lost to a full window, the pool's.
Fairness ==
    /\ \A i \in Runs : WF_vars(TakeTurn(i)) /\ WF_vars(DoRunIndex(i))
    /\ \A o \in Saves : WF_vars(IncrementalEnds(o))
    /\ \A o \in LiveEdits : WF_vars(LiveEditEnds(o))
    /\ \A r \in Readers : WF_vars(NavigationTimesOut(r)) /\ WF_vars(NavigationQuery(r))

FairSpec == Spec /\ Fairness

----------------------------------------------------------------------------
(* Properties.                                                                *)

\* The gate counts exactly the operations in flight, bulk runs included, and
\* nobody waits at an open gate (indexGate.ts:24-41; every path that begins must
\* end once, whatever fails).
GateExact ==
    /\ active = Cardinality({i \in Runs : phase[i] \in Bulk})
                + Cardinality({o \in IncOps : op[o] = "busy"})
    /\ active = 0 => \A r \in Readers : reader[r] # "waiting"

\* What the user sees is true in every interleaving of bulk and incremental
\* work: the status bar is idle exactly when nothing is indexed, the counts of
\* the burst are those of the operations in flight, the notification closes with
\* the burst (extension.ts:83-96, 351-406, 598-606).
ShownIsTrue ==
    /\ status = "idle" <=> ~bulkActive /\ inflight = 0
    /\ view.indexing <=> bulkActive \/ inflight > 0
    /\ incTotal = incDone + inflight
    /\ notification => inflight > 0
    /\ inflight = 0 => incTotal = 0

\* Go to Definition and Find References never query tables without name indexes,
\* whichever run dropped them, unless no run is left to build them: the run that
\* dropped them failed, or none of this session has built them yet. A from-scratch
\* run that succeeds leaves none behind (extension.ts:194-205, host.ts:28-37).
NavigationAbstains == "navigation" \notin scans

\* A run cuts its plan short only if the user stopped that very run
\* (extension.ts:437: `a stray stop never sticks').
NoInheritedStop == ~strayStop

\* While the parsers work for a run that the user stopped or a newer request
\* superseded, they have seen the cancel (extension.ts:434-435 and 448-449).
CancelReachesTheParse ==
    \A i \in Runs : phase[i] = "parse" /\ (stopRequested \/ i < gen) => canceled
=============================================================================
