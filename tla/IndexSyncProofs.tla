--------------------------- MODULE IndexSyncProofs ---------------------------
(* A scan heals: for any number of files, settings, texts and jobs in flight,  *)
(* the rows a run leaves or posts for a file it did not leave out and nobody   *)
(* else touched are those of the workspace. A file of the plan is, at any      *)
(* moment, still to be done, in a job of the run, or in sync; and the mtimes   *)
(* are stamps: rows made from the text that had the stamp of the file on disk  *)
(* hold that text.                                                             *)
EXTENDS IndexSync, TLAPS

\* r was made from the text of f that had stamp r.as, or from a buffer (as = 0),
\* whose stamp no text on disk has.
Honest(r, f) ==
    Present(f) => IF r.as = 0 THEN r.mtime # disk[f].mtime
                  ELSE r.as = disk[f].mtime => r.text = disk[f].text

RowStamp(f) ==
    /\ disk[f].mtime <= clock
    /\ Present(f) => disk[f].mtime # 0
    /\ rows[f].mtime <= clock /\ rows[f].as <= clock
    /\ rows[f] # NoRow => rows[f].text \in Texts /\ Honest(rows[f], f)

JobStamp(k) ==
    /\ jobs[k].mtime <= clock /\ jobs[k].as <= clock
    /\ jobs[k].stage = "read" =>
          jobs[k].text \in Texts /\ jobs[k].as # 0 /\ Honest(jobs[k], jobs[k].file)
    /\ jobs[k].stage = "parsed" => jobs[k].text \in Texts /\ Honest(jobs[k], jobs[k].file)

StampInv == (\A f \in Paths : RowStamp(f)) /\ (\A k \in 1..MaxJobs : JobStamp(k))

\* What findFiles saw of a quiet file is still so.
FoundInv ==
    /\ phase \in {"finding", "found"} => asked \in Settings
    /\ phase = "found" => \A f \in quiet :
          /\ IsExcluded(RulesOf(asked), f) = Excluded(f)
          /\ FindExcludes(asked, f) => Excluded(f)
          /\ f \in found <=> Present(f) /\ ~FindExcludes(asked, f)

\* When the plan is made no job is the run's, and when the run is over it has
\* posted the rows of every file it did not leave out.
PostedInv ==
    Over => \A k \in 1..MaxJobs :
        jobs[k].bulk /\ jobs[k].file \in quiet => jobs[k].stage = "parsed"
RunInv ==
    /\ phase \in {"finding", "found"} => \A k \in 1..MaxJobs : ~jobs[k].bulk
    /\ phase = "finding" => quiet = {}
    /\ phase # "removing" => toRemove = {}
    /\ phase \notin {"removing", "parsing"} => toIndex = {}
    /\ PostedInv

InJob(f) == \E k \in 1..MaxJobs : jobs[k].bulk /\ jobs[k].file = f
Planned(f) ==
    /\ f \in toRemove => ~Wanted(f)
    /\ f \in toIndex => Wanted(f)
    /\ \A k \in 1..MaxJobs : jobs[k].bulk /\ jobs[k].file = f =>
          /\ jobs[k].stage = "remove" <=> ~Wanted(f)
          /\ jobs[k].stage \in {"read", "parsed"} => jobs[k].text = disk[f].text
    /\ f \in toRemove \/ f \in toIndex \/ InJob(f) \/ InSync(f) \/ (Torn(f) /\ ~forced)
PlanInv == phase \notin {"finding", "found"} => \A f \in quiet : Planned(f)

SyncInv == TypeOK /\ StampInv /\ FoundInv /\ RunInv /\ PlanInv

----------------------------------------------------------------------------
(* Types.                                                                     *)

\* A request takes a slot that no job holds.
LEMMA PostTakesFreeSlot ==
  ASSUME NEW stage, NEW f, NEW bulk, NEW text, NEW mtime, Post(stage, f, bulk, text, mtime)
  PROVE  \E k \in DOMAIN jobs :
            /\ jobs[k].stage = "none"
            /\ jobs' = [jobs EXCEPT ![k] = [stage |-> stage, file |-> f, bulk |-> bulk,
                                          text |-> text, mtime |-> mtime, as |-> 0]]
<1>1. (CHOOSE k \in Free : TRUE) \in Free
  BY DEF Post
<1> QED BY <1>1 DEF Post, Free

LEMMA PostType ==
  ASSUME TypeOK, NEW stage \in Stages, NEW f \in Paths, NEW bulk \in BOOLEAN,
         NEW text \in Texts \cup {NoText}, NEW mtime \in 0..MaxClock,
         Post(stage, f, bulk, text, mtime)
  PROVE  jobs' \in [1..MaxJobs -> Job \cup {NoJob}]
<1> DEFINE job == [stage |-> stage, file |-> f, bulk |-> bulk,
                   text |-> text, mtime |-> mtime, as |-> 0]
<1>1. job \in Job
  BY SyncAssumption DEF Job
<1>2. PICK k \in DOMAIN jobs : jobs' = [jobs EXCEPT ![k] = job]
  BY PostTakesFreeSlot
<1>3. jobs \in [1..MaxJobs -> Job \cup {NoJob}]
  BY DEF TypeOK
<1> HIDE DEF job
<1> QED BY <1>1, <1>2, <1>3

LEMMA PostEmptyType ==
  ASSUME TypeOK, NEW stage \in Stages, NEW f \in Paths, NEW bulk \in BOOLEAN,
         Post(stage, f, bulk, NoText, 0)
  PROVE  jobs' \in [1..MaxJobs -> Job \cup {NoJob}]
<1> 0 \in 0..MaxClock
  BY SyncAssumption
<1> QED BY PostType

LEMMA AnswerType ==
  ASSUME TypeOK, NEW k \in 1..MaxJobs, Answer(k)
  PROVE  jobs' \in [1..MaxJobs -> Job \cup {NoJob}]
<1>1. jobs \in [1..MaxJobs -> Job \cup {NoJob}]
  BY DEF TypeOK
<1> QED BY <1>1 DEF Answer

\* Jobs that the next run does not own: the same jobs.
Disowned(job) == [job EXCEPT !.bulk = FALSE]
LEMMA DisownedJob ==
  ASSUME NEW job \in Job \cup {NoJob}
  PROVE  /\ Disowned(job) \in Job \cup {NoJob} /\ ~Disowned(job).bulk
         /\ Disowned(job).stage = job.stage /\ Disowned(job).file = job.file
         /\ Disowned(job).text = job.text /\ Disowned(job).mtime = job.mtime
         /\ Disowned(job).as = job.as
<1>1. CASE job = NoJob
  <2>1. Disowned(NoJob) = [stage |-> "none", file |-> NoFile, bulk |-> FALSE,
                           text |-> NoText, mtime |-> 0, as |-> 0]
    <3>1. ASSUME NEW b, NEW c PROVE
            [[stage |-> "none", file |-> NoFile, bulk |-> b, text |-> NoText, mtime |-> 0,
              as |-> 0] EXCEPT !.bulk = c]
              = [stage |-> "none", file |-> NoFile, bulk |-> c, text |-> NoText, mtime |-> 0,
                 as |-> 0]
      OBVIOUS
    <3> QED BY <3>1 DEF Disowned, NoJob
  <2>2. Disowned(NoJob) = NoJob
    BY <2>1 DEF NoJob
  <2>3. ~NoJob.bulk
    BY DEF NoJob
  <2> QED BY <1>1, <2>2, <2>3
<1>2. CASE job \in Job
  BY <1>2 DEF Disowned, Job
<1> QED BY <1>1, <1>2

LEMMA DisownType ==
  ASSUME TypeOK, jobs' = [k \in DOMAIN jobs |-> Disowned(jobs[k])]
  PROVE  jobs' \in [1..MaxJobs -> Job \cup {NoJob}]
<1>1. jobs \in [1..MaxJobs -> Job \cup {NoJob}]
  BY DEF TypeOK
<1> QED BY <1>1, DisownedJob

LEMMA TypeInit == Init => TypeOK
<1> SUFFICES ASSUME Init PROVE TypeOK
  OBVIOUS
<1>1. jobs \in [1..MaxJobs -> Job \cup {NoJob}]
  BY DEF Init
<1>2. disk \in [Paths -> [text : Texts \cup {NoText}, mtime : 0..MaxClock]]
  BY SyncAssumption DEF Init, Absent
<1>3. rows \in [Paths -> [text : Texts \cup {NoText}, mtime : 0..MaxClock, as : 0..MaxClock]]
  BY SyncAssumption DEF Init, NoRow
<1>4. notice \in [Paths -> {"none", "changed", "deleted"}]
  BY DEF Init
<1>5. clock \in 0..MaxClock /\ settings \in Settings /\ rules = RulesOf(settings)
  BY SyncAssumption DEF Init
<1>6. /\ slot \in Paths \cup {NoFile} /\ phase \in Phases
      /\ force \in BOOLEAN /\ forced \in BOOLEAN /\ asked \in Settings \cup {NoSettings}
      /\ running = {} <=> phase = "idle"
  BY DEF Init, Phases, Runner!Init
<1>7. /\ found \subseteq Paths /\ toRemove \subseteq Paths /\ toIndex \subseteq Paths
      /\ stopRequested \in BOOLEAN /\ canceled \in BOOLEAN
      /\ quiet \subseteq Paths /\ orphans \subseteq Paths
  BY DEF Init
<1> QED BY <1>1, <1>2, <1>3, <1>4, <1>5, <1>6, <1>7 DEF TypeOK

LEMMA TypeStep == TypeOK /\ [Next]_vars => TypeOK'
<1> SUFFICES ASSUME TypeOK, [Next]_vars PROVE TypeOK'
  OBVIOUS
<1> USE DEF workspace, runVars, planVars
<1>j. jobs \in [1..MaxJobs -> Job \cup {NoJob}]
  BY DEF TypeOK
<1>1. ASSUME NEW f \in Paths, Change(f) PROVE TypeOK'
  <2>1. clock' \in 0..MaxClock
    BY <1>1, SyncAssumption DEF Change, TypeOK
  <2>2. disk' \in [Paths -> [text : Texts \cup {NoText}, mtime : 0..MaxClock]]
    BY <1>1, <2>1 DEF Change, TypeOK
  <2> QED BY <1>1, <2>1, <2>2 DEF Change, TypeOK
<1>2. ASSUME NEW f \in Paths, Delete(f) PROVE TypeOK'
  <2>1. Absent \in [text : Texts \cup {NoText}, mtime : 0..MaxClock]
    BY SyncAssumption DEF Absent
  <2> QED BY <1>2, <2>1 DEF Delete, TypeOK
<1>3. ASSUME NEW f \in Paths, Notified(f) PROVE TypeOK'
  <2>1. jobs' \in [1..MaxJobs -> Job \cup {NoJob}]
    <3>1. CASE UNCHANGED jobs
      BY <1>j, <3>1
    <3>2. CASE \E stage \in Stages : Post(stage, f, FALSE, NoText, 0)
      BY <3>2, PostEmptyType
    <3> QED BY <1>3, <3>1, <3>2 DEF Notified, Stages
  <2> QED BY <1>3, <2>1 DEF Notified, TypeOK
<1>4. ASSUME NEW f \in Paths, Edit(f) PROVE TypeOK'
  BY <1>4 DEF Edit, TypeOK
<1>5. ASSUME LiveReindex PROVE TypeOK'
  <2>1. clock' \in 0..MaxClock /\ jobs' \in [1..MaxJobs -> Job \cup {NoJob}]
    <3>1. CASE Excluded(slot)
      BY <1>5, <1>j, <3>1 DEF LiveReindex, TypeOK
    <3>2. CASE ~Excluded(slot)
      <4>1. clock + 1 \in 0..MaxClock /\ clock' = clock + 1
        BY <1>5, <3>2, SyncAssumption DEF LiveReindex, TypeOK
      <4>2. slot \in Paths
        BY <1>5 DEF LiveReindex, TypeOK
      <4>3. PICK t \in Texts : Post("parsed", slot, FALSE, t, clock + 1)
        BY <1>5, <3>2 DEF LiveReindex, LiveMtime
      <4> QED BY <4>1, <4>2, <4>3, PostType DEF Stages
    <3> QED BY <3>1, <3>2
  <2> QED BY <1>5, <2>1 DEF LiveReindex, TypeOK
<1>6. ASSUME SettingsChange PROVE TypeOK'
  BY <1>6 DEF SettingsChange, UpdateExclusions, Runner!Ask, Cancel, TypeOK
<1>7. ASSUME StopIndexing PROVE TypeOK'
  BY <1>7 DEF StopIndexing, Cancel, TypeOK
<1>8. ASSUME NEW rescan \in BOOLEAN, RunIndex(rescan) PROVE TypeOK'
  BY <1>8 DEF RunIndex, Runner!Ask, Cancel, TypeOK
<1>9. ASSUME StartRun PROVE TypeOK'
  <2>1. jobs' \in [1..MaxJobs -> Job \cup {NoJob}]
    BY <1>9, DisownType DEF StartRun, Disowned
  <2> QED BY <1>9, <2>1 DEF StartRun, Runner!Start, TypeOK, Phases
<1>10. ASSUME FindFiles PROVE TypeOK'
  BY <1>10 DEF FindFiles, TypeOK, Phases
<1>11. ASSUME MakePlan PROVE TypeOK'
  BY <1>11 DEF MakePlan, TypeOK, Phases
<1>12. ASSUME NEW f \in Paths, RemoveNext(f) PROVE TypeOK'
  <2>1. jobs' \in [1..MaxJobs -> Job \cup {NoJob}]
    BY <1>12, PostEmptyType DEF RemoveNext, Stages
  <2> QED BY <1>12, <2>1 DEF RemoveNext, TypeOK
<1>13. ASSUME NEW f \in Paths, ParseNext(f) PROVE TypeOK'
  <2>1. jobs' \in [1..MaxJobs -> Job \cup {NoJob}]
    BY <1>13, PostEmptyType DEF ParseNext, Stages
  <2> QED BY <1>13, <2>1 DEF ParseNext, TypeOK
<1>14. ASSUME Removed PROVE TypeOK'
  BY <1>14 DEF Removed, TypeOK, Phases
<1>15. ASSUME SeeCancel PROVE TypeOK'
  BY <1>15 DEF SeeCancel, TypeOK
<1>16. ASSUME Parsed PROVE TypeOK'
  BY <1>16 DEF Parsed, TypeOK, Phases
<1>17. ASSUME EndRun PROVE TypeOK'
  BY <1>17 DEF EndRun, Runner!End, TypeOK, Phases
<1>18. ASSUME NEW k \in 1..MaxJobs, ReadText(k) \/ ReadMtime(k) PROVE TypeOK'
  <2>1. jobs' \in [1..MaxJobs -> Job \cup {NoJob}]
    <3>1. CASE Answer(k)
      BY <3>1, AnswerType
    <3>2. CASE ~Answer(k)
      <4> DEFINE f == jobs[k].file
      <4>1. /\ Present(f)
            /\ \/ jobs' = [jobs EXCEPT ![k] = [@ EXCEPT !.stage = "read", !.text = disk[f].text,
                                                      !.as = disk[f].mtime]]
               \/ jobs' = [jobs EXCEPT ![k] = [@ EXCEPT !.stage = "parsed", !.mtime = disk[f].mtime]]
        BY <1>18, <3>2 DEF ReadText, ReadMtime
      <4>2. jobs[k] \in Job /\ f \in Paths
        BY <1>18, <1>j DEF ReadText, ReadMtime, NoJob, Job
      <4>3. disk[f].text \in Texts \cup {NoText} /\ disk[f].mtime \in 0..MaxClock
        BY <4>2 DEF TypeOK
      <4>4. /\ [jobs[k] EXCEPT !.stage = "read", !.text = disk[f].text, !.as = disk[f].mtime] \in Job
            /\ [jobs[k] EXCEPT !.stage = "parsed", !.mtime = disk[f].mtime] \in Job
        BY <4>2, <4>3 DEF Job, Stages
      <4> HIDE DEF f
      <4> QED BY <1>j, <4>1, <4>4 DEF f
    <3> QED BY <3>1, <3>2
  <2> QED BY <1>18, <2>1 DEF ReadText, ReadMtime, TypeOK
<1>19. ASSUME NEW k \in 1..MaxJobs, Apply(k) PROVE TypeOK'
  <2>1. jobs' \in [1..MaxJobs -> Job \cup {NoJob}]
    BY <1>19, AnswerType DEF Apply
  <2>2. rows' \in [Paths -> [text : Texts \cup {NoText}, mtime : 0..MaxClock, as : 0..MaxClock]]
    <3>1. NoRow \in [text : Texts \cup {NoText}, mtime : 0..MaxClock, as : 0..MaxClock]
      BY SyncAssumption DEF NoRow
    <3>2. jobs[k] \in Job
      BY <1>19, <1>j DEF Apply, NoJob
    <3> QED BY <1>19, <3>1, <3>2 DEF Apply, TypeOK, Job
  <2> QED BY <1>19, <2>1, <2>2 DEF Apply, TypeOK
<1>20. ASSUME RunFails PROVE TypeOK'
  <2>1. jobs' \in [1..MaxJobs -> Job \cup {NoJob}]
    BY <1>j, <1>20 DEF RunFails
  <2>2. orphans' \subseteq Paths /\ quiet' \subseteq Paths
    BY <1>20 DEF RunFails, TypeOK
  <2> QED BY <1>20, <2>1, <2>2 DEF RunFails, TypeOK, Phases
<1>21. ASSUME NEW f \in Paths, OrphanNext(f) PROVE TypeOK'
  <2>1. jobs' \in [1..MaxJobs -> Job \cup {NoJob}]
    BY <1>21, PostEmptyType DEF OrphanNext, Stages
  <2> QED BY <1>21, <2>1 DEF OrphanNext, TypeOK
<1>22. CASE EditElsewhere \/ UNCHANGED vars
  BY <1>22 DEF EditElsewhere, vars, TypeOK
<1> QED BY <1>1, <1>2, <1>3, <1>4, <1>5, <1>6, <1>7, <1>8, <1>9, <1>10, <1>11, <1>12, <1>13,
          <1>14, <1>15, <1>16, <1>17, <1>18, <1>19, <1>20, <1>21, <1>22 DEF Next

----------------------------------------------------------------------------
(* Stamps.                                                                    *)

\* A slot holds a job or none.
LEMMA SlotType ==
  ASSUME TypeOK, NEW k \in 1..MaxJobs
  PROVE  /\ jobs[k] = NoJob \/ jobs[k] \in Job
         /\ jobs[k].stage # "none" => jobs[k] \in Job /\ jobs[k].file \in Paths
<1>1. jobs[k] \in Job \cup {NoJob}
  BY DEF TypeOK
<1>2. CASE jobs[k] = NoJob
  BY <1>2 DEF NoJob
<1>3. CASE jobs[k] \in Job
  BY <1>3 DEF Job
<1> QED BY <1>1, <1>2, <1>3

LEMMA StampInit == Init => StampInv
<1> SUFFICES ASSUME Init PROVE StampInv
  OBVIOUS
<1>1. ASSUME NEW f \in Paths PROVE RowStamp(f)
  BY <1>1, SyncAssumption DEF Init, RowStamp, Absent, NoRow, Present
<1>2. ASSUME NEW k \in 1..MaxJobs PROVE JobStamp(k)
  BY <1>2 DEF Init, JobStamp, NoJob
<1> QED BY <1>1, <1>2 DEF StampInv

\* A job that holds no text yet carries no stamp.
LEMMA StampPost ==
  ASSUME TypeOK, StampInv, UNCHANGED <<disk, clock, rows>>,
         NEW stage \in {"sent", "remove"}, NEW f \in Paths, NEW bulk \in BOOLEAN,
         Post(stage, f, bulk, NoText, 0)
  PROVE  StampInv'
<1>1. ASSUME NEW g \in Paths PROVE RowStamp(g)'
  BY <1>1 DEF StampInv, RowStamp, Honest, Present
<1>2. ASSUME NEW k \in 1..MaxJobs PROVE JobStamp(k)'
  <2>1. PICK j \in DOMAIN jobs : 
          jobs' = [jobs EXCEPT ![j] = [stage |-> stage, file |-> f, bulk |-> bulk,
                                       text |-> NoText, mtime |-> 0, as |-> 0]]
    BY PostTakesFreeSlot
  <2>2. CASE k = j
    BY <2>1, <2>2 DEF TypeOK, JobStamp
  <2>3. CASE k # j
    BY <1>2, <2>1, <2>3 DEF TypeOK, StampInv, JobStamp, Honest, Present
  <2> QED BY <2>2, <2>3
<1> QED BY <1>1, <1>2 DEF StampInv

LEMMA StampStep == TypeOK /\ StampInv /\ [Next]_vars => StampInv'
<1> SUFFICES ASSUME TypeOK, StampInv, [Next]_vars PROVE StampInv'
  OBVIOUS
<1> USE DEF workspace, runVars, planVars
<1>u. ASSUME UNCHANGED <<disk, clock, rows, jobs>> PROVE StampInv'
  BY <1>u DEF StampInv, RowStamp, JobStamp, Honest, Present
<1>1. ASSUME NEW f \in Paths, Change(f) PROVE StampInv'
  <2>1. PICK t \in Texts : disk' = [disk EXCEPT ![f] = [text |-> t, mtime |-> clock + 1]]
    BY <1>1 DEF Change
  <2>2. clock' = clock + 1 /\ clock \in Nat /\ rows' = rows /\ jobs' = jobs
    BY <1>1 DEF Change, TypeOK
  <2>3. disk'[f] = [text |-> t, mtime |-> clock + 1] /\ \A g \in Paths \ {f} : disk'[g] = disk[g]
    BY <2>1 DEF TypeOK
  <2>4. ASSUME NEW r, r.mtime \in Nat, r.as \in Nat, r.mtime <= clock, r.as <= clock,
               NEW g \in Paths, Honest(r, g)
        PROVE  disk'[g].text # NoText =>
                 IF r.as = 0 THEN r.mtime # disk'[g].mtime
                 ELSE r.as = disk'[g].mtime => r.text = disk'[g].text
    BY <2>2, <2>3, <2>4 DEF Honest, Present
  <2>5. ASSUME NEW g \in Paths PROVE RowStamp(g)'
    <3>1. rows[g].mtime \in Nat /\ rows[g].as \in Nat /\ disk[g].mtime \in Nat
      BY DEF TypeOK
    <3>2. RowStamp(g)
      BY DEF StampInv
    <3>3. rows[g] # NoRow => rows[g].text \in Texts /\ Honest(rows[g], g)'
      BY <2>2, <2>4, <3>1, <3>2 DEF RowStamp, Honest, Present
    <3>4. disk'[g].mtime <= clock' /\ (Present(g)' => disk'[g].mtime # 0)
      BY <2>2, <2>3, <3>1, <3>2 DEF RowStamp, Present
    <3> QED BY <2>2, <3>1, <3>2, <3>3, <3>4 DEF RowStamp, Honest
  <2>6. ASSUME NEW k \in 1..MaxJobs PROVE JobStamp(k)'
    <3>1. jobs[k].mtime \in Nat /\ jobs[k].as \in Nat
      BY SlotType DEF Job, NoJob
    <3>2. JobStamp(k)
      BY DEF StampInv
    <3>3. jobs[k].stage # "none" => jobs[k].file \in Paths
      BY SlotType
    <3> QED BY <2>2, <2>4, <3>1, <3>2, <3>3 DEF JobStamp, Honest, Present
  <2> QED BY <2>5, <2>6 DEF StampInv
<1>2. ASSUME NEW f \in Paths, Delete(f) PROVE StampInv'
  <2>1. disk'[f] = Absent /\ \A g \in Paths \ {f} : disk'[g] = disk[g]
    BY <1>2 DEF Delete, TypeOK
  <2>2. UNCHANGED <<clock, rows, jobs>> /\ clock \in Nat
    BY <1>2 DEF Delete, TypeOK
  <2>3. ASSUME NEW g \in Paths PROVE RowStamp(g)'
    BY <2>1, <2>2, <2>3 DEF StampInv, RowStamp, Honest, Present, Absent
  <2>4. ASSUME NEW k \in 1..MaxJobs PROVE JobStamp(k)'
    <3>1. jobs[k].stage # "none" => jobs[k].file \in Paths
      BY SlotType
    <3>2. JobStamp(k)
      BY DEF StampInv
    <3> QED BY <2>1, <2>2, <3>1, <3>2 DEF JobStamp, Honest, Present, Absent
  <2> QED BY <2>3, <2>4 DEF StampInv
<1>3. ASSUME NEW f \in Paths, Notified(f) PROVE StampInv'
  <2>1. UNCHANGED <<disk, clock, rows>>
    BY <1>3 DEF Notified
  <2> QED BY <1>3, <1>u, <2>1, StampPost DEF Notified
<1>4. ASSUME LiveReindex PROVE StampInv'
  <2>1. CASE Excluded(slot)
    BY <1>4, <1>u, <2>1 DEF LiveReindex
  <2>2. CASE ~Excluded(slot)
    <3>1. PICK t \in Texts : Post("parsed", slot, FALSE, t, clock + 1)
      BY <1>4, <2>2 DEF LiveReindex, LiveMtime
    <3>2. PICK j \in DOMAIN jobs :
            jobs' = [jobs EXCEPT ![j] = [stage |-> "parsed", file |-> slot, bulk |-> FALSE,
                                         text |-> t, mtime |-> clock + 1, as |-> 0]]
      BY <3>1 DEF Post, Free
    <3>3. clock' = clock + 1 /\ clock \in Nat /\ UNCHANGED <<disk, rows>> /\ slot \in Paths
      BY <1>4, <2>2 DEF LiveReindex, TypeOK
    <3>4. ASSUME NEW g \in Paths PROVE RowStamp(g)'
      <4>1. rows[g].mtime \in Nat /\ rows[g].as \in Nat /\ disk[g].mtime \in Nat
        BY DEF TypeOK
      <4> QED BY <3>3, <4>1 DEF StampInv, RowStamp, Honest, Present
    <3>5. ASSUME NEW k \in 1..MaxJobs PROVE JobStamp(k)'
      <4>1. JobStamp(k) /\ jobs[k].mtime \in Nat /\ jobs[k].as \in Nat
        BY SlotType DEF Job, NoJob, StampInv
      <4>2. disk[slot].mtime \in Nat /\ disk[slot].mtime <= clock
        BY <3>3 DEF TypeOK, StampInv, RowStamp
      <4>3. CASE k = j
        BY <3>2, <3>3, <4>2, <4>3 DEF TypeOK, JobStamp, Honest, Present
      <4>4. CASE k # j
        BY <3>2, <3>3, <4>1, <4>4 DEF TypeOK, JobStamp, Honest, Present
      <4> QED BY <4>3, <4>4
    <3> QED BY <3>4, <3>5 DEF StampInv
  <2> QED BY <2>1, <2>2
<1>5. ASSUME NEW f \in Paths, RemoveNext(f) \/ ParseNext(f) PROVE StampInv'
  <2>1. UNCHANGED <<disk, clock, rows>>
    BY <1>5 DEF RemoveNext, ParseNext
  <2> QED BY <1>5, <2>1, StampPost DEF RemoveNext, ParseNext
<1>6. ASSUME NEW k \in 1..MaxJobs, ReadText(k) \/ ReadMtime(k) \/ Apply(k) PROVE StampInv'
  <2> DEFINE f == jobs[k].file
  <2>1. jobs[k] \in Job /\ f \in Paths /\ UNCHANGED <<disk, clock>> /\ clock \in Nat
    BY <1>6, SlotType DEF ReadText, ReadMtime, Apply, TypeOK
  <2>2. disk[f].mtime \in Nat /\ disk[f].text \in Texts \cup {NoText} /\ RowStamp(f) /\ JobStamp(k)
    BY <2>1 DEF TypeOK, StampInv
  <2>3. ASSUME NEW j \in 1..MaxJobs PROVE JobStamp(j)'
    <3>1. CASE j # k
      <4>1. jobs'[j] = jobs[j]
        BY <1>6, <3>1 DEF ReadText, ReadMtime, Apply, Answer, TypeOK
      <4> QED BY <2>1, <4>1 DEF StampInv, JobStamp, Honest, Present
    <3>2. CASE j = k /\ jobs'[k] = NoJob
      BY <2>1, <3>2 DEF JobStamp, NoJob
    <3>3. CASE j = k /\ jobs'[k] # NoJob
      <4>1. Present(f) /\ UNCHANGED rows
        BY <1>6, <3>3 DEF ReadText, ReadMtime, Apply, Answer, TypeOK
      <4>2. \/ ReadText(k) /\ jobs'[k] = [jobs[k] EXCEPT !.stage = "read", !.text = disk[f].text,
                                                         !.as = disk[f].mtime]
            \/ ReadMtime(k) /\ jobs'[k] = [jobs[k] EXCEPT !.stage = "parsed", !.mtime = disk[f].mtime]
        BY <1>6, <3>3 DEF ReadText, ReadMtime, Apply, Answer, TypeOK
      <4>3. CASE ReadText(k)
        BY <2>1, <2>2, <3>3, <4>1, <4>2, <4>3 DEF ReadText, ReadMtime, Job, JobStamp, RowStamp, Honest, Present
      <4>4. CASE ReadMtime(k)
        BY <2>1, <2>2, <3>3, <4>1, <4>2, <4>4 DEF ReadText, ReadMtime, Job, JobStamp, RowStamp, Honest, Present
      <4> QED BY <4>2, <4>3, <4>4
    <3> QED BY <3>1, <3>2, <3>3
  <2>4. ASSUME NEW g \in Paths PROVE RowStamp(g)'
    <3>1. CASE rows'[g] = rows[g]
      BY <2>1, <3>1 DEF StampInv, RowStamp, Honest, Present
    <3>2. CASE rows'[g] = NoRow
      BY <2>1, <3>2 DEF StampInv, RowStamp, NoRow, Present
    <3>3. CASE /\ g = f /\ jobs[k].stage = "parsed"
               /\ rows'[g] = [text |-> jobs[k].text, mtime |-> jobs[k].mtime, as |-> jobs[k].as]
      BY <2>1, <2>2, <3>3 DEF JobStamp, RowStamp, Honest, Present
    <3>4. Apply(k) \/ rows' = rows
      BY <1>6 DEF ReadText, ReadMtime
    <3> QED BY <3>1, <3>2, <3>3, <3>4 DEF Apply, TypeOK
  <2> QED BY <2>3, <2>4 DEF StampInv
<1>7. CASE UNCHANGED <<disk, clock, rows, jobs>>
  BY <1>7, <1>u
<1>8. ASSUME UNCHANGED <<disk, clock, rows>>,
             \A k \in 1..MaxJobs : jobs'[k] \in {jobs[k], NoJob, Disowned(jobs[k])}
      PROVE  StampInv'
  <2>1. ASSUME NEW g \in Paths PROVE RowStamp(g)'
    BY <1>8, <2>1 DEF StampInv, RowStamp, Honest, Present
  <2>2. ASSUME NEW k \in 1..MaxJobs PROVE JobStamp(k)'
    <3>1. JobStamp(k) /\ clock \in Nat
      BY DEF StampInv, TypeOK
    <3>2. CASE jobs'[k] = NoJob
      BY <1>8, <3>1, <3>2 DEF JobStamp, NoJob
    <3>3. CASE jobs'[k] \in {jobs[k], Disowned(jobs[k])}
      <4>1. /\ jobs'[k].stage = jobs[k].stage /\ jobs'[k].file = jobs[k].file
            /\ jobs'[k].text = jobs[k].text /\ jobs'[k].mtime = jobs[k].mtime
            /\ jobs'[k].as = jobs[k].as
        BY <3>3, SlotType, DisownedJob
      <4> QED BY <1>8, <3>1, <4>1 DEF JobStamp, Honest, Present
    <3> QED BY <1>8, <3>2, <3>3
  <2> QED BY <2>1, <2>2 DEF StampInv
<1>9. CASE StartRun \/ RunFails
  BY <1>8, <1>9 DEF StartRun, RunFails, Disowned, TypeOK
<1>10. ASSUME NEW f \in Paths, OrphanNext(f) PROVE StampInv'
  <2>1. UNCHANGED <<disk, clock, rows>>
    BY <1>10 DEF OrphanNext
  <2> QED BY <1>10, <2>1, StampPost DEF OrphanNext
<1> QED BY <1>1, <1>2, <1>3, <1>4, <1>5, <1>6, <1>7, <1>9, <1>10
        DEF Next, vars, Edit, EditElsewhere, SettingsChange, StopIndexing, RunIndex, FindFiles,
            MakePlan, Removed, SeeCancel, Parsed, EndRun

----------------------------------------------------------------------------
(* What findFiles saw, and the jobs of the run.                               *)

LEMMA FoundStep == TypeOK /\ FoundInv /\ [Next]_vars => FoundInv'
<1> SUFFICES ASSUME TypeOK, FoundInv, [Next]_vars PROVE FoundInv'
  OBVIOUS
<1> USE DEF workspace, runVars, planVars
<1>1. ASSUME UNCHANGED <<phase, asked, rules, found>>, quiet' \subseteq quiet,
             \A f \in quiet' : disk'[f] = disk[f]
      PROVE  FoundInv'
  BY <1>1 DEF FoundInv, Excluded, Present
<1>2. ASSUME phase' \notin {"finding", "found"} PROVE FoundInv'
  BY <1>2 DEF FoundInv
<1>3. ASSUME NEW f \in Paths, Change(f) \/ Delete(f) PROVE FoundInv'
  BY <1>1, <1>3 DEF Change, Delete, TypeOK
<1>4. ASSUME SettingsChange PROVE FoundInv'
  BY <1>4 DEF SettingsChange, FoundInv, Excluded, Present
<1>5. ASSUME StartRun PROVE FoundInv'
  BY <1>5 DEF StartRun, FoundInv, TypeOK
<1>6. ASSUME FindFiles PROVE FoundInv'
  BY <1>6 DEF FindFiles, FoundInv, Excluded, Present
<1>7. ASSUME MakePlan \/ Removed \/ Parsed \/ RunFails \/ EndRun PROVE FoundInv'
  BY <1>2, <1>7 DEF MakePlan, Removed, Parsed, RunFails, EndRun
<1>8. ASSUME NEW k \in 1..MaxJobs, ReadText(k) \/ ReadMtime(k) \/ Apply(k) PROVE FoundInv'
  BY <1>1, <1>8 DEF ReadText, ReadMtime, Apply
<1>9. ASSUME NEW f \in Paths,
             Notified(f) \/ Edit(f) \/ RemoveNext(f) \/ ParseNext(f) \/ OrphanNext(f)
      PROVE  FoundInv'
  BY <1>1, <1>9 DEF Notified, Edit, RemoveNext, ParseNext, OrphanNext
<1>10. ASSUME EditElsewhere \/ LiveReindex \/ StopIndexing \/ SeeCancel \/ UNCHANGED vars
       PROVE  FoundInv'
  BY <1>1, <1>10 DEF EditElsewhere, LiveReindex, StopIndexing, SeeCancel, vars
<1>11. ASSUME NEW rescan \in BOOLEAN, RunIndex(rescan) PROVE FoundInv'
  BY <1>1, <1>11 DEF RunIndex
<1> QED BY <1>3, <1>4, <1>5, <1>6, <1>7, <1>8, <1>9, <1>10, <1>11 DEF Next

\* The jobs of the run are the same.
SameBulk == \A k \in 1..MaxJobs :
    /\ jobs'[k].bulk <=> jobs[k].bulk
    /\ jobs[k].bulk => jobs'[k] = jobs[k]

LEMMA OthersPost ==
  ASSUME TypeOK, NEW stage, NEW f, NEW text, NEW mtime, Post(stage, f, FALSE, text, mtime)
  PROVE  SameBulk
<1> DEFINE job == [stage |-> stage, file |-> f, bulk |-> FALSE,
                   text |-> text, mtime |-> mtime, as |-> 0]
<1>1. PICK j \in DOMAIN jobs : jobs[j].stage = "none" /\ jobs' = [jobs EXCEPT ![j] = job]
  BY DEF Post, Free
<1>2. jobs[j] = NoJob
  <2>1. jobs[j] \notin Job
    BY <1>1 DEF Job, Stages
  <2> QED BY <1>1, <2>1, SlotType DEF TypeOK
<1>3. ~NoJob.bulk
  BY DEF NoJob
<1>4. ~job.bulk
  OBVIOUS
<1> HIDE DEF job
<1> QED BY <1>1, <1>2, <1>3, <1>4 DEF SameBulk, TypeOK

LEMMA OthersStep ==
  ASSUME TypeOK, NEW k \in 1..MaxJobs, ~jobs[k].bulk, ReadText(k) \/ ReadMtime(k) \/ Apply(k)
  PROVE  SameBulk
<1>1. jobs[k] \in Job
  BY SlotType DEF ReadText, ReadMtime, Apply
<1>2. \A j \in 1..MaxJobs \ {k} : jobs'[j] = jobs[j]
  BY DEF ReadText, ReadMtime, Apply, Answer, TypeOK
<1>3. jobs'[k] = NoJob \/ jobs'[k].bulk = jobs[k].bulk
  <2> DEFINE f == jobs[k].file
             read == [jobs[k] EXCEPT !.stage = "read", !.text = disk[f].text, !.as = disk[f].mtime]
             parsed == [jobs[k] EXCEPT !.stage = "parsed", !.mtime = disk[f].mtime]
  <2>1. jobs'[k] \in {NoJob, read, parsed}
    BY DEF ReadText, ReadMtime, Apply, Answer, TypeOK
  <2>2. read.bulk = jobs[k].bulk /\ parsed.bulk = jobs[k].bulk
    BY <1>1 DEF Job
  <2> QED BY <2>1, <2>2
<1>4. ~NoJob.bulk
  BY DEF NoJob
<1> QED BY <1>2, <1>3, <1>4 DEF SameBulk

LEMMA RunStep == TypeOK /\ RunInv /\ [Next]_vars => RunInv'
<1> SUFFICES ASSUME TypeOK, RunInv, [Next]_vars PROVE RunInv'
  OBVIOUS
<1> USE DEF workspace, runVars, planVars
<1>1. ASSUME UNCHANGED <<phase, toRemove, toIndex>>, quiet' \subseteq quiet, SameBulk PROVE RunInv'
  BY <1>1 DEF RunInv, PostedInv, Over, SameBulk
<1>2. ASSUME UNCHANGED jobs PROVE SameBulk
  BY <1>2 DEF SameBulk
<1>3. ASSUME NEW f \in Paths, Notified(f) \/ OrphanNext(f) PROVE RunInv'
  <2>1. SameBulk
    BY <1>2, <1>3, OthersPost DEF Notified, OrphanNext
  <2> QED BY <1>1, <1>3, <2>1 DEF Notified, OrphanNext
<1>4. ASSUME LiveReindex PROVE RunInv'
  <2>1. SameBulk
    BY <1>2, <1>4, OthersPost DEF LiveReindex
  <2> QED BY <1>1, <1>4, <2>1 DEF LiveReindex
<1>5. ASSUME NEW f \in Paths, Change(f) \/ Delete(f) \/ Edit(f) PROVE RunInv'
  BY <1>1, <1>2, <1>5 DEF Change, Delete, Edit
<1>6. ASSUME EditElsewhere \/ SettingsChange \/ StopIndexing \/ UNCHANGED vars PROVE RunInv'
  BY <1>1, <1>2, <1>6 DEF EditElsewhere, SettingsChange, StopIndexing, vars
<1>7. ASSUME NEW rescan \in BOOLEAN, RunIndex(rescan) PROVE RunInv'
  BY <1>1, <1>2, <1>7 DEF RunIndex
<1>8. ASSUME StartRun PROVE RunInv'
  <2>1. \A k \in 1..MaxJobs : ~jobs'[k].bulk
    BY <1>8, DisownedJob DEF StartRun, Disowned, TypeOK
  <2>2. phase = "idle" /\ phase' = "finding" /\ quiet' = {}
    BY <1>8 DEF StartRun, Runner!Start, TypeOK
  <2>3. toRemove' = {} /\ toIndex' = {}
    BY <1>8, <2>2 DEF StartRun, RunInv
  <2> QED BY <2>1, <2>2, <2>3 DEF RunInv, PostedInv, Over
<1>9. ASSUME FindFiles PROVE RunInv'
  BY <1>9 DEF FindFiles, RunInv, PostedInv, Over
<1>10. ASSUME MakePlan PROVE RunInv'
  BY <1>10 DEF MakePlan, RunInv, PostedInv, Over
<1>11. ASSUME NEW f \in Paths, RemoveNext(f) \/ ParseNext(f) PROVE RunInv'
  BY <1>11 DEF RemoveNext, ParseNext, RunInv, PostedInv, Over
<1>12. ASSUME Removed PROVE RunInv'
  BY <1>12 DEF Removed, BulkJobs, RunInv, PostedInv, Over, TypeOK
<1>13. ASSUME SeeCancel PROVE RunInv'
  BY <1>13 DEF SeeCancel, RunInv, PostedInv, Over
<1>14. ASSUME Parsed PROVE RunInv'
  BY <1>14 DEF Parsed, Posted, BulkJobs, RunInv, PostedInv, Over, TypeOK
<1>15. ASSUME RunFails PROVE RunInv'
  <2>1. \A k \in 1..MaxJobs : jobs'[k].bulk => jobs[k].bulk /\ jobs'[k] = jobs[k]
    BY <1>15 DEF RunFails, TypeOK, NoJob
  <2>2. \A k \in 1..MaxJobs : jobs'[k].bulk => jobs'[k].file \notin quiet'
    BY <1>15, <2>1 DEF RunFails, BulkJobs, TypeOK
  <2>3. phase' = "done" /\ toRemove' = {} /\ toIndex' = {}
    BY <1>15 DEF RunFails
  <2> QED BY <2>2, <2>3 DEF RunInv, PostedInv
<1>16. ASSUME EndRun PROVE RunInv'
  BY <1>16 DEF EndRun, RunInv, PostedInv, Over
<1>17. ASSUME NEW k \in 1..MaxJobs, ReadText(k) \/ ReadMtime(k) \/ Apply(k) PROVE RunInv'
  <2>1. UNCHANGED <<phase, toRemove, toIndex>> /\ quiet' \subseteq quiet
    BY <1>17 DEF ReadText, ReadMtime, Apply
  <2>2. CASE ~jobs[k].bulk
    BY <1>1, <1>17, <2>1, <2>2, OthersStep
  <2>3. CASE jobs[k].bulk
    <3>1. \A j \in 1..MaxJobs \ {k} : jobs'[j] = jobs[j]
      BY <1>17 DEF ReadText, ReadMtime, Apply, Answer, TypeOK
    <3>2. phase \notin {"finding", "found"}
      BY <2>3 DEF RunInv
    <3>3. CASE Over /\ jobs[k].file \in quiet
      <4>1. jobs[k].stage = "parsed"
        BY <2>3, <3>3 DEF RunInv, PostedInv
      <4>2. jobs'[k] = NoJob
        BY <1>17, <4>1 DEF ReadText, ReadMtime, Apply, Answer, TypeOK
      <4> QED BY <2>1, <3>1, <3>2, <4>2 DEF RunInv, PostedInv, Over, NoJob
    <3>4. CASE ~(Over /\ jobs[k].file \in quiet)
      <4>1. jobs'[k] = NoJob \/ jobs'[k].file = jobs[k].file
        <5> DEFINE h == jobs[k].file
                   read == [jobs[k] EXCEPT !.stage = "read", !.text = disk[h].text, !.as = disk[h].mtime]
                   parsed == [jobs[k] EXCEPT !.stage = "parsed", !.mtime = disk[h].mtime]
        <5>1. jobs'[k] \in {NoJob, read, parsed}
          BY <1>17 DEF ReadText, ReadMtime, Apply, Answer, TypeOK
        <5>2. jobs[k] \in Job
          BY <1>17, SlotType DEF ReadText, ReadMtime, Apply
        <5>3. read.file = jobs[k].file /\ parsed.file = jobs[k].file
          BY <5>2 DEF Job
        <5> QED BY <5>1, <5>3
      <4>2. ~NoJob.bulk
        BY DEF NoJob
      <4> QED BY <2>1, <3>1, <3>2, <3>4, <4>1, <4>2 DEF RunInv, PostedInv, Over
    <3> QED BY <3>3, <3>4
  <2> QED BY <2>2, <2>3
<1> QED BY <1>3, <1>4, <1>5, <1>6, <1>7, <1>8, <1>9, <1>10, <1>11, <1>12, <1>13, <1>14, <1>15,
           <1>16, <1>17 DEF Next

----------------------------------------------------------------------------
(* The plan.                                                                  *)

LEMMA PlanStep == SyncInv /\ [Next]_vars => PlanInv'
<1> SUFFICES ASSUME SyncInv, [Next]_vars, NEW f \in Paths, f \in quiet',
                    phase' \notin {"finding", "found"}
             PROVE  Planned(f)'
  BY TypeStep DEF PlanInv, SyncInv, TypeOK
<1> USE DEF workspace, runVars, planVars
<1>t. TypeOK
  BY DEF SyncInv
<1> DEFINE Busy == phase \notin {"finding", "found"} /\ f \in quiet
<1>p. Busy => Planned(f)
  BY DEF SyncInv, PlanInv
<1>1. ASSUME Busy, UNCHANGED <<forced, rows, toRemove, toIndex>>, SameBulk,
             disk'[f] = disk[f], Excluded(f)' = Excluded(f)
      PROVE  Planned(f)'
  <2>1. Planned(f)
    BY <1>1, <1>p
  <2>2. UNCHANGED <<Wanted(f), InSync(f), Torn(f)>>
    BY <1>1 DEF Wanted, Present, InSync, Torn
  <2>3. UNCHANGED InJob(f)
    BY <1>1 DEF SameBulk, InJob
  <2> QED BY <1>1, <2>1, <2>2, <2>3 DEF Planned, SameBulk
<1>2. ASSUME UNCHANGED jobs PROVE SameBulk
  BY <1>2 DEF SameBulk
<1>3. ASSUME UNCHANGED rules PROVE Excluded(f)' = Excluded(f)
  BY <1>3 DEF Excluded
<1>4. ASSUME NEW g \in Paths, Change(g) \/ Delete(g) PROVE Planned(f)'
  <2>1. g # f /\ Busy
    BY <1>4 DEF Change, Delete
  <2>2. disk'[f] = disk[f]
    BY <1>4, <1>t, <2>1 DEF Change, Delete, TypeOK
  <2> QED BY <1>1, <1>2, <1>3, <1>4, <2>1, <2>2 DEF Change, Delete
<1>5. ASSUME NEW g \in Paths, Notified(g) \/ OrphanNext(g) PROVE Planned(f)'
  <2>1. SameBulk
    BY <1>2, <1>5, <1>t, OthersPost DEF Notified, OrphanNext
  <2> QED BY <1>1, <1>3, <1>5, <2>1 DEF Notified, OrphanNext
<1>6. ASSUME EditElsewhere \/ \E g \in Paths : Edit(g) PROVE Planned(f)'
  BY <1>1, <1>2, <1>3, <1>6 DEF Edit, EditElsewhere
<1>7. ASSUME LiveReindex PROVE Planned(f)'
  <2>1. SameBulk
    BY <1>2, <1>7, <1>t, OthersPost DEF LiveReindex
  <2> QED BY <1>1, <1>3, <1>7, <2>1 DEF LiveReindex
<1>8. ASSUME SettingsChange PROVE Planned(f)'
  BY <1>1, <1>2, <1>8 DEF SettingsChange, Excluded
<1>9. ASSUME StopIndexing \/ UNCHANGED vars PROVE Planned(f)'
  BY <1>1, <1>2, <1>3, <1>9 DEF StopIndexing, vars
<1>10. ASSUME NEW rescan \in BOOLEAN, RunIndex(rescan) PROVE Planned(f)'
  BY <1>1, <1>2, <1>3, <1>10 DEF RunIndex
<1>11. ASSUME StartRun \/ FindFiles PROVE Planned(f)'
  BY <1>11 DEF StartRun, FindFiles
<1>12. ASSUME SeeCancel \/ EndRun PROVE Planned(f)'
  <2>1. Busy /\ f \notin toIndex /\ f \notin toIndex'
    BY <1>12 DEF SeeCancel, EndRun, SyncInv, RunInv
  <2>2. UNCHANGED <<workspace, rows, jobs, forced, toRemove>>
    BY <1>12 DEF SeeCancel, EndRun
  <2>3. UNCHANGED <<Wanted(f), InSync(f), Torn(f), InJob(f)>>
    BY <2>2 DEF Wanted, Present, Excluded, InSync, Torn, InJob
  <2> QED BY <1>p, <2>1, <2>2, <2>3 DEF Planned
<1>13. ASSUME MakePlan PROVE Planned(f)'
  <2>1. PICK unread \in BOOLEAN, verifyHash \in BOOLEAN :
        LET current == {g \in found : ~Excluded(g)}
            prev == IF unread THEN {} ELSE {g \in Paths : rows[g] # NoRow}
        IN /\ toIndex' = {g \in current : forced \/ ~Unchanged(g, prev, verifyHash)}
           /\ toRemove' = prev \ current
           /\ quiet' = IF unread THEN quiet \cap current ELSE quiet
    BY <1>13 DEF MakePlan
  <2> DEFINE current == {g \in found : ~Excluded(g)}
             prev == IF unread THEN {} ELSE {g \in Paths : rows[g] # NoRow}
  <2>2. f \in quiet /\ phase = "found" /\ UNCHANGED <<workspace, rows, jobs, forced>>
    BY <1>13, <2>1 DEF MakePlan
  <2>3. f \in current <=> Wanted(f)
    <3>1. /\ asked \in Settings
          /\ IsExcluded(RulesOf(asked), f) = Excluded(f)
          /\ FindExcludes(asked, f) => Excluded(f)
          /\ f \in found <=> Present(f) /\ ~FindExcludes(asked, f)
      BY <2>2 DEF SyncInv, FoundInv
    <3> QED BY <3>1 DEF Wanted
  <2>4. \A k \in 1..MaxJobs : ~jobs[k].bulk
    BY <2>2 DEF SyncInv, RunInv
  <2>5. UNCHANGED <<Wanted(f), InSync(f), Torn(f)>>
    BY <2>2 DEF Wanted, Present, Excluded, InSync, Torn
  <2>6. f \in toRemove' <=> f \in prev /\ ~Wanted(f)
    BY <2>1, <2>3
  <2>7. f \in toIndex' <=> Wanted(f) /\ (forced \/ ~Unchanged(f, prev, verifyHash))
    BY <2>1, <2>3
  <2>8. f \in toRemove' \/ f \in toIndex' \/ InSync(f) \/ (Torn(f) /\ ~forced)
    <3>1. CASE ~Wanted(f)
      <4>1. ~unread
        BY <1>13, <2>1, <2>3, <3>1
      <4> QED BY <2>6, <3>1, <4>1 DEF InSync
    <3>2. CASE Wanted(f) /\ f \notin toIndex'
      <4>1. ~forced /\ Unchanged(f, prev, verifyHash)
        BY <2>7, <3>2
      <4>2. rows[f] # NoRow
        BY <4>1 DEF Unchanged
      <4>3. CASE rows[f].text = disk[f].text
        BY <3>2, <4>3 DEF InSync
      <4>4. CASE rows[f].mtime = disk[f].mtime /\ rows[f].text # disk[f].text
        <5>1. Honest(rows[f], f) /\ Present(f)
          BY <3>2, <4>2 DEF SyncInv, StampInv, RowStamp, Wanted
        <5> QED BY <4>1, <4>2, <4>4, <5>1 DEF Honest, Torn
      <4> QED BY <4>1, <4>3, <4>4 DEF Unchanged
    <3> QED BY <3>1, <3>2
  <2> QED BY <2>2, <2>4, <2>5, <2>6, <2>7, <2>8 DEF Planned
<1>14. ASSUME NEW g \in Paths, RemoveNext(g) \/ ParseNext(g) PROVE Planned(f)'
  <2> DEFINE stage == IF phase = "removing" THEN "remove" ELSE "sent"
             j == CHOOSE k \in Free : TRUE
             job == [stage |-> stage, file |-> g, bulk |-> TRUE,
                     text |-> NoText, mtime |-> 0, as |-> 0]
  <2>1. j \in 1..MaxJobs /\ jobs[j].stage = "none" /\ jobs' = [jobs EXCEPT ![j] = job]
    <3>1. Free # {} /\ jobs' = [jobs EXCEPT ![j] = job]
      BY <1>14 DEF RemoveNext, ParseNext, Post
    <3>2. j \in Free
      BY <3>1
    <3> QED BY <1>t, <3>1, <3>2 DEF Free, TypeOK
  <2> HIDE DEF j
  <2>2. /\ jobs'[j].stage = stage /\ jobs'[j].file = g /\ jobs'[j].bulk
        /\ \A k \in 1..MaxJobs \ {j} : jobs'[k] = jobs[k]
    BY <1>t, <2>1 DEF TypeOK
  <2> HIDE DEF job
  <2>3. ~jobs[j].bulk
    <3>1. jobs[j] \notin Job
      BY <2>1 DEF Job, Stages
    <3> QED BY <1>t, <2>1, <3>1, SlotType DEF NoJob
  <2>4. Busy /\ UNCHANGED <<workspace, rows, forced>>
    <3>1. CASE RemoveNext(g)
      BY <3>1 DEF RemoveNext
    <3>2. CASE ParseNext(g)
      BY <3>2 DEF ParseNext
    <3> QED BY <1>14, <3>1, <3>2
  <2>5. UNCHANGED <<Wanted(f), InSync(f), Torn(f)>>
    BY <2>4 DEF Wanted, Present, Excluded, InSync, Torn
  <2>6. Planned(f)
    BY <2>4, <1>p
  <2>7. f = g => (stage = "remove" <=> ~Wanted(f))
    BY <1>14, <2>6 DEF Planned, RemoveNext, ParseNext
  <2>8. /\ toRemove' \subseteq toRemove /\ toIndex' \subseteq toIndex
        /\ f # g => (f \in toRemove' <=> f \in toRemove) /\ (f \in toIndex' <=> f \in toIndex)
    BY <1>14 DEF RemoveNext, ParseNext
  <2>9. InJob(f) => InJob(f)'
    BY <2>2, <2>3 DEF InJob
  <2>10. f = g => InJob(f)'
    BY <2>1, <2>2 DEF InJob
  <2>11. ASSUME NEW k \in 1..MaxJobs, jobs'[k].bulk, jobs'[k].file = f
         PROVE  /\ jobs'[k].stage = "remove" <=> ~Wanted(f)
                /\ jobs'[k].stage \in {"read", "parsed"} => jobs'[k].text = disk[f].text
    BY <2>1, <2>2, <2>6, <2>7, <2>11 DEF Planned
  <2> QED BY <2>4, <2>5, <2>6, <2>8, <2>9, <2>10, <2>11 DEF Planned
<1>15. ASSUME Removed PROVE Planned(f)'
  <2>1. Busy /\ UNCHANGED <<workspace, rows, jobs, forced>>
    BY <1>15 DEF Removed
  <2>2. (f \in toRemove' <=> f \in toRemove) /\ (f \in toIndex' <=> f \in toIndex)
    BY <1>15 DEF Removed
  <2>3. UNCHANGED <<Wanted(f), InSync(f), Torn(f), InJob(f)>>
    BY <2>1 DEF Wanted, Present, Excluded, InSync, Torn, InJob
  <2> QED BY <1>p, <2>1, <2>2, <2>3 DEF Planned
<1>16. ASSUME Parsed PROVE Planned(f)'
  BY <1>1, <1>2, <1>3, <1>16 DEF Parsed
<1>17. ASSUME NEW k \in 1..MaxJobs, ReadText(k) \/ ReadMtime(k) PROVE Planned(f)'
  <2>1. Busy /\ UNCHANGED <<workspace, rows, forced, toRemove, toIndex>>
    BY <1>17 DEF ReadText, ReadMtime
  <2>2. Planned(f)
    BY <2>1, <1>p
  <2>3. CASE ~jobs[k].bulk
    BY <1>1, <1>3, <1>t, <1>17, <2>1, <2>3, OthersStep
  <2>4. CASE jobs[k].bulk
    <3>1. \A j \in 1..MaxJobs \ {k} : jobs'[j] = jobs[j]
      BY <1>17, <1>t DEF ReadText, ReadMtime, Answer, TypeOK
    <3>2. UNCHANGED <<Wanted(f), InSync(f), Torn(f)>>
      BY <2>1 DEF Wanted, Present, Excluded, InSync, Torn
    <3> DEFINE h == jobs[k].file
               read == [jobs[k] EXCEPT !.stage = "read", !.text = disk[h].text, !.as = disk[h].mtime]
               parsed == [jobs[k] EXCEPT !.stage = "parsed", !.mtime = disk[h].mtime]
    <3>3. \/ jobs'[k] = NoJob /\ ~Present(h)
          \/ jobs'[k] = read
          \/ jobs'[k] = parsed /\ jobs[k].stage = "read"
      BY <1>17, <1>t DEF ReadText, ReadMtime, Answer, TypeOK
    <3>4. jobs[k] \in Job /\ jobs[k].stage \in {"sent", "read"}
      BY <1>17, <1>t, SlotType DEF ReadText, ReadMtime
    <3>5. /\ read.file = h /\ read.stage = "read" /\ read.text = disk[h].text
          /\ parsed.file = h /\ parsed.stage = "parsed" /\ parsed.text = jobs[k].text
          /\ read.bulk = jobs[k].bulk /\ parsed.bulk = jobs[k].bulk
      BY <3>4 DEF Job
    <3>6. NoJob.file # f
      BY SyncAssumption DEF NoJob
    <3> HIDE DEF read, parsed
    <3>7. CASE h # f
      <4>1. jobs'[k].file # f
        BY <3>3, <3>5, <3>6, <3>7
      <4>2. UNCHANGED InJob(f)
        BY <3>1, <3>7, <4>1 DEF InJob
      <4> QED BY <2>1, <2>2, <3>1, <3>2, <4>1, <4>2 DEF Planned
    <3>8. CASE h = f
      <4>1. Wanted(f) /\ (jobs[k].stage = "read" => jobs[k].text = disk[f].text)
        BY <2>2, <2>4, <3>4, <3>8 DEF Planned
      <4>2. jobs'[k] \in {read, parsed} /\ (jobs'[k] = parsed /\ jobs'[k] # read => jobs[k].stage = "read")
        BY <3>3, <3>8, <4>1 DEF Wanted
      <4>3. /\ jobs'[k].bulk /\ jobs'[k].file = f /\ jobs'[k].stage \in {"read", "parsed"}
            /\ jobs'[k].text = disk[f].text
        BY <2>4, <3>5, <3>8, <4>1, <4>2
      <4>4. InJob(f)'
        BY <4>3 DEF InJob
      <4> QED BY <2>1, <2>2, <3>1, <3>2, <4>1, <4>3, <4>4 DEF Planned
    <3> QED BY <3>7, <3>8
  <2> QED BY <2>3, <2>4
<1>18. ASSUME NEW k \in 1..MaxJobs, Apply(k) PROVE Planned(f)'
  <2>1. Busy /\ UNCHANGED <<workspace, forced, toRemove, toIndex>>
    BY <1>18 DEF Apply
  <2>2. Planned(f)
    BY <2>1, <1>p
  <2>3. jobs[k].file # f \/ jobs[k].bulk
    BY <1>18 DEF Apply, Disturbs
  <2>4. jobs'[k] = NoJob /\ \A j \in 1..MaxJobs \ {k} : jobs'[j] = jobs[j]
    BY <1>18, <1>t DEF Apply, Answer, TypeOK
  <2>5. ~NoJob.bulk
    BY DEF NoJob
  <2>6. UNCHANGED <<Wanted(f), disk>>
    BY <2>1 DEF Wanted, Present, Excluded
  <2>7. CASE jobs[k].file # f
    <3>1. rows'[f] = rows[f]
      BY <1>18, <1>t, <2>7 DEF Apply, TypeOK
    <3>2. UNCHANGED <<InSync(f), Torn(f), InJob(f)>>
      BY <2>4, <2>5, <2>6, <2>7, <3>1 DEF InSync, Torn, InJob
    <3> QED BY <2>1, <2>2, <2>4, <2>5, <2>6, <3>2 DEF Planned
  <2>8. CASE jobs[k].file = f /\ jobs[k].bulk
    <3>1. /\ jobs[k].stage = "remove" <=> ~Wanted(f)
          /\ jobs[k].stage = "parsed" => jobs[k].text = disk[f].text
      BY <2>2, <2>8 DEF Planned
    <3>2. rows'[f] = IF jobs[k].stage = "remove" THEN NoRow
                     ELSE [text |-> jobs[k].text, mtime |-> jobs[k].mtime, as |-> jobs[k].as]
      BY <1>18, <1>t, <2>8 DEF Apply, TypeOK
    <3>3. InSync(f)'
      BY <1>18, <2>6, <3>1, <3>2 DEF Apply, InSync
    <3> QED BY <2>1, <2>2, <2>4, <2>5, <2>6, <3>3 DEF Planned
  <2> QED BY <2>3, <2>7, <2>8
<1>19. ASSUME RunFails PROVE Planned(f)'
  <2>1. f \in quiet /\ f \notin toRemove \cup toIndex /\ ~InJob(f)
    BY <1>19, <1>t DEF RunFails, BulkJobs, InJob, TypeOK
  <2>2. UNCHANGED <<workspace, rows, forced>> /\ toRemove' = {} /\ toIndex' = {}
    BY <1>19 DEF RunFails
  <2>3. phase # "finding"
    BY <2>1 DEF SyncInv, RunInv
  <2>4. Planned(f)
    BY <1>19, <1>p, <2>1, <2>3 DEF RunFails
  <2>5. UNCHANGED <<Wanted(f), InSync(f), Torn(f)>>
    BY <2>2 DEF Wanted, Present, Excluded, InSync, Torn
  <2>6. \A k \in 1..MaxJobs : ~(jobs'[k].bulk /\ jobs'[k].file = f)
    BY <1>19, <1>t, <2>1 DEF RunFails, InJob, TypeOK, NoJob
  <2> QED BY <2>1, <2>2, <2>4, <2>5, <2>6 DEF Planned
<1> QED BY <1>4, <1>5, <1>6, <1>7, <1>8, <1>9, <1>10, <1>11, <1>12, <1>13, <1>14, <1>15, <1>16,
           <1>17, <1>18, <1>19 DEF Next

----------------------------------------------------------------------------
(* The theorems.                                                              *)

LEMMA SyncInit == Init => SyncInv
<1> SUFFICES ASSUME Init PROVE SyncInv
  OBVIOUS
<1>1. TypeOK /\ StampInv
  BY TypeInit, StampInit
<1>2. FoundInv /\ PlanInv
  BY DEF Init, FoundInv, PlanInv
<1>3. RunInv
  BY DEF Init, RunInv, PostedInv, NoJob
<1> QED BY <1>1, <1>2, <1>3 DEF SyncInv

LEMMA SyncStep == SyncInv /\ [Next]_vars => SyncInv'
<1> SUFFICES ASSUME SyncInv, [Next]_vars PROVE SyncInv'
  OBVIOUS
<1>1. TypeOK /\ StampInv /\ FoundInv /\ RunInv
  BY DEF SyncInv
<1>2. TypeOK' /\ StampInv' /\ FoundInv' /\ RunInv'
  BY <1>1, TypeStep, StampStep, FoundStep, RunStep
<1> QED BY <1>2, PlanStep DEF SyncInv

LEMMA SyncInvariant == Spec => []SyncInv
<1>1. Init => SyncInv
  BY SyncInit
<1>2. SyncInv /\ [Next]_vars => SyncInv'
  BY SyncStep
<1> QED BY <1>1, <1>2, PTL DEF Spec

\* Rows, jobs and the workspace keep their types, the rules are those of the
\* settings in force, and a run is in a phase exactly while the runner holds it.
THEOREM SyncTypeCorrect == Spec => []TypeOK
<1>1. SyncInv => TypeOK
  BY DEF SyncInv
<1> QED BY <1>1, SyncInvariant, PTL

\* A run heals every file that it did not leave out and that nobody else touches
\* from findFiles on: it has the rows of its text, or those are on their way to the
\* writer, or it has none when the index leaves it out; but for torn rows when the
\* run is not a Rescan (doRunIndex).
THEOREM ScansHeal == Spec => []HealedByScan
<1>1. SyncInv => HealedByScan
  <2> SUFFICES ASSUME SyncInv, Over, NEW f \in quiet
               PROVE  InSync(f) \/ (Wanted(f) /\ OnItsWay(f)) \/ (Torn(f) /\ ~forced)
    BY DEF HealedByScan
  <2>1. Planned(f)
    BY DEF SyncInv, PlanInv, Over
  <2>2. toRemove = {} /\ toIndex = {} /\ PostedInv /\ DOMAIN jobs = 1..MaxJobs
    BY DEF SyncInv, RunInv, Over, TypeOK
  <2>3. ASSUME NEW k \in 1..MaxJobs, jobs[k].bulk, jobs[k].file = f
        PROVE  Wanted(f) /\ OnItsWay(f)
    <3>1. jobs[k].stage = "parsed"
      BY <2>2, <2>3 DEF PostedInv
    <3>2. Wanted(f) /\ jobs[k].text = disk[f].text
      BY <2>1, <2>3, <3>1 DEF Planned
    <3> QED BY <2>2, <2>3, <3>1, <3>2 DEF OnItsWay, Posted, BulkJobs
  <2> QED BY <2>1, <2>2, <2>3 DEF Planned, InJob
<1> QED BY <1>1, SyncInvariant, PTL
=============================================================================
