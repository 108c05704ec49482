------------------------------ MODULE IndexSync ------------------------------
(* What the rows say of the files: scans (doRunIndex with core/indexPlan.ts),  *)
(* the file watcher and live edits (extension.ts) against a workspace that     *)
(* changes under them. One run at a time, the latest asked for, is what the    *)
(* serial runner promises (LatestWins). A request to the pool is a job, and    *)
(* rows posted to the writer are applied in any order, also after the run that *)
(* asked for them: WorkerPool shows how. A text stands for its hash.           *)
EXTENDS Exclusion, Naturals

CONSTANTS
    Texts,          \* contents a file may have
    Settings,       \* values of cBlitz.include and cBlitz.exclude
    Hidden,         \* files that VS Code's own settings keep from findFiles
    FindMatches,    \* FindMatches[g]: files that findFiles leaves out for the glob g
    LossyWatcher,   \* notices may be lost: changes made while nobody watches
    NoFile, NoText,
    MaxRuns,        \* bound: runs asked for
    MaxClock,       \* bound: changes of mtimes, on disk or by live edits
    MaxJobs         \* bound: jobs in flight

ASSUME SyncAssumption ==
    /\ Settings \subseteq [include : Seq(Patterns), exclude : Seq(Patterns)]
    /\ Hidden \subseteq Paths /\ DOMAIN FindMatches = Patterns
    /\ NoFile \notin Paths /\ NoText \notin Texts
    /\ MaxRuns \in Nat /\ MaxClock \in Nat \ {0} /\ MaxJobs \in Nat

VARIABLES
    disk,           \* disk[f]: text and mtime, NoText when absent
    clock,          \* the last time stamp given
    settings, rules,    \* the settings, and what updateExclusions made of them
    notice,         \* notice[f]: the file event the watcher has not delivered
    slot,           \* the document whose debounced re-index is due
    rows,           \* rows[f]: the text indexed and the mtime stored with it
    jobs,           \* jobs[k]: a request to the pool whose rows are not applied yet;
                    \* bulk: of the run in progress, or of the last one
    orphans,        \* files that the parsers of a failed run are yet to take
    latest, running, ran,   \* of the runner
    force,          \* whether the latest run asked for is a Rescan
    phase,          \* of the run in progress
    forced,         \* whether the run in progress, or the last one, is a Rescan
    asked,          \* the settings doRunIndex read when it started
    found,          \* what findFiles answers
    toRemove, toIndex,      \* what is left of its plan
    stopRequested, canceled,
    quiet           \* history: files the run did not leave out and nobody else
                    \* touched since its findFiles looked

Runner == INSTANCE LatestWins

workspace == <<disk, clock, notice, settings, rules, slot>>
runVars == <<latest, running, ran, force>>
planVars == <<phase, forced, asked, found, toRemove, toIndex, stopRequested, canceled>>
vars == <<workspace, rows, jobs, orphans, runVars, planVars, quiet>>

Absent == [text |-> NoText, mtime |-> 0]
NoRow == [text |-> NoText, mtime |-> 0, as |-> 0]
NoJob == [stage |-> "none", file |-> NoFile, bulk |-> FALSE,
          text |-> NoText, mtime |-> 0, as |-> 0]
Phases == {"idle", "finding", "found", "removing", "parsing", "done"}
Stages == {"sent", "read", "parsed", "remove"}
Job == [stage : Stages, file : Paths, bulk : BOOLEAN,
        text : Texts \cup {NoText}, mtime : 0..MaxClock, as : 0..MaxClock]

TypeOK ==
    /\ disk \in [Paths -> [text : Texts \cup {NoText}, mtime : 0..MaxClock]]
    /\ clock \in 0..MaxClock
    /\ settings \in Settings /\ rules = RulesOf(settings)
    /\ notice \in [Paths -> {"none", "changed", "deleted"}]
    /\ slot \in Paths \cup {NoFile}
    /\ rows \in [Paths -> [text : Texts \cup {NoText}, mtime : 0..MaxClock, as : 0..MaxClock]]
    /\ jobs \in [1..MaxJobs -> Job \cup {NoJob}] /\ orphans \subseteq Paths
    /\ phase \in Phases /\ force \in BOOLEAN /\ forced \in BOOLEAN /\ asked \in Settings \cup {NoSettings}
    /\ found \subseteq Paths /\ toRemove \subseteq Paths /\ toIndex \subseteq Paths
    /\ stopRequested \in BOOLEAN /\ canceled \in BOOLEAN
    /\ quiet \subseteq Paths
    /\ running = {} <=> phase = "idle"

\* activate asks for the first run; the tables are empty before it.
Init ==
    /\ disk \in [Paths -> {Absent} \cup [text : Texts, mtime : {1}]]
    /\ clock = 1
    /\ settings \in Settings /\ rules = RulesOf(settings)
    /\ notice = [f \in Paths |-> "none"] /\ slot = NoFile
    /\ rows = [f \in Paths |-> NoRow]
    /\ jobs = [k \in 1..MaxJobs |-> NoJob] /\ orphans = {}
    /\ Runner!Init
    /\ force = FALSE /\ forced = FALSE /\ asked = NoSettings
    /\ phase = "idle" /\ found = {} /\ toRemove = {} /\ toIndex = {}
    /\ stopRequested = FALSE /\ canceled = FALSE
    /\ quiet = {}

Present(f) == disk[f].text # NoText
Excluded(f) == IsExcluded(rules, f)
Wanted(f) == Present(f) /\ ~Excluded(f)
BulkJobs == {k \in DOMAIN jobs : jobs[k].bulk}

Free == {k \in DOMAIN jobs : jobs[k].stage = "none"}
Post(stage, f, bulk, text, mtime) ==
    /\ Free # {}
    /\ jobs' = [jobs EXCEPT ![CHOOSE k \in Free : TRUE] =
                  [stage |-> stage, file |-> f, bulk |-> bulk,
                   text |-> text, mtime |-> mtime, as |-> 0]]

----------------------------------------------------------------------------
(* The workspace, the watcher and live edits.                                 *)

\* A save, a checkout or a touch: the file gets an mtime no file had before.
Change(f) ==
    /\ clock < MaxClock
    /\ clock' = clock + 1
    /\ \E t \in Texts : disk' = [disk EXCEPT ![f] = [text |-> t, mtime |-> clock + 1]]
    /\ notice' = [notice EXCEPT ![f] = "changed"]
    /\ quiet' = quiet \ {f}
    /\ UNCHANGED <<settings, rules, slot, rows, jobs, orphans, runVars, planVars>>

Delete(f) ==
    /\ Present(f)
    /\ disk' = [disk EXCEPT ![f] = Absent]
    /\ notice' = [notice EXCEPT ![f] = "deleted"]
    /\ quiet' = quiet \ {f}
    /\ UNCHANGED <<clock, settings, rules, slot, rows, jobs, orphans, runVars, planVars>>

\* onDidCreate, onDidChange: unless excluded now; onDidDelete: in any case.
Notified(f) ==
    /\ notice[f] # "none"
    /\ notice' = [notice EXCEPT ![f] = "none"]
    /\ \/ notice[f] = "changed" /\ ~Excluded(f) /\ Post("sent", f, FALSE, NoText, 0)
       \/ notice[f] = "changed" /\ Excluded(f) /\ UNCHANGED jobs
       \/ notice[f] = "deleted" /\ Post("remove", f, FALSE, NoText, 0)
       \/ LossyWatcher /\ UNCHANGED jobs
    /\ UNCHANGED <<disk, clock, settings, rules, slot, rows, orphans, runVars, planVars, quiet>>

\* onDidChangeTextDocument: one timer, the last document edited takes it over.
Edit(f) ==
    /\ Present(f) /\ slot # f
    /\ slot' = f
    /\ UNCHANGED <<disk, clock, settings, rules, notice, rows, jobs, orphans, runVars, planVars, quiet>>

\* An edit of a document outside the workspace takes the timer, too.
EditElsewhere ==
    /\ slot # NoFile
    /\ slot' = NoFile
    /\ UNCHANGED <<disk, clock, settings, rules, notice, rows, jobs, orphans, runVars, planVars, quiet>>

\* liveReindex, after the debounce: the text of the buffer, stored with Date.now().
\* The mutant stores the mtime of the file.
LiveMtime_OfFile(f) == disk[f].mtime
LiveMtime(f) == clock + 1
LiveReindex ==
    /\ slot # NoFile
    /\ slot' = NoFile
    /\ IF Excluded(slot)
       THEN UNCHANGED <<clock, jobs>>
       ELSE /\ clock < MaxClock
            /\ clock' = clock + 1
            /\ \E t \in Texts : Post("parsed", slot, FALSE, t, LiveMtime(slot))
    /\ UNCHANGED <<disk, settings, rules, notice, rows, orphans, runVars, planVars, quiet>>

\* pool.cancel: a parser clears the flag when it starts, so it counts while it works.
Cancel == canceled' = (canceled \/ phase = "parsing")

\* runIndex: the runner cancels the run in progress and keeps the request.
RunIndex(rescan) ==
    /\ Runner!Ask
    /\ force' = rescan
    /\ Cancel
    /\ UNCHANGED <<workspace, rows, jobs, orphans, phase, forced, asked, found, toRemove, toIndex,
                   stopRequested, quiet>>

\* onDidChangeConfiguration: updateExclusions and runIndex(false). The mutant keeps
\* the rules made before.
UpdateExclusions_Forgotten(s) == rules
UpdateExclusions(s) == RulesOf(s)
SettingsChange ==
    \E s \in Settings \ {settings} :
        /\ settings' = s
        /\ rules' = UpdateExclusions(s)
        /\ quiet' = {f \in quiet : IsExcluded(rules', f) = Excluded(f)}
        /\ Runner!Ask
        /\ force' = FALSE
        /\ Cancel
        /\ UNCHANGED <<disk, clock, notice, slot, rows, jobs, orphans, phase, forced, asked, found,
                       toRemove, toIndex, stopRequested>>

\* stopIndexing: only the bulk part of a run can be stopped.
StopIndexing ==
    /\ phase \in {"removing", "parsing"} /\ ~stopRequested
    /\ stopRequested' = TRUE
    /\ Cancel
    /\ UNCHANGED <<workspace, rows, jobs, orphans, runVars, phase, forced, asked, found, toRemove,
                   toIndex, quiet>>

----------------------------------------------------------------------------
(* doRunIndex.                                                                *)

\* A run takes its turn and awaits findFiles.
StartRun ==
    /\ Runner!Start
    /\ phase' = "finding"
    /\ forced' = force /\ asked' = settings
    /\ found' = {} /\ stopRequested' = FALSE
    /\ jobs' = [k \in DOMAIN jobs |-> [jobs[k] EXCEPT !.bulk = FALSE]]
    /\ quiet' = {}
    /\ UNCHANGED <<workspace, rows, orphans, force, toRemove, toIndex, canceled>>

\* What findFiles leaves out: what VS Code hides, and without includes what VS
\* Code takes the excludes for, by its own matcher.
FindExcludes(s, p) ==
    \/ p \in Hidden
    \/ s.include = << >> /\ \E i \in DOMAIN s.exclude : p \in FindMatches[s.exclude[i]]

\* findFiles looks at the workspace; its answer is on the way. The exclude glob
\* was made when the run started, from settings that may have changed since. The
\* run knows nothing of a file that findFiles hides and isExcluded admits.
FindFiles ==
    /\ phase = "finding"
    /\ phase' = "found"
    /\ found' = {f \in Paths : Present(f) /\ ~FindExcludes(asked, f)}
    /\ quiet' = {f \in Paths : /\ IsExcluded(RulesOf(asked), f) = Excluded(f)
                               /\ FindExcludes(asked, f) => Excluded(f)}
    /\ UNCHANGED <<workspace, rows, jobs, orphans, runVars, forced, asked, toRemove, toIndex,
                   stopRequested, canceled>>

\* computeIndexPlan on the files that pass isExcluded now, the rows of now and the
\* mtimes of now. With verifyContentHash a file that was only touched is skipped.
Unchanged(f, prev, verifyHash) ==
    /\ f \in prev
    /\ \/ rows[f].mtime = disk[f].mtime
       \/ verifyHash /\ Present(f) /\ rows[f].text = disk[f].text

\* readPrevMeta answers no rows at all when the database cannot be read.
MakePlan ==
    /\ phase = "found"
    /\ \E unread, verifyHash \in BOOLEAN :
        LET current == {f \in found : ~Excluded(f)}
            prev == IF unread THEN {} ELSE {f \in Paths : rows[f] # NoRow}
        IN /\ toIndex' = {f \in current : forced \/ ~Unchanged(f, prev, verifyHash)}
           /\ toRemove' = prev \ current
           /\ quiet' = IF unread THEN quiet \cap current ELSE quiet
    /\ phase' = IF toIndex' \cup toRemove' = {} THEN "done" ELSE "removing"
    /\ found' = {}
    /\ UNCHANGED <<workspace, rows, jobs, orphans, runVars, forced, asked, stopRequested, canceled>>

\* await pool.remove(p): one removal at a time.
RemoveNext(f) ==
    /\ phase = "removing" /\ ~stopRequested /\ BulkJobs = {}
    /\ f \in toRemove
    /\ toRemove' = toRemove \ {f}
    /\ Post("remove", f, TRUE, NoText, 0)
    /\ UNCHANGED <<workspace, rows, orphans, runVars, phase, forced, asked, found, toIndex,
                   stopRequested, canceled, quiet>>

Removed ==
    /\ phase = "removing" /\ BulkJobs = {}
    /\ stopRequested \/ toRemove = {}
    /\ IF stopRequested
       THEN toIndex' = {} /\ quiet' = quiet \ (toRemove \cup toIndex)
       ELSE UNCHANGED <<toIndex, quiet>>
    /\ phase' = IF toIndex' = {} THEN "done" ELSE "parsing"
    /\ canceled' = FALSE /\ toRemove' = {}
    /\ UNCHANGED <<workspace, rows, jobs, orphans, runVars, forced, asked, found, stopRequested>>

\* pool.indexAll: a parser takes its next file, unless it has seen the cancel.
ParseNext(f) ==
    /\ phase = "parsing" /\ f \in toIndex
    /\ toIndex' = toIndex \ {f}
    /\ Post("sent", f, TRUE, NoText, 0)
    /\ UNCHANGED <<workspace, rows, orphans, runVars, phase, forced, asked, found, toRemove,
                   stopRequested, canceled, quiet>>

SeeCancel ==
    /\ phase = "parsing" /\ canceled /\ toIndex # {}
    /\ toIndex' = {} /\ quiet' = quiet \ toIndex
    /\ UNCHANGED <<workspace, rows, jobs, orphans, runVars, phase, forced, asked, found, toRemove,
                   stopRequested, canceled>>

\* Every parser has posted its last rows, and flush and the finish are answered:
\* they overtake rows that are still on a parser's port.
Posted(k) == jobs[k].stage = "parsed"
Parsed ==
    /\ phase = "parsing" /\ toIndex = {} /\ \A k \in BulkJobs : Posted(k)
    /\ phase' = "done"
    /\ UNCHANGED <<workspace, rows, jobs, orphans, runVars, forced, asked, found, toRemove,
                   toIndex, stopRequested, canceled, quiet>>

\* findFiles, a removal, a parser or a flush rejects. What failed may be lost; the
\* other parsers go on with their files.
RunFails ==
    /\ phase \in {"finding", "removing", "parsing"}
    /\ phase' = "done"
    /\ toRemove' = {} /\ toIndex' = {}
    /\ quiet' = quiet \ (toRemove \cup toIndex \cup {jobs[k].file : k \in BulkJobs})
    /\ \E lost \in SUBSET BulkJobs :
          jobs' = [k \in DOMAIN jobs |-> IF k \in lost THEN NoJob ELSE jobs[k]]
    /\ \E left \in SUBSET toIndex :
          orphans' = IF phase = "parsing" THEN orphans \cup left ELSE orphans
    /\ UNCHANGED <<workspace, rows, runVars, forced, asked, found, stopRequested, canceled>>

OrphanNext(f) ==
    /\ f \in orphans
    /\ orphans' = orphans \ {f}
    /\ Post("sent", f, FALSE, NoText, 0)
    /\ UNCHANGED <<workspace, rows, runVars, planVars, quiet>>

EndRun ==
    /\ phase = "done"
    /\ Runner!End
    /\ phase' = "idle" /\ toIndex' = {}
    /\ asked' = NoSettings /\ canceled' = FALSE
    /\ UNCHANGED <<workspace, rows, jobs, orphans, force, forced, found, toRemove, stopRequested,
                   quiet>>

----------------------------------------------------------------------------
(* Jobs: indexOne and the writer.                                             *)

Answer(k) == jobs' = [jobs EXCEPT ![k] = NoJob]

\* readFileSync, then statSync; a file that is gone is left alone.
ReadText(k) ==
    /\ jobs[k].stage = "sent"
    /\ LET f == jobs[k].file IN
        IF Present(f)
        THEN jobs' = [jobs EXCEPT ![k] = [@ EXCEPT !.stage = "read", !.text = disk[f].text,
                                                   !.as = disk[f].mtime]]
        ELSE Answer(k)
    /\ UNCHANGED <<workspace, rows, orphans, runVars, planVars, quiet>>

ReadMtime(k) ==
    /\ jobs[k].stage = "read"
    /\ LET f == jobs[k].file IN
        IF Present(f)
        THEN jobs' = [jobs EXCEPT ![k] = [@ EXCEPT !.stage = "parsed", !.mtime = disk[f].mtime]]
        ELSE Answer(k)
    /\ UNCHANGED <<workspace, rows, orphans, runVars, planVars, quiet>>

\* The writer applies a parse or a removal. Whoever else touches the rows of a
\* file after the plan was made disturbs the run: the watcher, a live edit, late
\* rows of an earlier run.
Disturbs(k) == ~jobs[k].bulk /\ phase \notin {"finding", "found"}
Apply(k) ==
    /\ jobs[k].stage \in {"parsed", "remove"}
    /\ rows' = [rows EXCEPT ![jobs[k].file] =
                  IF jobs[k].stage = "remove" THEN NoRow
                  ELSE [text |-> jobs[k].text, mtime |-> jobs[k].mtime, as |-> jobs[k].as]]
    /\ Answer(k)
    /\ quiet' = IF Disturbs(k) THEN quiet \ {jobs[k].file} ELSE quiet
    /\ UNCHANGED <<workspace, orphans, runVars, planVars>>

Next ==
    \/ \E f \in Paths : Change(f) \/ Delete(f) \/ Notified(f) \/ Edit(f)
    \/ EditElsewhere \/ LiveReindex \/ SettingsChange \/ StopIndexing
    \/ \E rescan \in BOOLEAN : RunIndex(rescan)
    \/ StartRun \/ FindFiles \/ MakePlan
    \/ \E f \in Paths : RemoveNext(f) \/ ParseNext(f)
    \/ Removed \/ SeeCancel \/ Parsed \/ RunFails \/ EndRun
    \/ \E f \in Paths : OrphanNext(f)
    \/ \E k \in 1..MaxJobs : ReadText(k) \/ ReadMtime(k) \/ Apply(k)

Spec == Init /\ [][Next]_vars

----------------------------------------------------------------------------
(* Properties.                                                                *)

\* The rows of f are those of the file, or absent when the index leaves it out.
InSync(f) == IF Wanted(f) THEN rows[f].text = disk[f].text ELSE rows[f] = NoRow

\* The mtime stored with the rows of f is younger than the text they were made of.
Torn(f) == rows[f] # NoRow /\ rows[f].as # 0 /\ rows[f].as # rows[f].mtime

\* Rows of f with its text are posted by the run and not applied yet.
OnItsWay(f) ==
    \E k \in BulkJobs : Posted(k) /\ jobs[k].file = f /\ jobs[k].text = disk[f].text

Over == phase \in {"done", "idle"}

\* A run heals every file that it did not leave out when it was stopped,
\* superseded or failed, and that nobody else touches from findFiles on, for as
\* long as nobody does: whatever the watcher missed, whatever was written out of
\* order or from a buffer before, an included file has the rows of its text, or
\* they are the ones on their way to the writer, and an excluded or deleted file
\* has none. A torn read survives all scans but a Rescan (doRunIndex,
\* computeIndexPlan).
HealedByScan ==
    Over => \A f \in quiet :
        InSync(f) \/ (Wanted(f) /\ OnItsWay(f)) \/ (Torn(f) /\ ~forced)

\* Nothing about f is on its way to the index.
AtRest(f) == notice[f] = "none" /\ slot # f /\ \A k \in DOMAIN jobs : jobs[k].file # f

\* The scan skips a file with the stored mtime as `untouched since last index'
\* (indexPlan.ts): so once it ends and the watcher has caught up, no such file has
\* rows of another text.
SkippedIsUntouched == Over => \A f \in quiet : AtRest(f) => InSync(f)
=============================================================================
