----------------------------- MODULE SkillImport -----------------------------
(***************************************************************************)
(* SkillImporter (backend/app/skill/importer.py): imports and exports as   *)
(* tasks of one event loop, which are started, cancelled and forgotten     *)
(* while they run.                                                         *)
(*                                                                         *)
(* A task runs until it awaits the skill manager, the progress callback or *)
(* the tasks of its files.  Reading and parsing are not awaited.  An       *)
(* import of YAML, JSON or CSV has one file, with some skills in it; of    *)
(* a directory or ZIP it has several, all of which fail: _parse_content    *)
(* knows neither format, and the files of a ZIP are gone when they are     *)
(* read.  The event manager raises on the arguments the importer gives it, *)
(* or takes them: after the last change of state either way, so that a     *)
(* started import may return None.  Results and messages are left out.     *)
(***************************************************************************)
EXTENDS Integers, FiniteSets

CONSTANTS
    MaxJobs,     \* bound: jobs, numbered in the order they are started
    Kind,        \* "import" or "export"
    SkipInvalid, \* ImportConfig.skip_invalid of each import
    MaxFiles,    \* bound: files of a directory
    MaxSkills    \* bound: skills in a file, or to be exported

Jobs == 1..MaxJobs

ASSUME ImportConstants ==
    /\ MaxJobs \in Nat
    /\ Kind \in [Jobs -> {"import", "export"}]
    /\ SkipInvalid \in [Jobs -> BOOLEAN]
    /\ MaxFiles \in Nat /\ MaxSkills \in Nat

VARIABLES
    started,   \* how many jobs were ever started
    results,   \* import_results and export_results: those that are kept
    active,    \* active_imports and active_exports
    ended,     \* jobs whose result has an end_time
    task,      \* the task of each job
    tally,     \* the counters of its result
    cancelled, \* history: what cancel_import or cancel_export was called for
    cleaned    \* history: what was cleaned up before it was over

vars == <<started, results, active, ended, task, tally, cancelled, cleaned>>

\* left: skills or files not begun; cancel: CancelledError is to be thrown
TaskState == [at : {"none", "ready", "calling", "progress", "gathering", "over"},
              left : Nat, cancel : BOOLEAN]
NoTask == [at |-> "none", left |-> 0, cancel |-> FALSE]
Counters == [total : Nat, processed : Nat, successful : Nat, failed : Nat, skipped : Nat]
NoCounts == [total |-> 0, processed |-> 0, successful |-> 0, failed |-> 0, skipped |-> 0]

TypeOK ==
    /\ started \in 0..MaxJobs
    /\ results \subseteq 1..started /\ active \subseteq 1..started /\ ended \subseteq 1..started
    /\ task \in [Jobs -> TaskState]
    /\ tally \in [Jobs -> Counters]
    /\ cancelled \subseteq 1..started /\ cleaned \subseteq 1..started

Init ==
    /\ started = 0
    /\ results = {} /\ active = {} /\ ended = {}
    /\ task = [j \in Jobs |-> NoTask]
    /\ tally = [j \in Jobs |-> NoCounts]
    /\ cancelled = {} /\ cleaned = {}

Live(j) == task[j].at \notin {"none", "over"}

-----------------------------------------------------------------------------
(* Starting, cancelling, cleaning up *)

\* import_skills and export_skills
Start(j) ==
    /\ j = started + 1
    /\ started' = j
    /\ results' = results \cup {j}
    /\ active' = active \cup {j}
    /\ task' = [task EXCEPT ![j].at = "ready"]
    /\ UNCHANGED <<ended, tally, cancelled, cleaned>>

\* the result gets its end_time at once; the task is told, if it still runs
CancelMarks(j) ==
    /\ j \in active
    /\ ended' = IF j \in results THEN ended \cup {j} ELSE ended
    /\ cancelled' = cancelled \cup {j}
    /\ UNCHANGED <<started, results, active, task, tally, cleaned>>
Cancel(j) ==
    /\ j \in active
    /\ task' = [task EXCEPT ![j].cancel = Live(j)]
    /\ ended' = IF j \in results THEN ended \cup {j} ELSE ended
    /\ cancelled' = cancelled \cup {j}
    /\ UNCHANGED <<started, results, active, tally, cleaned>>

\* cleanup_old_results drops what was started up to some moment
CleanupOldResults(last) ==
    /\ results' = {j \in results : j > last}
    /\ cleaned' = cleaned \cup {j \in results : j <= last /\ Live(j)}
    /\ UNCHANGED <<started, active, ended, task, tally, cancelled>>

-----------------------------------------------------------------------------
(* The tasks *)

Runs(j, at) == task[j].at = at /\ ~task[j].cancel
Over(j) == task' = [task EXCEPT ![j].at = "over", ![j].left = 0]
Awaits(j, at, left) == task' = [task EXCEPT ![j].at = at, ![j].left = left]

\* CancelledError is no Exception: nothing is finalised
CancelTakesEffect(j) ==
    /\ Live(j) /\ task[j].cancel
    /\ Over(j)
    /\ UNCHANGED <<started, results, active, ended, tally, cancelled, cleaned>>

\* _finalize_import and _finalize_export; a result that was cleaned up raises
\* KeyError, in the handler of the exception once more
Finalize(j) ==
    /\ Over(j)
    /\ IF j \in results
       THEN ended' = ended \cup {j} /\ active' = active \ {j}
       ELSE UNCHANGED <<ended, active>>

Counts(j, c) == tally' = [tally EXCEPT ![j] = c]

\* _process_skill_data for the skills left: those that are not valid are
\* counted at once, the next valid one awaits the skill manager; then the
\* progress callback is awaited, if there is one
GoesThrough(j, left, c) ==
    \E bad \in 0..left :
        LET counted == IF SkipInvalid[j] THEN [c EXCEPT !.skipped = @ + bad]
                       ELSE [c EXCEPT !.failed = @ + bad]
        IN  /\ Counts(j, counted)
            /\ IF bad < left
               THEN Awaits(j, "calling", left - bad - 1) /\ UNCHANGED <<ended, active>>
               ELSE \/ Awaits(j, "progress", 0) /\ UNCHANGED <<ended, active>>
                    \/ Finalize(j)

\* the same without a result: KeyError for the next skill fails the file
Stumbles(j, left, c) ==
    IF left = 0 THEN GoesThrough(j, 0, c)
    ELSE Counts(j, [c EXCEPT !.failed = @ + 1]) /\ Finalize(j)

\* nothing is found, or the search raises
BeginNothingUnsaid(j) == Counts(j, tally[j]) /\ Over(j) /\ UNCHANGED <<ended, active>>
BeginNothing(j) == Counts(j, tally[j]) /\ Finalize(j)

\* files that cannot be read or parsed, one after the other
BeginBadFiles(j, files) ==
    /\ Counts(j, [tally[j] EXCEPT !.total = files, !.processed = files, !.failed = files])
    /\ Finalize(j)

\* or each in a task of its own
BeginGathering(j, files) ==
    /\ files > 1
    /\ Counts(j, [tally[j] EXCEPT !.total = files])
    /\ Awaits(j, "gathering", files)
    /\ UNCHANGED <<ended, active>>

BeginFile(j, skills) ==
    GoesThrough(j, skills, [tally[j] EXCEPT !.total = 1, !.processed = 1])

\* the first stretch of _execute_import
ExecuteImport(j) ==
    /\ Runs(j, "ready") /\ Kind[j] = "import"
    /\ IF j \notin results
       THEN Over(j) /\ UNCHANGED <<ended, active, tally>>
       ELSE \/ BeginNothing(j)
            \/ \E files \in 1..MaxFiles : BeginBadFiles(j, files) \/ BeginGathering(j, files)
            \/ \E skills \in 0..MaxSkills : BeginFile(j, skills)
    /\ UNCHANGED <<started, results, cancelled, cleaned>>

\* create_skill or update_skill has returned a skill, or nothing, or raised
SkillManagerReturns(j) ==
    /\ Runs(j, "calling") /\ Kind[j] = "import"
    /\ \E c \in {[tally[j] EXCEPT !.successful = @ + 1], [tally[j] EXCEPT !.failed = @ + 1]} :
         IF j \in results THEN GoesThrough(j, task[j].left, c)
                          ELSE Stumbles(j, task[j].left, c)
    /\ UNCHANGED <<started, results, cancelled, cleaned>>

\* on_import_progress has returned, or raised, which fails the file
ProgressReturns(j) ==
    /\ Runs(j, "progress")
    /\ \E raised \in 0..1 : Counts(j, [tally[j] EXCEPT !.failed = @ + raised])
    /\ Finalize(j)
    /\ UNCHANGED <<started, results, cancelled, cleaned>>

\* the task of one of the files; without a result gather raises at once
GatherFile(j) ==
    /\ Runs(j, "gathering") /\ task[j].left > 0
    /\ IF j \in results
       THEN /\ Counts(j, [tally[j] EXCEPT !.processed = @ + 1, !.failed = @ + 1])
            /\ Awaits(j, "gathering", task[j].left - 1)
            /\ UNCHANGED <<ended, active>>
       ELSE Finalize(j) /\ UNCHANGED tally
    /\ UNCHANGED <<started, results, cancelled, cleaned>>
GatherAnyDone(j) ==
    /\ Runs(j, "gathering")
    /\ Finalize(j)
    /\ UNCHANGED <<started, results, tally, cancelled, cleaned>>
GatherDone(j) ==
    /\ Runs(j, "gathering") /\ task[j].left = 0
    /\ Finalize(j)
    /\ UNCHANGED <<started, results, tally, cancelled, cleaned>>

\* _execute_export asks the manager for one skill after the other, writes the
\* file, or fails to, without a suspension, and counts what it found
Export(j, left, found) ==
    IF left > 0
    THEN /\ Counts(j, [tally[j] EXCEPT !.processed = found])
         /\ Awaits(j, "calling", left - 1)
         /\ UNCHANGED <<ended, active>>
    ELSE /\ \E written \in {0, found} :
              Counts(j, [tally[j] EXCEPT !.processed = found, !.successful = written])
         /\ Finalize(j)
ExecuteExport(j) ==
    /\ Runs(j, "ready") /\ Kind[j] = "export"
    /\ IF j \notin results
       THEN Over(j) /\ UNCHANGED <<ended, active, tally>>
       ELSE \E skills \in 0..MaxSkills : Export(j, skills, 0)
    /\ UNCHANGED <<started, results, cancelled, cleaned>>
SkillFound(j) ==
    /\ Runs(j, "calling") /\ Kind[j] = "export"
    /\ \/ \E found \in 0..1 : Export(j, task[j].left, tally[j].processed + found)
       \/ Finalize(j) /\ UNCHANGED tally
    /\ UNCHANGED <<started, results, cancelled, cleaned>>

-----------------------------------------------------------------------------
TaskStep(j) ==
    \/ CancelTakesEffect(j)
    \/ ExecuteImport(j) \/ SkillManagerReturns(j) \/ ProgressReturns(j)
    \/ GatherFile(j) \/ GatherDone(j)
    \/ ExecuteExport(j) \/ SkillFound(j)

Next ==
    \/ \E j \in Jobs : Start(j) \/ Cancel(j) \/ TaskStep(j)
    \/ \E last \in Jobs : CleanupOldResults(last)

Spec == Init /\ [][Next]_vars

\* the loop runs what is ready; the skill manager and the callback return
FairSpec == Spec /\ \A j \in Jobs : WF_vars(TaskStep(j))

-----------------------------------------------------------------------------
(* Properties *)

\* Every job that runs can be cancelled, and what is still listed as active
\* does run, was cancelled, or lost its result while it ran.  A job that has
\* left the list has its end_time, and an import that ended by itself has
\* looked at every file it found.  (active_imports, total_files.)
JobsAreAccounted ==
    \A j \in 1..started :
        /\ Live(j) => j \in active
        /\ j \in active /\ ~Live(j) => j \in cancelled \cup cleaned
        /\ j \notin active =>
             /\ j \in ended
             /\ Kind[j] = "import" => tally[j].processed = tally[j].total

\* What a caller finds in a result with an end_time is final: no counter moves
\* once a job has ended or cancel_import has returned.
EndIsFinal == [][\A j \in ended : tally'[j] = tally[j]]_vars

\* Every import and export that nobody cancels, and whose result nobody cleans
\* up, ends and leaves the active ones, whatever the skill manager, the files
\* and the progress callback do.
EveryJobEnds ==
    \A j \in Jobs : j \in active ~>
        \/ j \in ended /\ j \notin active
        \/ j \in cancelled \cup cleaned
=============================================================================
