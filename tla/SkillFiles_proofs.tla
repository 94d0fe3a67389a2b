------------------------- MODULE SkillFiles_proofs -------------------------
(***************************************************************************)
(* Theorems about the two components that read and write files of skills:  *)
(* SkillImport, for any number of jobs, files and skills, and SkillEditor, *)
(* for any number of sessions, users, files and openings under way.        *)
(***************************************************************************)
EXTENDS SkillImport, SkillEditor, TLAPS

-----------------------------------------------------------------------------
(* SkillImport: the inductive invariant *)

\* a job that was not started yet has done nothing, one that was has a task
StartedHaveTasks ==
    \A j \in Jobs : IF j <= started THEN task[j].at # "none"
                    ELSE task[j] = NoTask /\ tally[j] = NoCounts

\* what interferes with a running job is on record
InterferenceIsKnown ==
    \A j \in Jobs :
        /\ Live(j) /\ j \in ended => task[j].cancel
        /\ task[j].cancel => j \in cancelled
        /\ Live(j) /\ j \notin results => j \in cleaned

\* at each suspension, the files of an import looked at so far
FilesSoFar ==
    \A j \in Jobs :
        /\ task[j].at = "ready" => tally[j] = NoCounts
        /\ \/ task[j].at = "progress"
           \/ task[j].at = "calling" /\ Kind[j] = "import"
           => tally[j].processed = tally[j].total
        /\ task[j].at = "gathering" => tally[j].processed + task[j].left = tally[j].total

IInv == TypeOK /\ JobsAreAccounted /\ StartedHaveTasks /\ InterferenceIsKnown /\ FilesSoFar

-----------------------------------------------------------------------------
(* What every step of a task comes to *)

Suspends(j, c) ==
    \E at \in {"calling", "progress", "gathering"}, left \in Nat :
        /\ task' = [task EXCEPT ![j] = [at |-> at, left |-> left, cancel |-> task[j].cancel]]
        /\ \/ at = "progress"
           \/ at = "calling" /\ Kind[j] = "import"
           => c.processed = c.total
        /\ at = "gathering" => c.processed + left = c.total
        /\ UNCHANGED <<ended, active>>

Ends(j, c) ==
    /\ task' = [task EXCEPT ![j] = [at |-> "over", left |-> 0, cancel |-> task[j].cancel]]
    /\ IF j \in results
       THEN /\ ended' = ended \cup {j} /\ active' = active \ {j}
            /\ Kind[j] = "import" => c.processed = c.total
       ELSE UNCHANGED <<ended, active>>

Moves(j) ==
    /\ Live(j) /\ ~task[j].cancel
    /\ UNCHANGED <<started, results, cancelled, cleaned>>
    /\ \E c \in Counters :
         /\ tally' = [tally EXCEPT ![j] = c]
         /\ Suspends(j, c) \/ Ends(j, c)

\* Awaiting keeps the flag of the cancellation.
LEMMA AwaitsIs ==
    ASSUME TypeOK, NEW j \in Jobs, NEW at, NEW left, Awaits(j, at, left)
    PROVE  task' = [task EXCEPT ![j] = [at |-> at, left |-> left, cancel |-> task[j].cancel]]
<1>1. task \in [Jobs -> TaskState] /\ task[j] \in TaskState
  BY DEF TypeOK
<1>2. [[task[j] EXCEPT !.at = at] EXCEPT !.left = left]
        = [at |-> at, left |-> left, cancel |-> task[j].cancel]
  <2>1. PICK a, l, c : task[j] = [at |-> a, left |-> l, cancel |-> c]
    BY <1>1 DEF TaskState
  <2>2. [task[j] EXCEPT !.at = at] = [at |-> at, left |-> l, cancel |-> c]
    BY <2>1
  <2>3. [[at |-> at, left |-> l, cancel |-> c] EXCEPT !.left = left]
          = [at |-> at, left |-> left, cancel |-> c]
    OBVIOUS
  <2> QED
    BY <2>1, <2>2, <2>3
<1>3. task' = [task EXCEPT ![j] = [[task[j] EXCEPT !.at = at] EXCEPT !.left = left]]
  BY <1>1 DEF Awaits, TaskState
<1> QED
  BY <1>2, <1>3

\* Ending does, too.
LEMMA OverIs ==
    ASSUME TypeOK, NEW j \in Jobs, Over(j)
    PROVE  task' = [task EXCEPT ![j] = [at |-> "over", left |-> 0, cancel |-> task[j].cancel]]
  BY AwaitsIs DEF Over, Awaits

\* Finalising ends a job, whose files have all been looked at if it is an import.
LEMMA FinalizeEnds ==
    ASSUME TypeOK, NEW j \in Jobs, NEW c, Finalize(j),
           j \in results /\ Kind[j] = "import" => c.processed = c.total
    PROVE  Ends(j, c)
  BY OverIs DEF Finalize, Ends

\* The skills of a file move an import to its next suspension or to its end,
\* and leave the counts of its files alone.
LEMMA GoesThroughMoves ==
    ASSUME TypeOK, NEW j \in Jobs, NEW left \in Nat, NEW c \in Counters,
           c.processed = c.total, GoesThrough(j, left, c)
    PROVE  \E d \in Counters : tally' = [tally EXCEPT ![j] = d]
                               /\ (Suspends(j, d) \/ Ends(j, d))
<1>1. PICK bad \in 0..left :
        LET d == IF SkipInvalid[j] THEN [c EXCEPT !.skipped = @ + bad]
                 ELSE [c EXCEPT !.failed = @ + bad]
        IN  /\ tally' = [tally EXCEPT ![j] = d]
            /\ IF bad < left
               THEN Awaits(j, "calling", left - bad - 1) /\ UNCHANGED <<ended, active>>
               ELSE \/ Awaits(j, "progress", 0) /\ UNCHANGED <<ended, active>>
                    \/ Finalize(j)
  BY DEF GoesThrough, Counts
<1> DEFINE d == IF SkipInvalid[j] THEN [c EXCEPT !.skipped = @ + bad]
                ELSE [c EXCEPT !.failed = @ + bad]
<1>2. bad \in Nat
  OBVIOUS
<1>3. d \in Counters /\ d.processed = d.total
  BY <1>2 DEF Counters
<1>4. tally' = [tally EXCEPT ![j] = d]
  BY <1>1
<1>5. Suspends(j, d) \/ Ends(j, d)
  <2>1. CASE bad < left
    <3>1. Awaits(j, "calling", left - bad - 1) /\ UNCHANGED <<ended, active>>
      BY <1>1, <2>1
    <3>2. left - bad - 1 \in Nat
      BY <2>1, <1>2
    <3> HIDE DEF d
    <3> QED
      BY <1>3, <3>1, <3>2, AwaitsIs DEF Suspends
  <2>2. CASE ~(bad < left)
    <3>1. CASE Awaits(j, "progress", 0) /\ UNCHANGED <<ended, active>>
      <4> HIDE DEF d
      <4> QED
        BY <1>3, <3>1, AwaitsIs DEF Suspends
    <3>2. CASE Finalize(j)
      <4> HIDE DEF d
      <4> QED
        BY <1>3, <3>2, FinalizeEnds
    <3> QED
      BY <1>1, <2>2, <3>1, <3>2
  <2> QED
    BY <2>1, <2>2
<1> HIDE DEF d
<1> QED
  BY <1>3, <1>4, <1>5

\* The search for files, the reading of files and the tasks of a directory.
LEMMA ExecuteImportMoves ==
    ASSUME IInv, NEW j \in Jobs, ExecuteImport(j)
    PROVE  Moves(j)
<1>1. TypeOK /\ tally[j] \in Counters /\ tally[j] = NoCounts
  BY DEF IInv, TypeOK, FilesSoFar, ExecuteImport, Runs
<1>2. Live(j) /\ ~task[j].cancel /\ UNCHANGED <<started, results, cancelled, cleaned>>
  BY DEF ExecuteImport, Runs, Live
<1>3. MaxFiles \in Nat /\ MaxSkills \in Nat
  BY ImportConstants
<1>4. tally = [tally EXCEPT ![j] = tally[j]]
  BY <1>1 DEF TypeOK
<1> SUFFICES \E c \in Counters : tally' = [tally EXCEPT ![j] = c]
                                 /\ (Suspends(j, c) \/ Ends(j, c))
  BY <1>2 DEF Moves
<1>5. CASE j \notin results
  <2>1. Over(j) /\ UNCHANGED <<ended, active, tally>>
    BY <1>5 DEF ExecuteImport
  <2> QED
    BY <2>1, <1>1, <1>4, <1>5, OverIs DEF Ends
<1>6. CASE j \in results /\ BeginNothing(j)
  <2>1. tally' = [tally EXCEPT ![j] = tally[j]] /\ Finalize(j)
    BY <1>6 DEF BeginNothing, Counts
  <2>2. tally[j].processed = tally[j].total
    BY <1>1 DEF NoCounts
  <2> QED
    BY <2>1, <2>2, <1>1, FinalizeEnds
<1>7. ASSUME NEW found \in 1..MaxFiles, BeginBadFiles(j, found)
      PROVE  \E c \in Counters : tally' = [tally EXCEPT ![j] = c] /\ Ends(j, c)
  <2> DEFINE c == [tally[j] EXCEPT !.total = found, !.processed = found, !.failed = found]
  <2>1. found \in Nat
    BY <1>3
  <2>2. c \in Counters /\ c.processed = c.total
    BY <2>1, <1>1 DEF Counters
  <2>3. tally' = [tally EXCEPT ![j] = c] /\ Finalize(j)
    BY <1>7 DEF BeginBadFiles, Counts
  <2> HIDE DEF c
  <2> QED
    BY <1>1, <2>2, <2>3, FinalizeEnds
<1>8. ASSUME NEW found \in 1..MaxFiles, BeginGathering(j, found)
      PROVE  \E c \in Counters : tally' = [tally EXCEPT ![j] = c] /\ Suspends(j, c)
  <2> DEFINE c == [tally[j] EXCEPT !.total = found]
  <2>1. found \in Nat
    BY <1>3
  <2>2. c \in Counters /\ c.processed + found = c.total
    BY <2>1, <1>1 DEF Counters, NoCounts
  <2>3. /\ tally' = [tally EXCEPT ![j] = c]
        /\ Awaits(j, "gathering", found) /\ UNCHANGED <<ended, active>>
    BY <1>8 DEF BeginGathering, Counts
  <2> HIDE DEF c
  <2> QED
    BY <1>1, <2>1, <2>2, <2>3, AwaitsIs DEF Suspends
<1>9. ASSUME NEW skills \in 0..MaxSkills, BeginFile(j, skills)
      PROVE  \E c \in Counters : tally' = [tally EXCEPT ![j] = c]
                                 /\ (Suspends(j, c) \/ Ends(j, c))
  <2> DEFINE c == [tally[j] EXCEPT !.total = 1, !.processed = 1]
  <2>1. skills \in Nat
    BY <1>3
  <2>2. c \in Counters /\ c.processed = c.total
    BY <1>1 DEF Counters
  <2>3. GoesThrough(j, skills, c)
    BY <1>9 DEF BeginFile
  <2> HIDE DEF c
  <2> QED
    BY <1>1, <2>1, <2>2, <2>3, GoesThroughMoves
<1> QED
  BY <1>5, <1>6, <1>7, <1>8, <1>9 DEF ExecuteImport

\* The skill manager's answer for one skill.
LEMMA SkillManagerReturnsMoves ==
    ASSUME IInv, NEW j \in Jobs, SkillManagerReturns(j)
    PROVE  Moves(j)
<1>1. TypeOK /\ tally[j] \in Counters /\ task[j].left \in Nat
  BY DEF IInv, TypeOK, TaskState
<1>2. Live(j) /\ ~task[j].cancel /\ UNCHANGED <<started, results, cancelled, cleaned>>
  BY DEF SkillManagerReturns, Runs, Live
<1>3. tally[j].processed = tally[j].total
  BY DEF IInv, FilesSoFar, SkillManagerReturns, Runs
<1> SUFFICES \E c \in Counters : tally' = [tally EXCEPT ![j] = c]
                                 /\ (Suspends(j, c) \/ Ends(j, c))
  BY <1>2 DEF Moves
<1>4. PICK c \in {[tally[j] EXCEPT !.successful = @ + 1], [tally[j] EXCEPT !.failed = @ + 1]} :
        IF j \in results THEN GoesThrough(j, task[j].left, c)
                         ELSE Stumbles(j, task[j].left, c)
  BY DEF SkillManagerReturns
<1>5. c \in Counters /\ c.processed = c.total
  BY <1>1, <1>3 DEF Counters
<1>6. CASE GoesThrough(j, task[j].left, c)
  BY <1>1, <1>5, <1>6, GoesThroughMoves
<1>7. CASE j \notin results /\ Stumbles(j, task[j].left, c)
  <2>1. CASE task[j].left = 0
    BY <1>1, <1>5, <1>7, <2>1, GoesThroughMoves DEF Stumbles
  <2>2. CASE task[j].left # 0
    <3> DEFINE d == [c EXCEPT !.failed = @ + 1]
    <3>1. d \in Counters
      BY <1>5 DEF Counters
    <3>2. tally' = [tally EXCEPT ![j] = d] /\ Finalize(j)
      BY <1>7, <2>2 DEF Stumbles, Counts
    <3> HIDE DEF d
    <3> QED
      BY <1>1, <1>7, <3>1, <3>2, FinalizeEnds
  <2> QED
    BY <2>1, <2>2
<1> QED
  BY <1>4, <1>6, <1>7

\* The progress callback and the tasks of files.
LEMMA FileStepMoves ==
    ASSUME IInv, NEW j \in Jobs, ProgressReturns(j) \/ GatherFile(j) \/ GatherDone(j)
    PROVE  Moves(j)
<1>1. TypeOK /\ tally[j] \in Counters /\ task[j].left \in Nat
  BY DEF IInv, TypeOK, TaskState
<1>2. Live(j) /\ ~task[j].cancel /\ UNCHANGED <<started, results, cancelled, cleaned>>
  BY DEF ProgressReturns, GatherFile, GatherDone, Runs, Live
<1>3. tally = [tally EXCEPT ![j] = tally[j]]
  BY <1>1 DEF TypeOK
<1> SUFFICES \E c \in Counters : tally' = [tally EXCEPT ![j] = c]
                                 /\ (Suspends(j, c) \/ Ends(j, c))
  BY <1>2 DEF Moves
<1>4. CASE ProgressReturns(j)
  <2>1. PICK raised \in 0..1 :
          tally' = [tally EXCEPT ![j] = [tally[j] EXCEPT !.failed = @ + raised]]
    BY <1>4 DEF ProgressReturns, Counts
  <2> DEFINE c == [tally[j] EXCEPT !.failed = @ + raised]
  <2>2. tally[j].processed = tally[j].total
    BY <1>4 DEF IInv, FilesSoFar, ProgressReturns, Runs
  <2>3. c \in Counters /\ c.processed = c.total
    BY <1>1, <2>2 DEF Counters
  <2>4. Finalize(j) /\ tally' = [tally EXCEPT ![j] = c]
    BY <1>4, <2>1 DEF ProgressReturns
  <2> HIDE DEF c
  <2> QED
    BY <1>1, <2>3, <2>4, FinalizeEnds
<1>5. CASE GatherFile(j) /\ j \in results
  <2> DEFINE c == [tally[j] EXCEPT !.processed = @ + 1, !.failed = @ + 1]
  <2>1. tally[j].processed + task[j].left = tally[j].total
    BY <1>5 DEF IInv, FilesSoFar, GatherFile, Runs
  <2>2. task[j].left - 1 \in Nat
    BY <1>1, <1>5 DEF GatherFile
  <2>3. c \in Counters /\ c.processed = tally[j].processed + 1 /\ c.total = tally[j].total
    <3> DEFINE b == [tally[j] EXCEPT !.processed = @ + 1]
    <3>1. /\ b \in Counters
          /\ b.processed = tally[j].processed + 1 /\ b.total = tally[j].total
      BY <1>1 DEF Counters
    <3>2. c = [b EXCEPT !.failed = @ + 1]
      BY <1>1 DEF Counters
    <3> HIDE DEF b, c
    <3> QED
      BY <3>1, <3>2 DEF Counters
  <2>4. c.processed + (task[j].left - 1) = c.total
    BY <1>1, <2>1, <2>3 DEF Counters
  <2>5. /\ tally' = [tally EXCEPT ![j] = c]
        /\ Awaits(j, "gathering", task[j].left - 1) /\ UNCHANGED <<ended, active>>
    BY <1>5 DEF GatherFile, Counts
  <2> HIDE DEF c
  <2> QED
    BY <1>1, <2>2, <2>3, <2>4, <2>5, AwaitsIs DEF Suspends
<1>6. CASE GatherFile(j) /\ j \notin results
  BY <1>1, <1>3, <1>6, FinalizeEnds DEF GatherFile
<1>7. CASE GatherDone(j)
  <2>1. tally[j].processed = tally[j].total
    BY <1>1, <1>7 DEF IInv, FilesSoFar, GatherDone, Runs, Counters
  <2> QED
    BY <1>1, <1>3, <1>7, <2>1, FinalizeEnds DEF GatherDone
<1> QED
  BY <1>4, <1>5, <1>6, <1>7

\* An export, which has no files to count.
LEMMA ExportMoves ==
    ASSUME IInv, NEW j \in Jobs, ExecuteExport(j) \/ SkillFound(j)
    PROVE  Moves(j)
<1>1. TypeOK /\ tally[j] \in Counters /\ task[j].left \in Nat
  BY DEF IInv, TypeOK, TaskState
<1>2. Live(j) /\ ~task[j].cancel /\ UNCHANGED <<started, results, cancelled, cleaned>>
  BY DEF ExecuteExport, SkillFound, Runs, Live
<1>3. tally = [tally EXCEPT ![j] = tally[j]]
  BY <1>1 DEF TypeOK
<1>4. Kind[j] # "import"
  BY DEF ExecuteExport, SkillFound
<1> SUFFICES \E c \in Counters : tally' = [tally EXCEPT ![j] = c]
                                 /\ (Suspends(j, c) \/ Ends(j, c))
  BY <1>2 DEF Moves
<1>5. ASSUME NEW left \in Nat, NEW found \in Nat, Export(j, left, found)
      PROVE  \E c \in Counters : tally' = [tally EXCEPT ![j] = c]
                                 /\ (Suspends(j, c) \/ Ends(j, c))
  <2>1. CASE left > 0
    <3> DEFINE c == [tally[j] EXCEPT !.processed = found]
    <3>1. c \in Counters /\ left - 1 \in Nat
      BY <1>1, <2>1 DEF Counters
    <3>2. /\ tally' = [tally EXCEPT ![j] = c]
          /\ Awaits(j, "calling", left - 1) /\ UNCHANGED <<ended, active>>
      BY <1>5, <2>1 DEF Export, Counts
    <3> HIDE DEF c
    <3> QED
      BY <1>1, <1>4, <3>1, <3>2, AwaitsIs DEF Suspends
  <2>2. CASE ~(left > 0)
    <3>1. PICK written \in {0, found} :
            tally' = [tally EXCEPT ![j] = [tally[j] EXCEPT !.processed = found,
                                                           !.successful = written]]
      BY <1>5, <2>2 DEF Export, Counts
    <3> DEFINE c == [tally[j] EXCEPT !.processed = found, !.successful = written]
    <3>2. c \in Counters
      <4>1. [tally[j] EXCEPT !.processed = found] \in Counters /\ written \in Nat
        BY <1>1, <3>1 DEF Counters
      <4> QED
        BY <4>1 DEF Counters
    <3>3. tally' = [tally EXCEPT ![j] = c] /\ Finalize(j)
      BY <1>5, <2>2, <3>1 DEF Export
    <3> HIDE DEF c
    <3> QED
      BY <1>1, <1>4, <3>2, <3>3, FinalizeEnds
  <2> QED
    BY <2>1, <2>2
<1>6. CASE j \notin results /\ Over(j) /\ UNCHANGED <<ended, active, tally>>
  BY <1>1, <1>3, <1>6, OverIs DEF Ends
<1>7. CASE Finalize(j) /\ UNCHANGED tally
  BY <1>1, <1>3, <1>4, <1>7, FinalizeEnds
<1>8. CASE \E skills \in 0..MaxSkills : Export(j, skills, 0)
  BY <1>5, <1>8, ImportConstants
<1>9. CASE \E found \in 0..1 : Export(j, task[j].left, tally[j].processed + found)
  <2>1. PICK found \in 0..1 : Export(j, task[j].left, tally[j].processed + found)
    BY <1>9
  <2>2. tally[j].processed + found \in Nat
    BY <1>1 DEF Counters
  <2> QED
    BY <1>1, <1>5, <2>1, <2>2
<1> QED
  BY <1>6, <1>7, <1>8, <1>9 DEF ExecuteExport, SkillFound

\* Every step of a task is the cancellation taking effect, or a move.
LEMMA TaskMoves ==
    ASSUME IInv, NEW j \in Jobs, TaskStep(j)
    PROVE  CancelTakesEffect(j) \/ Moves(j)
  BY ExecuteImportMoves, SkillManagerReturnsMoves, FileStepMoves, ExportMoves DEF TaskStep

-----------------------------------------------------------------------------
(* The invariant *)

LEMMA InitHolds == Init => IInv
  BY ImportConstants DEF Init, IInv, TypeOK, JobsAreAccounted, StartedHaveTasks,
     InterferenceIsKnown, FilesSoFar, Live, TaskState, NoTask, Counters, NoCounts, Jobs

LEMMA StartKeeps ==
    ASSUME IInv, NEW j \in Jobs, Start(j)
    PROVE  IInv'
<1>1. /\ TypeOK /\ j = started + 1 /\ started' = j /\ j \in 1..MaxJobs
      /\ task[j] = NoTask /\ tally[j] = NoCounts
  BY DEF IInv, Start, StartedHaveTasks, TypeOK, Jobs
<1>2. task' = [task EXCEPT ![j] = [at |-> "ready", left |-> 0, cancel |-> FALSE]]
  <2>1. task' = [task EXCEPT ![j] = [task[j] EXCEPT !.at = "ready"]]
    BY <1>1 DEF Start, TypeOK
  <2>2. [NoTask EXCEPT !.at = "ready"] = [at |-> "ready", left |-> 0, cancel |-> FALSE]
    <3>1. PICK a, l, c : NoTask = [at |-> a, left |-> l, cancel |-> c] /\ l = 0 /\ c = FALSE
      BY DEF NoTask
    <3>2. [NoTask EXCEPT !.at = "ready"] = [at |-> "ready", left |-> l, cancel |-> c]
      BY <3>1
    <3> QED
      BY <3>1, <3>2
  <2> QED
    BY <1>1, <2>1, <2>2
<1>3. \A i \in Jobs : task'[i] = IF i = j THEN [at |-> "ready", left |-> 0, cancel |-> FALSE]
                                 ELSE task[i]
  BY <1>1, <1>2 DEF TypeOK
<1>4. TypeOK'
  <2>1. [at |-> "ready", left |-> 0, cancel |-> FALSE] \in TaskState
    BY DEF TaskState
  <2>2. task' \in [Jobs -> TaskState]
    BY <1>1, <1>2, <2>1 DEF TypeOK
  <2>3. 1..started \subseteq 1..started' /\ started' \in 0..MaxJobs /\ j \in 1..started'
    BY <1>1, ImportConstants DEF TypeOK
  <2> QED
    BY <1>1, <2>2, <2>3 DEF Start, TypeOK
<1>5. JobsAreAccounted'
  BY <1>1, <1>3, ImportConstants DEF Start, IInv, TypeOK, JobsAreAccounted, Live, Jobs
<1>6. StartedHaveTasks'
  BY <1>1, <1>3, ImportConstants DEF Start, IInv, TypeOK, StartedHaveTasks, Jobs
<1>7. InterferenceIsKnown'
  BY <1>1, <1>3, ImportConstants DEF Start, IInv, TypeOK, InterferenceIsKnown, Live, Jobs
<1>8. FilesSoFar'
  BY <1>1, <1>3 DEF Start, IInv, FilesSoFar
<1> QED
  BY <1>4, <1>5, <1>6, <1>7, <1>8 DEF IInv

LEMMA CancelKeeps ==
    ASSUME IInv, NEW j \in Jobs, Cancel(j)
    PROVE  IInv'
<1>1. TypeOK /\ j \in 1..started /\ task[j] \in TaskState
  BY DEF IInv, Cancel, TypeOK
<1>2. \A i \in Jobs : /\ task'[i].at = task[i].at /\ task'[i].left = task[i].left
                      /\ task'[i].cancel = IF i = j THEN Live(j) ELSE task[i].cancel
  BY <1>1 DEF Cancel, TypeOK, TaskState
<1>3. \A i \in Jobs : Live(i)' <=> Live(i)
  BY <1>2 DEF Live
<1>4. TypeOK'
  <2>1. Live(j) \in BOOLEAN
    BY DEF Live
  <2>2. task' \in [Jobs -> TaskState]
    BY <1>1, <2>1 DEF Cancel, TypeOK, TaskState
  <2> QED
    BY <1>1, <2>2 DEF Cancel, TypeOK
<1>5. JobsAreAccounted'
  BY <1>1, <1>3, ImportConstants DEF Cancel, IInv, TypeOK, JobsAreAccounted, Jobs
<1>6. StartedHaveTasks'
  <2>1. \A i \in Jobs : i # j => task'[i] = task[i]
    BY <1>1 DEF Cancel, TypeOK
  <2>2. j <= started
    BY <1>1 DEF TypeOK
  <2> QED
    BY <1>2, <2>1, <2>2 DEF Cancel, IInv, StartedHaveTasks
<1>7. InterferenceIsKnown'
  BY <1>1, <1>2, <1>3 DEF Cancel, IInv, InterferenceIsKnown
<1>8. FilesSoFar'
  BY <1>1, <1>2 DEF Cancel, IInv, FilesSoFar
<1> QED
  BY <1>4, <1>5, <1>6, <1>7, <1>8 DEF IInv

LEMMA CleanupKeeps ==
    ASSUME IInv, NEW last \in Jobs, CleanupOldResults(last)
    PROVE  IInv'
<1>1. /\ UNCHANGED <<started, active, ended, task, tally, cancelled>>
      /\ results' \subseteq results /\ cleaned \subseteq cleaned'
      /\ \A j \in results : j \notin results' /\ Live(j) => j \in cleaned'
  <2>1. \A j \in results : j > last \/ j <= last
    BY DEF IInv, TypeOK, Jobs
  <2> QED
    BY <2>1 DEF CleanupOldResults
<1>2. cleaned' \subseteq cleaned \cup results
  BY DEF CleanupOldResults
<1>3. TypeOK'
  BY <1>1, <1>2 DEF IInv, TypeOK
<1>4. \A j \in Jobs : Live(j)' <=> Live(j)
  BY <1>1 DEF Live
<1>5. JobsAreAccounted' /\ StartedHaveTasks' /\ FilesSoFar'
  BY <1>1, <1>4, ImportConstants
     DEF IInv, TypeOK, JobsAreAccounted, StartedHaveTasks, FilesSoFar, Jobs
<1>6. InterferenceIsKnown'
  BY <1>1, <1>4 DEF IInv, InterferenceIsKnown
<1> QED
  BY <1>3, <1>5, <1>6 DEF IInv

LEMMA CancellationKeeps ==
    ASSUME IInv, NEW j \in Jobs, CancelTakesEffect(j)
    PROVE  IInv'
<1>1. TypeOK /\ Live(j) /\ task[j].cancel
  BY DEF IInv, CancelTakesEffect
<1>2. task' = [task EXCEPT ![j] = [at |-> "over", left |-> 0, cancel |-> task[j].cancel]]
  BY <1>1, OverIs DEF CancelTakesEffect
<1>3. \A i \in Jobs :
        task'[i] = IF i = j THEN [at |-> "over", left |-> 0, cancel |-> task[j].cancel] ELSE task[i]
  BY <1>1, <1>2 DEF TypeOK
<1>4. TypeOK'
  BY <1>1, <1>2 DEF CancelTakesEffect, TypeOK, TaskState
<1>5. j <= started /\ j \in cancelled
  BY <1>1 DEF IInv, StartedHaveTasks, InterferenceIsKnown, Live, NoTask
<1>6. JobsAreAccounted'
  BY <1>1, <1>3, <1>5, ImportConstants
     DEF CancelTakesEffect, IInv, TypeOK, JobsAreAccounted, Live, Jobs
<1>7. StartedHaveTasks'
  BY <1>3, <1>5 DEF CancelTakesEffect, IInv, StartedHaveTasks
<1>8. InterferenceIsKnown'
  BY <1>3, <1>5 DEF CancelTakesEffect, IInv, InterferenceIsKnown, Live
<1>9. FilesSoFar'
  BY <1>3 DEF CancelTakesEffect, IInv, FilesSoFar
<1> QED
  BY <1>4, <1>6, <1>7, <1>8, <1>9 DEF IInv

LEMMA MovesKeep ==
    ASSUME IInv, NEW j \in Jobs, Moves(j)
    PROVE  IInv'
<1>1. /\ TypeOK /\ Live(j) /\ ~task[j].cancel /\ task[j] \in TaskState
      /\ UNCHANGED <<started, results, cancelled, cleaned>>
  BY DEF IInv, Moves, TypeOK
<1>2. j <= started /\ j \in 1..started /\ j \in active /\ j \notin ended
  BY <1>1 DEF IInv, StartedHaveTasks, InterferenceIsKnown, JobsAreAccounted, Live, NoTask,
     TypeOK, Jobs
<1>3. PICK c \in Counters : /\ tally' = [tally EXCEPT ![j] = c]
                            /\ Suspends(j, c) \/ Ends(j, c)
  BY DEF Moves
<1>4. \A i \in Jobs : tally'[i] = IF i = j THEN c ELSE tally[i]
  BY <1>1, <1>3 DEF TypeOK
<1>5. CASE Suspends(j, c)
  <2>1. PICK at \in {"calling", "progress", "gathering"}, left \in Nat :
          /\ task' = [task EXCEPT ![j] = [at |-> at, left |-> left, cancel |-> task[j].cancel]]
          /\ \/ at = "progress"
             \/ at = "calling" /\ Kind[j] = "import"
             => c.processed = c.total
          /\ at = "gathering" => c.processed + left = c.total
          /\ UNCHANGED <<ended, active>>
    BY <1>5 DEF Suspends
  <2>2. \A i \in Jobs :
          task'[i] = IF i = j THEN [at |-> at, left |-> left, cancel |-> task[j].cancel]
                     ELSE task[i]
    BY <1>1, <2>1 DEF TypeOK
  <2>3. TypeOK'
    <3>1. [at |-> at, left |-> left, cancel |-> task[j].cancel] \in TaskState
      BY <1>1 DEF TaskState
    <3> QED
      BY <1>1, <1>3, <2>1, <3>1 DEF TypeOK
  <2>4. \A i \in Jobs : Live(i)' <=> Live(i)
    BY <1>1, <2>2 DEF Live
  <2>5. JobsAreAccounted'
    BY <1>1, <1>2, <1>4, <2>1, <2>4, ImportConstants DEF IInv, TypeOK, JobsAreAccounted, Jobs
  <2>6. StartedHaveTasks'
    BY <1>1, <1>2, <1>4, <2>2 DEF IInv, StartedHaveTasks
  <2>7. InterferenceIsKnown'
    BY <1>1, <2>1, <2>2, <2>4 DEF IInv, InterferenceIsKnown
  <2>8. FilesSoFar'
    BY <1>4, <2>1, <2>2 DEF IInv, FilesSoFar
  <2> QED
    BY <2>3, <2>5, <2>6, <2>7, <2>8 DEF IInv
<1>6. CASE Ends(j, c)
  <2>1. task' = [task EXCEPT ![j] = [at |-> "over", left |-> 0, cancel |-> task[j].cancel]]
    BY <1>6 DEF Ends
  <2>2. \A i \in Jobs :
          task'[i] = IF i = j THEN [at |-> "over", left |-> 0, cancel |-> task[j].cancel]
                     ELSE task[i]
    BY <1>1, <2>1 DEF TypeOK
  <2>3. \/ /\ j \in results /\ ended' = ended \cup {j} /\ active' = active \ {j}
           /\ Kind[j] = "import" => c.processed = c.total
        \/ j \notin results /\ UNCHANGED <<ended, active>>
    BY <1>6 DEF Ends
  <2>4. TypeOK'
    <3>1. [at |-> "over", left |-> 0, cancel |-> task[j].cancel] \in TaskState
      BY <1>1 DEF TaskState
    <3> QED
      BY <1>1, <1>2, <1>3, <2>1, <2>3, <3>1 DEF TypeOK
  <2>5. \A i \in Jobs : Live(i)' <=> Live(i) /\ i # j
    BY <2>2 DEF Live
  <2>6. JobsAreAccounted'
    <3>1. j \notin results => j \in cleaned
      BY <1>1 DEF IInv, InterferenceIsKnown
    <3>2. \A i \in Jobs : i # j => (i \in active' <=> i \in active) /\ (i \in ended' <=> i \in ended)
      BY <2>3
    <3>3. j \in active' => j \in cleaned
      BY <2>3, <3>1
    <3>4. j \notin active' => j \in ended' /\ (Kind[j] = "import" => c.processed = c.total)
      BY <1>2, <2>3
    <3> QED
      BY <1>1, <1>2, <1>4, <2>5, <3>2, <3>3, <3>4, ImportConstants
         DEF IInv, TypeOK, JobsAreAccounted, Jobs
  <2>7. StartedHaveTasks'
    BY <1>1, <1>2, <1>4, <2>2 DEF IInv, StartedHaveTasks
  <2>8. InterferenceIsKnown'
    BY <1>1, <2>2, <2>3, <2>5 DEF IInv, InterferenceIsKnown
  <2>9. FilesSoFar'
    BY <1>4, <2>2 DEF IInv, FilesSoFar
  <2> QED
    BY <2>4, <2>6, <2>7, <2>8, <2>9 DEF IInv
<1> QED
  BY <1>3, <1>5, <1>6

LEMMA NextKeeps == IInv /\ [Next]_vars => IInv'
<1> SUFFICES ASSUME IInv, [Next]_vars PROVE IInv'
  OBVIOUS
<1>1. CASE UNCHANGED vars
  BY <1>1 DEF vars, IInv, TypeOK, JobsAreAccounted, StartedHaveTasks, InterferenceIsKnown,
     FilesSoFar, Live
<1>2. CASE Next
  BY <1>2, StartKeeps, CancelKeeps, CleanupKeeps, CancellationKeeps, MovesKeep, TaskMoves
     DEF Next
<1> QED
  BY <1>1, <1>2

LEMMA Invariant == Spec => []IInv
  BY InitHolds, NextKeeps, PTL DEF Spec

\* The dictionaries, the tasks and the counters keep their shapes, and nothing
\* is listed that was not started.  (SkillImporter.__init__, ImportResult.)
THEOREM TypesHold == Spec => []TypeOK
<1>1. IInv => TypeOK
  BY DEF IInv
<1> QED
  BY Invariant, <1>1, PTL

\* Whatever runs is listed as active, whatever is listed runs or was interfered
\* with, and an import that left the list has counted every file it found.
\* (active_imports, _finalize_import.)
THEOREM AlwaysAccounted == Spec => []JobsAreAccounted
<1>1. IInv => JobsAreAccounted
  BY DEF IInv
<1> QED
  BY Invariant, <1>1, PTL

\* The counters of a job with an end_time never move, also when it was given
\* that by cancel_import while its task was still waiting for a file.
THEOREM EndsAreFinal == Spec => EndIsFinal
<1>1. IInv /\ [Next]_vars => [\A j \in ended : tally'[j] = tally[j]]_vars
  <2> SUFFICES ASSUME IInv, Next, NEW i \in ended
               PROVE  tally'[i] = tally[i]
    OBVIOUS
  <2>1. i \in Jobs
    BY ImportConstants DEF IInv, TypeOK, Jobs
  <2>2. ASSUME NEW j \in Jobs, Moves(j)
        PROVE  tally'[i] = tally[i]
    <3>1. i # j
      BY <2>2 DEF IInv, InterferenceIsKnown, Moves
    <3>2. PICK c \in Counters : tally' = [tally EXCEPT ![j] = c]
      BY <2>2 DEF Moves
    <3> QED
      BY <2>1, <3>1, <3>2 DEF IInv, TypeOK
  <2>3. CASE UNCHANGED tally
    BY <2>3
  <2> QED
    BY <2>2, <2>3, TaskMoves DEF Next, Start, Cancel, CleanupOldResults, CancelTakesEffect
<1> QED
  BY Invariant, <1>1, PTL DEF Spec, EndIsFinal

-----------------------------------------------------------------------------
(* SkillImport: why jobs end.  The awaits a task may still have before it is *)
(* over, at most: each of its steps uses up one.                             *)

AwaitsLeft(at, left) ==
    CASE at = "ready"     -> MaxFiles + MaxSkills + 3
      [] at = "calling"   -> left + 2
      [] at = "gathering" -> left + 1
      [] at = "progress"  -> 1
      [] OTHER            -> 0

Work(j) == AwaitsLeft(task[j].at, task[j].left)

\* No job that runs goes round in circles: whatever changes in its task but the
\* order to stop it, less is left for it to await.
EveryStepWorksOff ==
    [][\A j \in Jobs : Live(j) =>
         \/ Work(j)' < Work(j)
         \/ task'[j].at = task[j].at /\ task'[j].left = task[j].left]_vars

\* the task of j is over, or waits with at most n awaits to go
HasLeft(j, n) ==
    \E at \in {"calling", "progress", "gathering", "over"}, left \in Nat :
        /\ task' = [task EXCEPT ![j] = [at |-> at, left |-> left, cancel |-> task[j].cancel]]
        /\ AwaitsLeft(at, left) <= n

LEMMA OverHasLeft ==
    ASSUME TypeOK, NEW j \in Jobs, NEW n \in Nat, Over(j)
    PROVE  HasLeft(j, n)
  BY OverIs DEF HasLeft, AwaitsLeft

LEMMA AwaitsHasLeft ==
    ASSUME TypeOK, NEW j \in Jobs, NEW n \in Nat, NEW left \in Nat,
           \/ Awaits(j, "calling", left) /\ left + 2 <= n
           \/ Awaits(j, "gathering", left) /\ left + 1 <= n
           \/ Awaits(j, "progress", left) /\ 1 <= n
    PROVE  HasLeft(j, n)
  BY AwaitsIs DEF HasLeft, AwaitsLeft

LEMMA GoesThroughHasLeft ==
    ASSUME TypeOK, NEW j \in Jobs, NEW left \in Nat, NEW c, NEW n \in Nat,
           GoesThrough(j, left, c), left + 1 <= n
    PROVE  HasLeft(j, n)
<1>1. PICK bad \in 0..left :
        IF bad < left THEN Awaits(j, "calling", left - bad - 1)
                      ELSE Awaits(j, "progress", 0) \/ Over(j)
  BY DEF GoesThrough, Finalize
<1>2. CASE bad < left
  <2>1. left - bad - 1 \in Nat /\ (left - bad - 1) + 2 <= n
    BY <1>2
  <2> QED
    BY <1>1, <1>2, <2>1, AwaitsHasLeft
<1>3. CASE ~(bad < left)
  BY <1>1, <1>3, AwaitsHasLeft, OverHasLeft
<1> QED
  BY <1>2, <1>3

LEMMA ExportHasLeft ==
    ASSUME TypeOK, NEW j \in Jobs, NEW left \in Nat, NEW c, NEW n \in Nat,
           Export(j, left, c), left + 1 <= n
    PROVE  HasLeft(j, n)
<1>1. CASE left > 0
  <2>1. left - 1 \in Nat /\ (left - 1) + 2 <= n
    BY <1>1
  <2> QED
    BY <1>1, <2>1, AwaitsHasLeft DEF Export
<1>2. CASE ~(left > 0)
  BY <1>2, OverHasLeft DEF Export, Finalize
<1> QED
  BY <1>1, <1>2

LEMMA TaskStepWorksOff ==
    ASSUME TypeOK, NEW j \in Jobs, TaskStep(j)
    PROVE  \E n \in Nat : HasLeft(j, n) /\ n < Work(j)
<1>1. MaxFiles \in Nat /\ MaxSkills \in Nat /\ task[j].left \in Nat
  BY ImportConstants DEF TypeOK, TaskState
<1> DEFINE l == task[j].left
<1>2. CASE ExecuteImport(j) \/ ExecuteExport(j)
  <2> DEFINE n == MaxFiles + MaxSkills + 2
  <2>1. n \in Nat /\ n < Work(j)
    BY <1>1, <1>2 DEF ExecuteImport, ExecuteExport, Runs, Work, AwaitsLeft
  <2>2. n \in Nat /\ \A m \in Nat : m <= MaxFiles \/ m <= MaxSkills => m + 1 <= n
    BY <1>1
  <2> HIDE DEF n
  <2>3. ASSUME NEW found \in 1..MaxFiles, BeginGathering(j, found)
        PROVE  HasLeft(j, n)
    <3>1. found \in Nat /\ found <= MaxFiles
      BY <1>1
    <3> QED
      BY <2>2, <2>3, <3>1, AwaitsHasLeft DEF BeginGathering
  <2>4. ASSUME NEW skills \in 0..MaxSkills, BeginFile(j, skills)
        PROVE  HasLeft(j, n)
    <3>1. skills \in Nat /\ skills <= MaxSkills
      BY <1>1
    <3> QED
      BY <2>2, <2>4, <3>1, GoesThroughHasLeft DEF BeginFile
  <2>5. ASSUME NEW skills \in 0..MaxSkills, Export(j, skills, 0)
        PROVE  HasLeft(j, n)
    <3>1. skills \in Nat /\ skills <= MaxSkills
      BY <1>1
    <3> QED
      BY <2>2, <2>5, <3>1, ExportHasLeft
  <2>6. \/ Over(j)
        \/ \E found \in 1..MaxFiles : BeginGathering(j, found)
        \/ \E skills \in 0..MaxSkills : BeginFile(j, skills) \/ Export(j, skills, 0)
    BY <1>2 DEF ExecuteImport, ExecuteExport, BeginNothing, BeginBadFiles, Finalize
  <2>7. HasLeft(j, n)
    BY <2>2, <2>3, <2>4, <2>5, <2>6, OverHasLeft
  <2> QED
    BY <2>1, <2>7
<1>3. CASE SkillManagerReturns(j) \/ SkillFound(j)
  <2>1. l + 1 \in Nat /\ l + 1 < Work(j) /\ 0 + 1 <= l + 1 /\ l + 1 <= l + 1 /\ 0 \in Nat
    BY <1>1, <1>3 DEF SkillManagerReturns, SkillFound, Runs, Work, AwaitsLeft
  <2>2. \/ Over(j)
        \/ \E c : GoesThrough(j, l, c) \/ GoesThrough(j, 0, c) \/ Export(j, l, c)
    BY <1>3 DEF SkillManagerReturns, SkillFound, Stumbles, Finalize
  <2>3. HasLeft(j, l + 1)
    BY <1>1, <2>1, <2>2, OverHasLeft, GoesThroughHasLeft, ExportHasLeft
  <2> QED
    BY <2>1, <2>3
<1>4. CASE GatherFile(j) /\ ~Over(j)
  <2>1. l > 0 /\ task[j].at = "gathering" /\ Awaits(j, "gathering", l - 1)
    BY <1>4 DEF GatherFile, Runs, Finalize
  <2>2. l - 1 \in Nat /\ l \in Nat /\ (l - 1) + 1 <= l /\ l < Work(j)
    BY <1>1, <2>1 DEF Work, AwaitsLeft
  <2> QED
    BY <2>1, <2>2, AwaitsHasLeft
<1>5. CASE Over(j) /\ (CancelTakesEffect(j) \/ ProgressReturns(j) \/ GatherFile(j) \/ GatherDone(j))
  <2>1. 0 < Work(j)
    <3>1. task[j].at \in {"ready", "calling", "progress", "gathering"}
      BY <1>5 DEF CancelTakesEffect, ProgressReturns, GatherFile, GatherDone, Runs, Live,
                  TypeOK, TaskState
    <3> QED
      BY <1>1, <3>1 DEF Work, AwaitsLeft
  <2> QED
    BY <1>5, <2>1, OverHasLeft
<1>6. ProgressReturns(j) \/ GatherDone(j) \/ CancelTakesEffect(j) => Over(j)
  BY DEF ProgressReturns, GatherDone, CancelTakesEffect, Finalize
<1> QED
  BY <1>2, <1>3, <1>4, <1>5, <1>6 DEF TaskStep

\* Every step of a job that runs leaves less for it to await, whatever the skill
\* manager, the files and the callback answer and whatever is cancelled or cleaned
\* up: with tasks that are run and calls that return, that is why jobs end.
\* (_execute_import, _execute_export.)
THEOREM StepsWorkOff == Spec => EveryStepWorksOff
<1>1. IInv /\ [Next]_vars =>
        [\A j \in Jobs : Live(j) =>
           \/ Work(j)' < Work(j)
           \/ task'[j].at = task[j].at /\ task'[j].left = task[j].left]_vars
  <2> SUFFICES ASSUME IInv, Next, NEW i \in Jobs, Live(i)
               PROVE  \/ Work(i)' < Work(i)
                      \/ task'[i].at = task[i].at /\ task'[i].left = task[i].left
    OBVIOUS
  <2>1. TypeOK
    BY DEF IInv
  <2>2. ASSUME NEW j \in Jobs, TaskStep(j)
        PROVE  Work(i)' < Work(i) \/ task'[i] = task[i]
    <3>1. PICK n \in Nat : HasLeft(j, n) /\ n < Work(j)
      BY <2>1, <2>2, TaskStepWorksOff
    <3>2. PICK at \in {"calling", "progress", "gathering", "over"}, left \in Nat :
            /\ task' = [task EXCEPT ![j] = [at |-> at, left |-> left, cancel |-> task[j].cancel]]
            /\ AwaitsLeft(at, left) <= n
      BY <3>1 DEF HasLeft
    <3>3. CASE i # j
      BY <2>1, <3>2, <3>3 DEF TypeOK
    <3>4. CASE i = j
      <4>1. task'[j].at = at /\ task'[j].left = left
        BY <2>1, <3>2 DEF TypeOK
      <4>2. Work(j)' = AwaitsLeft(at, left)
        BY <4>1 DEF Work, AwaitsLeft
      <4>3. AwaitsLeft(at, left) \in Nat /\ Work(j) \in Nat
        <5>1. MaxFiles \in Nat /\ MaxSkills \in Nat /\ task[j].left \in Nat
          BY <2>1, ImportConstants DEF TypeOK, TaskState
        <5> QED
          BY <5>1 DEF Work, AwaitsLeft
      <4> QED
        BY <3>1, <3>2, <3>4, <4>2, <4>3
    <3> QED
      BY <3>3, <3>4
  <2>3. ASSUME NEW j \in Jobs, Start(j)
        PROVE  task'[i] = task[i]
    <3>1. task[j] = NoTask
      BY <2>3 DEF IInv, StartedHaveTasks, Start, TypeOK, Jobs
    <3>2. i # j
      BY <3>1 DEF Live, NoTask
    <3> QED
      BY <2>1, <2>3, <3>2 DEF Start, TypeOK
  <2>4. ASSUME NEW j \in Jobs, Cancel(j)
        PROVE  task'[i].at = task[i].at /\ task'[i].left = task[i].left
    <3>1. PICK b : task' = [task EXCEPT ![j].cancel = b]
      BY <2>4 DEF Cancel
    <3>2. task[j] \in TaskState
      BY <2>1 DEF TypeOK
    <3>3. PICK a, l, c : task[j] = [at |-> a, left |-> l, cancel |-> c]
      BY <3>2 DEF TaskState
    <3>4. [task[j] EXCEPT !.cancel = b] = [at |-> a, left |-> l, cancel |-> b]
      BY <3>3
    <3>5. task' = [task EXCEPT ![j] = [at |-> a, left |-> l, cancel |-> b]]
      BY <3>1, <3>4
    <3> QED
      BY <2>1, <3>3, <3>5 DEF TypeOK
  <2>5. ASSUME NEW last \in Jobs, CleanupOldResults(last)
        PROVE  task'[i] = task[i]
    BY <2>5 DEF CleanupOldResults
  <2> QED
    BY <2>2, <2>3, <2>4, <2>5 DEF Next
<1> QED
  BY Invariant, <1>1, PTL DEF Spec, EveryStepWorksOff

-----------------------------------------------------------------------------
(* SkillEditor: the inductive invariant.  That a clean file is on the disk *)
(* says nothing of a file being saved; what makes it true when the save is *)
(* done is that an uncrossed save is alone with its file all the while.    *)

\* the save in slot k of session s is at work on file f
Saves(s, k, f) == save[s][k].file = f /\ save[s][k].at \in Active

\* what save slots, openings and sessions that were not made yet are like
SavesFit ==
    \A s \in Sessions :
        /\ \A k \in Slots : save[s][k].at # "idle" => save[s][k].file \in Files
        /\ save[s]["close"].at # "idle" => closing = s
        /\ ~AutoSave => save[s]["auto"].at = "idle"
OpeningsFit ==
    /\ \A o \in Openers : opening[o] # NoOpening => opening[o].session \in created
    /\ \A s \in Sessions \ created : files[s] = {}

\* one save, of the only session with the file open, and nobody reads
SavedAlone(f) ==
    \A s \in Sessions, k \in Slots : Saves(s, k, f) =>
        /\ \A r \in Sessions, l \in Slots : Saves(r, l, f) => r = s /\ l = k
        /\ \A r \in Sessions : IsOpen(r, f) => r = s /\ save[s][k].own
        /\ ~BeingRead(f)

\* t is on the disk, if no thread of a cancelled save was there after it
OnDisk(f, t) == disk[f] = t \/ f \in overwritten

\* what it writes, into an empty file, is what the session shows
SavedAsShown(f) ==
    \A s \in Sessions, k \in Slots : Saves(s, k, f) =>
        /\ save[s][k].at \in {"opened", "writing"} => OnDisk(f, Empty)
        /\ IsOpen(s, f) /\ save[s][k].at = "writing" => save[s][k].text = content[s][f]
        /\ IsOpen(s, f) /\ save[s][k].at = "flushed" => OnDisk(f, content[s][f])

\* what was read is still on the disk
ReadFromDisk(f) == \A o \in Openers : opening[o].file = f => OnDisk(f, opening[o].text)

CleanAtRest(f) ==
    ~Saving(f) => \A s \in Sessions :
        IsOpen(s, f) /\ ~is_modified[s][f] => OnDisk(f, content[s][f])

Uncrossed(f) == SavedAlone(f) /\ SavedAsShown(f) /\ ReadFromDisk(f) /\ CleanAtRest(f)
OthersUncrossed == \A f \in Files \ crossed : Uncrossed(f)

EditorInv == EditorTypeOK /\ SavesFit /\ OpeningsFit /\ OthersUncrossed

-----------------------------------------------------------------------------
(* What the actions do to the saves and to the disk *)

SaveTable == [Sessions -> [Slots -> SaveState]]

LEMMA SaveStates ==
    ASSUME NEW r \in SaveState
    PROVE  /\ r.at \in {"idle", "asleep", "begun", "opened", "writing", "flushed"}
           /\ r.file \in Files \cup {None} /\ r.text \in Text /\ r.own \in BOOLEAN
           /\ r = [at |-> r.at, file |-> r.file, text |-> r.text, own |-> r.own]
  BY DEF SaveState

LEMMA SomeSaveStates ==
    /\ NoSave \in SaveState
    /\ \A f \in Files : Begun(f) \in SaveState /\ Asleep(f) \in SaveState
  BY DEF SaveState, NoSave, Begun, Asleep, Text

\* Filling one slot leaves the others.
LEMMA SlotFilled ==
    ASSUME NEW a \in SaveTable, NEW s \in Sessions, NEW k \in Slots, NEW v \in SaveState
    PROVE  /\ [a EXCEPT ![s][k] = v] \in SaveTable
           /\ \A r \in Sessions, l \in Slots :
                [a EXCEPT ![s][k] = v][r][l] = IF r = s /\ l = k THEN v ELSE a[r][l]
<1> DEFINE row == [a[s] EXCEPT ![k] = v]
<1>1. row \in [Slots -> SaveState]
  BY DEF SaveTable
<1>2. \A l \in Slots : row[l] = IF l = k THEN v ELSE a[s][l]
  BY DEF SaveTable
<1>3. [a EXCEPT ![s][k] = v] = [a EXCEPT ![s] = row]
  OBVIOUS
<1> HIDE DEF row
<1> QED
  BY <1>1, <1>2, <1>3 DEF SaveTable

LEMMA Disowned ==
    ASSUME NEW r \in SaveState, NEW t, NEW w
    PROVE  [r EXCEPT !.own = w, !.text = t]
             = [at |-> r.at, file |-> r.file, text |-> t, own |-> w]
<1>1. PICK a, g, u, c : r = [at |-> a, file |-> g, text |-> u, own |-> c]
  BY DEF SaveState
<1>2. [r EXCEPT !.own = w] = [at |-> a, file |-> g, text |-> u, own |-> w]
  BY <1>1
<1>3. [[at |-> a, file |-> g, text |-> u, own |-> w] EXCEPT !.text = t]
        = [at |-> a, file |-> g, text |-> t, own |-> w]
  OBVIOUS
<1> QED
  BY <1>1, <1>2, <1>3

\* Losing the file object leaves each save where it is; the text is settled if
\* the save had not got to it.
LEMMA DetachIs ==
    ASSUME save \in SaveTable, NEW s \in Sessions, NEW f \in Files,
           content \in [Sessions -> [Files -> Text]]
    PROVE  /\ Detach(s, f) \in SaveTable
           /\ \A r \in Sessions, l \in Slots :
                LET d == Detach(s, f)[r][l]
                IN  /\ d.at = save[r][l].at /\ d.file = save[r][l].file
                    /\ d = save[r][l] \/ (r = s /\ Saves(r, l, f))
                    /\ d.text = save[r][l].text \/ d.at \in Unwritten
<1> DEFINE v(k) == IF save[s][k].file = f /\ save[s][k].at \in Active
        THEN [save[s][k] EXCEPT !.own = FALSE,
                !.text = IF save[s][k].at \in Unwritten /\ save[s][k].own
                         THEN content[s][f] ELSE @]
        ELSE save[s][k]
<1>1. ASSUME NEW k \in Slots
      PROVE  /\ v(k) \in SaveState
             /\ v(k).at = save[s][k].at /\ v(k).file = save[s][k].file
             /\ v(k) = save[s][k] \/ Saves(s, k, f)
             /\ v(k).text = save[s][k].text \/ v(k).at \in Unwritten
  <2>1. save[s][k] \in SaveState /\ content[s][f] \in Text
    BY DEF SaveTable
  <2> DEFINE t == IF save[s][k].at \in Unwritten /\ save[s][k].own
                  THEN content[s][f] ELSE save[s][k].text
  <2>2. t \in Text /\ (t = save[s][k].text \/ save[s][k].at \in Unwritten)
    BY <2>1, SaveStates
  <2>4. v(k) = IF save[s][k].file = f /\ save[s][k].at \in Active
               THEN [save[s][k] EXCEPT !.own = FALSE, !.text = t] ELSE save[s][k]
    OBVIOUS
  <2> HIDE DEF t, v
  <2>5. [save[s][k] EXCEPT !.own = FALSE, !.text = t]
          = [at |-> save[s][k].at, file |-> save[s][k].file, text |-> t, own |-> FALSE]
    BY <2>1, Disowned
  <2>3. v(k) = IF save[s][k].file = f /\ save[s][k].at \in Active
               THEN [at |-> save[s][k].at, file |-> save[s][k].file,
                     text |-> t, own |-> FALSE]
               ELSE save[s][k]
    BY <2>4, <2>5
  <2> QED
    BY <2>1, <2>2, <2>3, SaveStates DEF Saves, SaveState
<1> DEFINE row == [k \in Slots |-> v(k)]
<1>2. Detach(s, f) = [save EXCEPT ![s] = row]
  BY DEF Detach
<1>3. row \in [Slots -> SaveState] /\ \A l \in Slots : row[l] = v(l)
  BY <1>1
<1> HIDE DEF row, v
<1>4. Detach(s, f) \in SaveTable
  BY <1>2, <1>3 DEF SaveTable
<1>5. \A r \in Sessions, l \in Slots :
        Detach(s, f)[r][l] = IF r = s THEN v(l) ELSE save[r][l]
  BY <1>2, <1>3 DEF SaveTable
<1> QED
  BY <1>1, <1>4, <1>5

LateTable == [Files -> [Text -> Nat]]

LEMMA LateFilled ==
    ASSUME late \in LateTable, NEW f \in Files, NEW t \in Text, NEW n \in Nat
    PROVE  [late EXCEPT ![f][t] = n] \in LateTable
<1> DEFINE row == [late[f] EXCEPT ![t] = n]
<1>1. row \in [Text -> Nat]
  BY DEF LateTable
<1>2. [late EXCEPT ![f][t] = n] = [late EXCEPT ![f] = row]
  OBVIOUS
<1> HIDE DEF row
<1> QED
  BY <1>1, <1>2 DEF LateTable

\* Cancelling an auto-save leaves at most one more call to its threads.
LEMMA LeftBehindIs ==
    ASSUME EditorInv, NEW s \in Sessions
    PROVE  LeftBehind(s) \in LateTable
<1> DEFINE w == save[s]["auto"]
           Calls(t) == [late EXCEPT ![w.file][t] = late[w.file][t] + 1]
<1>1. late \in LateTable /\ w \in SaveState /\ "auto" \in Slots /\ Empty \in Text
  BY DEF EditorInv, EditorTypeOK, LateTable, Slots, Text
<1>2. w.text \in Text
  BY <1>1, SaveStates
<1>3. w.at # "idle" => w.file \in Files
  BY <1>1 DEF EditorInv, SavesFit
<1>4. \/ LeftBehind(s) = late
      \/ w.at # "idle" /\ (LeftBehind(s) = Calls(Empty) \/ LeftBehind(s) = Calls(w.text))
  BY DEF LeftBehind
<1>5. ASSUME NEW t \in Text, w.at # "idle"
      PROVE  Calls(t) \in LateTable
  <2>1. w.file \in Files /\ late[w.file][t] + 1 \in Nat
    BY <1>1, <1>3, <1>5 DEF LateTable
  <2> HIDE DEF w
  <2> QED
    BY <1>1, <2>1, LateFilled
<1> HIDE DEF w, Calls
<1> QED
  BY <1>1, <1>2, <1>4, <1>5

\* What a file may have after a write; an empty file has what was written.
LEMMA WrittenIs ==
    ASSUME NEW old \in Text, NEW t \in Text
    PROVE  /\ Written(old, t) \subseteq Text
           /\ Written(Empty, t) = {t}
  BY DEF Written, Text

Begins(s, k, f) ==
    /\ save' \in SaveTable
    /\ \A r \in Sessions, l \in Slots :
         save'[r][l] = IF r = s /\ l = k THEN Begun(f) ELSE save[r][l]
    /\ overwritten' \subseteq Files
    /\ \A g \in Files \ {f} : g \in overwritten' <=> g \in overwritten
    /\ crossed' \subseteq Files /\ crossed \ {f} \subseteq crossed'
    /\ f \in crossed' \/ (~Saving(f) /\ ~BeingRead(f) /\ ~OpenElsewhere(s, f))

LEMMA BeginSaveIs ==
    ASSUME EditorTypeOK, NEW s \in Sessions, NEW k \in Slots, NEW f \in Files,
           BeginSave(s, k, f)
    PROVE  Begins(s, k, f)
<1>1. /\ save \in SaveTable /\ overwritten \subseteq Files /\ crossed \subseteq Files
      /\ Begun(f) \in SaveState
  BY SomeSaveStates DEF EditorTypeOK, SaveTable
<1>2. /\ save' = [save EXCEPT ![s][k] = Begun(f)]
      /\ overwritten' = overwritten \ {f}
      /\ crossed' = IF Saving(f) \/ BeingRead(f) \/ OpenElsewhere(s, f)
                    THEN crossed \cup {f} ELSE crossed \ {f}
  BY DEF BeginSave
<1>3. /\ save' \in SaveTable
      /\ \A r \in Sessions, l \in Slots :
           save'[r][l] = IF r = s /\ l = k THEN Begun(f) ELSE save[r][l]
  <2> DEFINE v == Begun(f)
             b == [save EXCEPT ![s][k] = v]
  <2>0. save \in SaveTable /\ v \in SaveState
    BY <1>1
  <2> HIDE DEF v
  <2>1. /\ b \in SaveTable
        /\ \A r \in Sessions, l \in Slots :
             b[r][l] = IF r = s /\ l = k THEN v ELSE save[r][l]
    BY <2>0, SlotFilled
  <2>2. save' = b
    BY <1>2 DEF v
  <2> HIDE DEF b
  <2> QED
    BY <2>1, <2>2 DEF v
<1>4. /\ overwritten' \subseteq Files
      /\ \A g \in Files \ {f} : g \in overwritten' <=> g \in overwritten
  BY <1>1, <1>2
<1>5. /\ crossed' \subseteq Files /\ crossed \ {f} \subseteq crossed'
      /\ f \in crossed' \/ (~Saving(f) /\ ~BeingRead(f) /\ ~OpenElsewhere(s, f))
  BY <1>1, <1>2
<1> QED
  BY <1>3, <1>4, <1>5 DEF Begins

\* what was on the disk is there, but for late writes
KeepsDisk(f) == f \in overwritten' \/ (f \notin overwritten /\ disk'[f] = disk[f])

\* what a step that does nothing to the file leaves as it is
LeavesAlone(f) ==
    /\ KeepsDisk(f)
    /\ \A r \in Sessions, l \in Slots :
         save'[r][l] = save[r][l] \/ (~Saves(r, l, f) /\ ~Saves(r, l, f)')
    /\ \A r \in Sessions : IsOpen(r, f)' =>
         /\ IsOpen(r, f)
         /\ content'[r][f] = content[r][f] /\ is_modified'[r][f] = is_modified[r][f]
    /\ \A o \in Openers : opening'[o].file = f =>
         opening[o].file = f /\ opening'[o].text = opening[o].text

LEMMA AloneIsUncrossed ==
    ASSUME NEW f \in Files, Uncrossed(f), LeavesAlone(f)
    PROVE  Uncrossed(f)'
<1>0. \A t : OnDisk(f, t) => OnDisk(f, t)'
  BY DEF LeavesAlone, KeepsDisk, OnDisk
<1>1. \A r \in Sessions, l \in Slots :
        /\ Saves(r, l, f)' => Saves(r, l, f) /\ save'[r][l] = save[r][l]
        /\ Saves(r, l, f) => Saves(r, l, f)'
  BY DEF LeavesAlone, Saves
<1>2. SavedAlone(f)'
  <2> SUFFICES ASSUME NEW s \in Sessions, NEW k \in Slots, Saves(s, k, f)'
               PROVE  /\ \A r \in Sessions, l \in Slots : Saves(r, l, f)' => r = s /\ l = k
                      /\ \A r \in Sessions : IsOpen(r, f)' => r = s /\ (save[s][k].own)'
                      /\ ~BeingRead(f)'
    BY DEF SavedAlone
  <2>1. Saves(s, k, f) /\ save'[s][k] = save[s][k]
    BY <1>1
  <2>2. /\ \A r \in Sessions, l \in Slots : Saves(r, l, f) => r = s /\ l = k
        /\ \A r \in Sessions : IsOpen(r, f) => r = s /\ save[s][k].own
        /\ ~BeingRead(f)
    BY <2>1 DEF Uncrossed, SavedAlone
  <2>3. \A r \in Sessions : IsOpen(r, f)' => IsOpen(r, f)
    BY DEF LeavesAlone
  <2>4. ~BeingRead(f)'
    BY <2>2 DEF BeingRead, LeavesAlone
  <2> QED
    BY <1>1, <2>1, <2>2, <2>3, <2>4
<1>3. SavedAsShown(f)'
  <2> SUFFICES ASSUME NEW s \in Sessions, NEW k \in Slots, Saves(s, k, f)'
               PROVE  /\ save'[s][k].at \in {"opened", "writing"} => OnDisk(f, Empty)'
                      /\ IsOpen(s, f)' /\ save'[s][k].at = "writing"
                           => save'[s][k].text = content'[s][f]
                      /\ IsOpen(s, f)' /\ save'[s][k].at = "flushed"
                           => OnDisk(f, content[s][f])'
    BY DEF SavedAsShown
  <2>1. Saves(s, k, f) /\ save'[s][k] = save[s][k]
    BY <1>1
  <2> QED
    BY <1>0, <2>1 DEF Uncrossed, SavedAsShown, LeavesAlone
<1>4. ReadFromDisk(f)'
  BY <1>0 DEF Uncrossed, ReadFromDisk, LeavesAlone
<1>5. CleanAtRest(f)'
  <2> SUFFICES ASSUME ~Saving(f)', NEW s \in Sessions,
                      IsOpen(s, f)', ~is_modified'[s][f]
               PROVE  OnDisk(f, content[s][f])'
    BY DEF CleanAtRest
  <2>1. ~Saving(f)
    BY <1>1 DEF Saving, SavedBy, Saves
  <2>2. IsOpen(s, f) /\ ~is_modified[s][f]
    BY DEF LeavesAlone
  <2> QED
    BY <1>0, <2>1, <2>2 DEF Uncrossed, CleanAtRest, LeavesAlone
<1> QED
  BY <1>2, <1>3, <1>4, <1>5 DEF Uncrossed

\* A file that a save begins with, nobody else's and for nobody else.
LEMMA BegunIsUncrossed ==
    ASSUME EditorTypeOK, NEW s \in Sessions, NEW k \in Slots, NEW f \in Files,
           Begins(s, k, f), f \notin crossed', UNCHANGED opening,
           \A r \in Sessions : IsOpen(r, f)' => IsOpen(r, f)
    PROVE  Uncrossed(f)'
<1>1. ~Saving(f) /\ ~BeingRead(f) /\ ~OpenElsewhere(s, f)
  BY DEF Begins
<1>2. /\ save'[s][k] = Begun(f)
      /\ \A r \in Sessions, l \in Slots : ~(r = s /\ l = k) => save'[r][l] = save[r][l]
  BY DEF Begins
<1>3. /\ save'[s][k].at = "begun" /\ save'[s][k].own = TRUE
      /\ save'[s][k].file = f
  BY <1>2 DEF Begun
<1>4. Saves(s, k, f)' /\ \A r \in Sessions, l \in Slots : Saves(r, l, f)' => r = s /\ l = k
  BY <1>1, <1>2, <1>3 DEF Saves, Saving, SavedBy, Active, Unwritten
<1>5. \A r \in Sessions : IsOpen(r, f)' => r = s
  BY <1>1 DEF OpenElsewhere, IsOpen
<1>6. ~BeingRead(f)'
  BY <1>1 DEF BeingRead
<1>7. SavedAlone(f)'
  <2>1. \A r \in Sessions, l \in Slots : Saves(r, l, f)' => (save[r][l].own)'
    BY <1>3, <1>4
  <2> QED
    BY <1>4, <1>5, <1>6, <2>1 DEF SavedAlone
<1>8. SavedAsShown(f)'
  BY <1>3, <1>4 DEF SavedAsShown
<1>9. ReadFromDisk(f)'
  BY <1>6 DEF ReadFromDisk, BeingRead
<1>10. CleanAtRest(f)'
  BY <1>4 DEF CleanAtRest, Saving, SavedBy, Saves
<1> QED
  BY <1>7, <1>8, <1>9, <1>10 DEF Uncrossed

\* A file no session has open and nobody reads: whatever is on the disk.
LEMMA UnseenIsUncrossed ==
    ASSUME NEW f \in Files, ~BeingRead(f)', ~Saving(f)',
           \A r \in Sessions : ~IsOpen(r, f)'
    PROVE  Uncrossed(f)'
<1>1. \A r \in Sessions, l \in Slots : ~Saves(r, l, f)'
  BY DEF Saving, SavedBy, Saves
<1> QED
  BY <1>1 DEF Uncrossed, SavedAlone, SavedAsShown, ReadFromDisk, CleanAtRest, BeingRead

\* The same for a table with a cell for every session and file.
LEMMA CellFilled ==
    ASSUME NEW X, NEW a \in [Sessions -> [Files -> X]],
           NEW s \in Sessions, NEW f \in Files, NEW v \in X
    PROVE  /\ [a EXCEPT ![s][f] = v] \in [Sessions -> [Files -> X]]
           /\ \A r \in Sessions, g \in Files :
                [a EXCEPT ![s][f] = v][r][g] = IF r = s /\ g = f THEN v ELSE a[r][g]
<1> DEFINE row == [a[s] EXCEPT ![f] = v]
<1>1. row \in [Files -> X]
  OBVIOUS
<1>2. \A g \in Files : row[g] = IF g = f THEN v ELSE a[s][g]
  OBVIOUS
<1>3. [a EXCEPT ![s][f] = v] = [a EXCEPT ![s] = row]
  OBVIOUS
<1> HIDE DEF row
<1> QED
  BY <1>1, <1>2, <1>3

\* A save that goes on keeps its file and its owner.
Steps(s, k, at, t) ==
    /\ save' \in SaveTable
    /\ \A r \in Sessions, l \in Slots : ~(r = s /\ l = k) => save'[r][l] = save[r][l]
    /\ save'[s][k].at = at /\ save'[s][k].text = t
    /\ save'[s][k].file = save[s][k].file /\ save'[s][k].own = save[s][k].own

LEMMA SlotStepped ==
    ASSUME save \in SaveTable, NEW s \in Sessions, NEW k \in Slots,
           NEW at \in {"opened", "writing", "flushed"}, NEW t \in Text
    PROVE  /\ save' = [save EXCEPT ![s][k].at = at, ![s][k].text = t] => Steps(s, k, at, t)
           /\ save' = [save EXCEPT ![s][k].at = at] => Steps(s, k, at, save[s][k].text)
<1>1. save[s][k] \in SaveState
  BY DEF SaveTable
<1>2. PICK x, g, u, w : save[s][k] = [at |-> x, file |-> g, text |-> u, own |-> w]
  BY <1>1 DEF SaveState
<1> DEFINE v == [at |-> at, file |-> g, text |-> u, own |-> w]
           y == [at |-> at, file |-> g, text |-> t, own |-> w]
<1>3. v \in SaveState /\ y \in SaveState
  BY <1>1, <1>2, SaveStates DEF SaveState
<1>4. [save EXCEPT ![s][k].at = at] = [save EXCEPT ![s][k] = v]
  <2>1. [save[s][k] EXCEPT !.at = at] = v
    BY <1>2
  <2> HIDE DEF v
  <2> QED
    BY <2>1
<1>5. [save EXCEPT ![s][k].at = at, ![s][k].text = t] = [save EXCEPT ![s][k] = y]
  <2> DEFINE b == [save EXCEPT ![s][k].at = at]
  <2>1. b \in SaveTable /\ b[s][k] = v
    BY <1>3, <1>4, SlotFilled
  <2>2. [save EXCEPT ![s][k].at = at, ![s][k].text = t] = [b EXCEPT ![s][k].text = t]
    OBVIOUS
  <2>3. [b[s][k] EXCEPT !.text = t] = y
    BY <2>1
  <2>4. [b EXCEPT ![s][k].text = t] = [b EXCEPT ![s][k] = y]
    <3> HIDE DEF y
    <3> QED
      BY <2>3
  <2>5. [b EXCEPT ![s][k] = y] = [save EXCEPT ![s][k] = y]
    <3> HIDE DEF v, y
    <3> QED
      BY <1>4
  <2> QED
    BY <2>2, <2>4, <2>5
<1>6. /\ v.at = at /\ v.text = u /\ v.file = g /\ v.own = w
      /\ y.at = at /\ y.text = t /\ y.file = g /\ y.own = w
      /\ save[s][k].text = u /\ save[s][k].file = g /\ save[s][k].own = w
  BY <1>2
<1> HIDE DEF v, y
<1>7. ASSUME save' = [save EXCEPT ![s][k] = v]
      PROVE  Steps(s, k, at, u)
  <2> DEFINE b == [save EXCEPT ![s][k] = v]
  <2>1. /\ b \in SaveTable
        /\ \A r \in Sessions, l \in Slots : b[r][l] = IF r = s /\ l = k THEN v ELSE save[r][l]
    BY <1>3, SlotFilled
  <2>2. save' = b
    BY <1>7
  <2> HIDE DEF b
  <2> QED
    BY <1>6, <2>1, <2>2 DEF Steps
<1>8. ASSUME save' = [save EXCEPT ![s][k] = y]
      PROVE  Steps(s, k, at, t)
  <2> DEFINE b == [save EXCEPT ![s][k] = y]
  <2>1. /\ b \in SaveTable
        /\ \A r \in Sessions, l \in Slots : b[r][l] = IF r = s /\ l = k THEN y ELSE save[r][l]
    BY <1>3, SlotFilled
  <2>2. save' = b
    BY <1>8
  <2> HIDE DEF b
  <2> QED
    BY <1>6, <2>1, <2>2 DEF Steps
<1> QED
  BY <1>4, <1>5, <1>6, <1>7, <1>8

-----------------------------------------------------------------------------
(* Every action keeps the invariant *)

LEMMA EditorInitHolds == EditorInit => EditorInv
<1> SUFFICES ASSUME EditorInit PROVE EditorInv
  OBVIOUS
<1>1. EditorTypeOK
  BY EditorConstants, SomeSaveStates DEF EditorInit, EditorTypeOK, Text
<1>2. \A s \in Sessions, k \in Slots : save[s][k] = NoSave
  BY DEF EditorInit
<1>3. SavesFit
  BY <1>2 DEF SavesFit, NoSave, Slots
<1>4. OpeningsFit
  BY DEF EditorInit, OpeningsFit
<1>5. ASSUME NEW f \in Files
      PROVE  Uncrossed(f)
  <2>1. \A s \in Sessions, k \in Slots : ~Saves(s, k, f)
    BY <1>2 DEF Saves, NoSave, Active, Unwritten
  <2>2. \A o \in Openers : opening[o].file # f
    BY EditorConstants DEF EditorInit, NoOpening
  <2>3. \A s \in Sessions : ~IsOpen(s, f)
    BY DEF EditorInit, IsOpen
  <2> QED
    BY <2>1, <2>2, <2>3 DEF Uncrossed, SavedAlone, SavedAsShown, ReadFromDisk, CleanAtRest
<1> QED
  BY <1>1, <1>3, <1>4, <1>5 DEF EditorInv, OthersUncrossed

LEMMA CreateSessionKeeps ==
    ASSUME EditorInv, NEW s \in Sessions, CreateSession(s)
    PROVE  EditorInv'
<1>1. /\ created' = created \cup {s} /\ sessions' = sessions \cup {s} /\ s \notin created
      /\ files' = files /\ content' = content /\ is_modified' = is_modified /\ disk' = disk
      /\ file_locks' = file_locks /\ opening' = opening /\ save' = save /\ closing' = closing
      /\ todo' = todo /\ updates' = updates /\ crossed' = crossed
      /\ late' = late /\ overwritten' = overwritten
  BY DEF CreateSession
<1>2. EditorTypeOK'
  BY <1>1 DEF EditorInv, EditorTypeOK
<1>3. SavesFit' /\ OpeningsFit'
  BY <1>1 DEF EditorInv, SavesFit, OpeningsFit
<1>4. files[s] = {}
  BY <1>1 DEF EditorInv, OpeningsFit
<1>5. \A f \in Files : LeavesAlone(f)
  BY <1>1, <1>4 DEF LeavesAlone, KeepsDisk, IsOpen
<1> QED
  BY <1>1, <1>2, <1>3, <1>5, AloneIsUncrossed DEF EditorInv, OthersUncrossed

LEMMA OpenReadKeeps ==
    ASSUME EditorInv, NEW o \in Openers, NEW s \in Sessions, NEW f \in Files, OpenRead(o, s, f)
    PROVE  EditorInv'
<1> DEFINE u == file_locks[f] = None
           v == [session |-> s, file |-> f, text |-> disk[f], unlocked |-> u]
<1>1. /\ created' = created /\ sessions' = sessions /\ s \in sessions
      /\ files' = files /\ content' = content /\ is_modified' = is_modified /\ disk' = disk
      /\ file_locks' = file_locks /\ save' = save /\ closing' = closing
      /\ todo' = todo /\ updates' = updates /\ late' = late /\ overwritten' = overwritten
      /\ crossed \subseteq crossed' /\ crossed' \subseteq crossed \cup {f}
      /\ Saving(f) => f \in crossed'
      /\ opening[o] = NoOpening
  BY DEF OpenRead
<1>2. opening' = [opening EXCEPT ![o] = v]
  BY DEF OpenRead
<1>3. disk[f] \in Text /\ u \in BOOLEAN /\ created \subseteq Sessions /\ sessions \subseteq created
  BY DEF EditorInv, EditorTypeOK
<1> HIDE DEF u
<1>4. /\ v \in [session : Sessions, file : Files, text : Text, unlocked : BOOLEAN]
      /\ v.session = s /\ v.file = f /\ v.text = disk[f]
  BY <1>3
<1> HIDE DEF v
<1> DEFINE Openings == {NoOpening} \cup
                         [session : Sessions, file : Files, text : Text, unlocked : BOOLEAN]
<1>5. opening \in [Openers -> Openings] /\ v \in Openings
  BY <1>4 DEF EditorInv, EditorTypeOK
<1>6. /\ opening' \in [Openers -> Openings]
      /\ \A p \in Openers : opening'[p] = IF p = o THEN v ELSE opening[p]
  <2> HIDE DEF Openings
  <2> QED
    BY <1>2, <1>5
<1>7. EditorTypeOK'
  BY <1>1, <1>6 DEF EditorInv, EditorTypeOK
<1>8. SavesFit'
  BY <1>1 DEF EditorInv, SavesFit
<1>9. OpeningsFit'
  BY <1>1, <1>3, <1>4, <1>6 DEF EditorInv, OpeningsFit
<1>10. ASSUME NEW g \in Files \ crossed'
       PROVE  Uncrossed(g)'
  <2>1. Uncrossed(g)
    BY <1>1 DEF EditorInv, OthersUncrossed
  <2>2. CASE g # f
    <3>1. LeavesAlone(g)
      BY <1>1, <1>4, <1>6, <2>2 DEF LeavesAlone, KeepsDisk, IsOpen
    <3> QED
      BY <2>1, <3>1, AloneIsUncrossed
  <2>3. CASE g = f
    <3>1. \A r \in Sessions, l \in Slots : ~Saves(r, l, f)'
      BY <1>1, <2>3 DEF Saving, SavedBy, Saves
    <3>2. ReadFromDisk(f)'
      BY <1>1, <1>4, <1>6, <2>1, <2>3 DEF Uncrossed, ReadFromDisk, OnDisk
    <3>3. CleanAtRest(f)'
      BY <1>1, <2>1, <2>3 DEF Uncrossed, CleanAtRest, OnDisk, Saving, SavedBy, IsOpen
    <3> QED
      BY <2>3, <3>1, <3>2, <3>3 DEF Uncrossed, SavedAlone, SavedAsShown
  <2> QED
    BY <2>2, <2>3
<1> QED
  BY <1>7, <1>8, <1>9, <1>10 DEF EditorInv, OthersUncrossed

LEMMA DetachedFit ==
    ASSUME EditorInv, NEW s \in Sessions, NEW f \in Files, save' = Detach(s, f),
           closing' = closing
    PROVE  /\ save' \in SaveTable /\ SavesFit'
           /\ \A r \in Sessions, l \in Slots, g \in Files : Saves(r, l, g)' <=> Saves(r, l, g)
           /\ \A r \in Sessions, l \in Slots :
                /\ save'[r][l].at = save[r][l].at /\ save'[r][l].file = save[r][l].file
                /\ save'[r][l] = save[r][l] \/ (r = s /\ Saves(r, l, f))
                /\ save'[r][l].text = save[r][l].text \/ save[r][l].at \in Unwritten
<1>1. save \in SaveTable /\ content \in [Sessions -> [Files -> Text]]
  BY DEF EditorInv, EditorTypeOK, SaveTable
<1>2. /\ save' \in SaveTable
      /\ \A r \in Sessions, l \in Slots :
           /\ save'[r][l].at = save[r][l].at /\ save'[r][l].file = save[r][l].file
           /\ save'[r][l] = save[r][l] \/ (r = s /\ Saves(r, l, f))
           /\ save'[r][l].text = save[r][l].text \/ save[r][l].at \in Unwritten
  <2>1. /\ Detach(s, f) \in SaveTable
        /\ \A r \in Sessions, l \in Slots :
                LET d == Detach(s, f)[r][l]
                IN  /\ d.at = save[r][l].at /\ d.file = save[r][l].file
                    /\ d = save[r][l] \/ (r = s /\ Saves(r, l, f))
                    /\ d.text = save[r][l].text \/ d.at \in Unwritten
    BY <1>1, DetachIs
  <2> QED
    BY <2>1
<1>3. SavesFit'
  BY <1>2 DEF EditorInv, SavesFit, Slots
<1> QED
  BY <1>2, <1>3 DEF Saves

LEMMA OpenFinishKeeps ==
    ASSUME EditorInv, NEW o \in Openers, OpenFinish(o)
    PROVE  EditorInv'
<1>1. PICK s \in Sessions, f \in Files :
        /\ opening[o].session = s /\ opening[o].file = f
        /\ opening[o].text \in Text /\ s \in created /\ User[s] \in Users
        /\ created' = created /\ sessions' = sessions /\ disk' = disk /\ closing' = closing
        /\ todo' = todo /\ updates' = updates /\ crossed' = crossed
        /\ late' = late /\ overwritten' = overwritten
        /\ save' = Detach(s, f)
        /\ files' = [files EXCEPT ![s] = @ \cup {f}]
        /\ content' = [content EXCEPT ![s][f] = opening[o].text]
        /\ is_modified' = [is_modified EXCEPT ![s][f] = FALSE]
        /\ file_locks' = IF opening[o].unlocked
                         THEN [file_locks EXCEPT ![f] = User[s]] ELSE file_locks
        /\ opening' = [opening EXCEPT ![o] = NoOpening]
  <2>1. opening[o] # NoOpening
    BY DEF OpenFinish
  <2>2. /\ opening[o].session \in Sessions /\ opening[o].file \in Files
        /\ opening[o].text \in Text /\ opening[o].session \in created
    BY <2>1 DEF EditorInv, EditorTypeOK, OpeningsFit
  <2>3. User[opening[o].session] \in Users
    BY <2>2, EditorConstants
  <2> QED
    BY <2>2, <2>3 DEF OpenFinish
<1>4. /\ save' \in SaveTable /\ SavesFit'
      /\ \A r \in Sessions, l \in Slots, g \in Files : Saves(r, l, g)' <=> Saves(r, l, g)
      /\ \A r \in Sessions, l \in Slots :
           save'[r][l] = save[r][l] \/ (r = s /\ Saves(r, l, f))
  BY <1>1, DetachedFit
<1>5. /\ content' \in [Sessions -> [Files -> Text]]
      /\ \A r \in Sessions, g \in Files :
           content'[r][g] = IF r = s /\ g = f THEN opening[o].text ELSE content[r][g]
  <2>1. content \in [Sessions -> [Files -> Text]]
    BY DEF EditorInv, EditorTypeOK
  <2> QED
    BY <1>1, <2>1, CellFilled
<1>6. /\ is_modified' \in [Sessions -> [Files -> BOOLEAN]]
      /\ \A r \in Sessions, g \in Files : ~(r = s /\ g = f) => is_modified'[r][g] = is_modified[r][g]
  <2> DEFINE n == FALSE
  <2>1. is_modified \in [Sessions -> [Files -> BOOLEAN]] /\ n \in BOOLEAN
    BY DEF EditorInv, EditorTypeOK
  <2>2. is_modified' = [is_modified EXCEPT ![s][f] = n]
    BY <1>1
  <2> HIDE DEF n
  <2> QED
    BY <2>1, <2>2, CellFilled
<1>7. /\ files' \in [Sessions -> SUBSET Files]
      /\ \A r \in Sessions : files'[r] = IF r = s THEN files[r] \cup {f} ELSE files[r]
  BY <1>1 DEF EditorInv, EditorTypeOK
<1>8. \A p \in Openers : opening'[p] = IF p = o THEN NoOpening ELSE opening[p]
  BY <1>1 DEF EditorInv, EditorTypeOK
<1>9. EditorTypeOK'
  <2>1. file_locks' \in [Files -> Users \cup {None}]
    BY <1>1 DEF EditorInv, EditorTypeOK
  <2>2. opening' \in [Openers -> {NoOpening} \cup
                      [session : Sessions, file : Files, text : Text, unlocked : BOOLEAN]]
    BY <1>1 DEF EditorInv, EditorTypeOK
  <2> QED
    BY <1>1, <1>4, <1>5, <1>6, <1>7, <2>1, <2>2 DEF EditorInv, EditorTypeOK, SaveTable
<1>10. OpeningsFit'
  BY <1>1, <1>7, <1>8 DEF EditorInv, OpeningsFit
<1>11. NoOpening.file \notin Files
  BY EditorConstants DEF NoOpening
<1>12. ASSUME NEW g \in Files \ crossed'
       PROVE  Uncrossed(g)'
  <2>1. Uncrossed(g)
    BY <1>1 DEF EditorInv, OthersUncrossed
  <2>2. CASE g # f
    <3>1. LeavesAlone(g)
      BY <1>1, <1>4, <1>5, <1>6, <1>7, <1>8, <1>11, <2>2 DEF LeavesAlone, KeepsDisk, IsOpen, Saves
    <3> QED
      BY <2>1, <3>1, AloneIsUncrossed
  <2>3. CASE g = f
    <3>1. BeingRead(f) /\ OnDisk(f, opening[o].text)
      BY <1>1, <2>1, <2>3 DEF BeingRead, Uncrossed, ReadFromDisk
    <3>2. \A r \in Sessions, l \in Slots : ~Saves(r, l, f)
      BY <2>1, <2>3, <3>1 DEF Uncrossed, SavedAlone
    <3>3. \A r \in Sessions, l \in Slots : ~Saves(r, l, f)'
      BY <1>4, <3>2
    <3>4. ReadFromDisk(f)'
      BY <1>1, <1>8, <1>11, <2>1, <2>3 DEF Uncrossed, ReadFromDisk, OnDisk
    <3>5. CleanAtRest(f)'
      <4> SUFFICES ASSUME NEW r \in Sessions, IsOpen(r, f)', ~is_modified'[r][f]
                   PROVE  OnDisk(f, content[r][f])'
        BY DEF CleanAtRest
      <4>1. CASE r = s
        BY <1>1, <1>5, <3>1, <4>1 DEF OnDisk
      <4>2. CASE r # s
        <5>1. IsOpen(r, f) /\ ~is_modified[r][f] /\ content'[r][f] = content[r][f]
          BY <1>1, <1>5, <1>6, <1>7, <4>2 DEF IsOpen
        <5>2. ~Saving(f)
          BY <3>2 DEF Saving, SavedBy, Saves
        <5> QED
          BY <1>1, <2>1, <2>3, <5>1, <5>2 DEF Uncrossed, CleanAtRest, OnDisk
      <4> QED
        BY <4>1, <4>2
    <3> QED
      BY <2>3, <3>3, <3>4, <3>5 DEF Uncrossed, SavedAlone, SavedAsShown
  <2> QED
    BY <2>2, <2>3
<1> QED
  BY <1>4, <1>9, <1>10, <1>12 DEF EditorInv, OthersUncrossed

\* Taking the mark of one file away.
LEMMA MarkCleared ==
    ASSUME is_modified \in [Sessions -> [Files -> BOOLEAN]], NEW s \in Sessions,
           NEW f \in Files, is_modified' = [is_modified EXCEPT ![s][f] = FALSE]
    PROVE  /\ is_modified' \in [Sessions -> [Files -> BOOLEAN]]
           /\ \A r \in Sessions, g \in Files :
                ~(r = s /\ g = f) => is_modified'[r][g] = is_modified[r][g]
<1> DEFINE n == FALSE
           b == [is_modified EXCEPT ![s][f] = n]
<1>1. is_modified' = b /\ n \in BOOLEAN
  OBVIOUS
<1> HIDE DEF n
<1>2. /\ b \in [Sessions -> [Files -> BOOLEAN]]
      /\ \A r \in Sessions, g \in Files :
           b[r][g] = IF r = s /\ g = f THEN n ELSE is_modified[r][g]
  BY ONLY <1>1, CellFilled, is_modified \in [Sessions -> [Files -> BOOLEAN]],
     s \in Sessions, f \in Files
<1> HIDE DEF b
<1> QED
  BY ONLY <1>1, <1>2

LEMMA CloseFileKeeps ==
    ASSUME EditorInv, NEW s \in Sessions, NEW f \in Files, CloseFile(s, f)
    PROVE  EditorInv'
<1>1. /\ created' = created /\ sessions' = sessions /\ disk' = disk /\ closing' = closing
      /\ todo' = todo /\ updates' = updates /\ crossed' = crossed
      /\ opening' = opening /\ late' = late /\ overwritten' = overwritten
      /\ content' = [content EXCEPT ![s][f] = Empty]
      /\ is_modified' = [is_modified EXCEPT ![s][f] = FALSE]
      /\ save' = Detach(s, f)
      /\ files' = [files EXCEPT ![s] = @ \ {f}]
      /\ file_locks' = Unlocked(s, f)
  BY DEF CloseFile
<1>2. /\ save' \in SaveTable /\ SavesFit'
      /\ \A r \in Sessions, l \in Slots, g \in Files : Saves(r, l, g)' <=> Saves(r, l, g)
      /\ \A r \in Sessions, l \in Slots :
           /\ save'[r][l].at = save[r][l].at
           /\ save'[r][l] = save[r][l] \/ (r = s /\ Saves(r, l, f))
           /\ save'[r][l].text = save[r][l].text \/ save[r][l].at \in Unwritten
  BY <1>1, DetachedFit
<1>3. /\ files' \in [Sessions -> SUBSET Files]
      /\ \A r \in Sessions : files'[r] = IF r = s THEN files[r] \ {f} ELSE files[r]
  BY <1>1 DEF EditorInv, EditorTypeOK
<1>0. /\ content' \in [Sessions -> [Files -> Text]]
      /\ is_modified' \in [Sessions -> [Files -> BOOLEAN]]
      /\ \A r \in Sessions, g \in Files : ~(r = s /\ g = f) =>
           content'[r][g] = content[r][g] /\ is_modified'[r][g] = is_modified[r][g]
  <2>1. /\ content \in [Sessions -> [Files -> Text]] /\ Empty \in Text
        /\ is_modified \in [Sessions -> [Files -> BOOLEAN]]
    BY DEF EditorInv, EditorTypeOK, Text
  <2>2. /\ content' \in [Sessions -> [Files -> Text]]
        /\ \A r \in Sessions, g \in Files : ~(r = s /\ g = f) =>
             content'[r][g] = content[r][g]
    BY <1>1, <2>1, CellFilled
  <2>3. /\ is_modified' \in [Sessions -> [Files -> BOOLEAN]]
        /\ \A r \in Sessions, g \in Files : ~(r = s /\ g = f) =>
             is_modified'[r][g] = is_modified[r][g]
    BY <1>1, <2>1, MarkCleared
  <2> QED
    BY <2>2, <2>3
<1>4. EditorTypeOK'
  <2>1. file_locks' \in [Files -> Users \cup {None}]
    BY <1>1 DEF EditorInv, EditorTypeOK, Unlocked
  <2> QED
    BY <1>0, <1>1, <1>2, <1>3, <2>1 DEF EditorInv, EditorTypeOK, SaveTable
<1>5. OpeningsFit'
  BY <1>1, <1>3 DEF EditorInv, OpeningsFit
<1>6. ASSUME NEW g \in Files \ crossed'
      PROVE  Uncrossed(g)'
  <2>1. Uncrossed(g)
    BY <1>1 DEF EditorInv, OthersUncrossed
  <2>2. CASE g # f
    <3>1. LeavesAlone(g)
      BY <1>0, <1>1, <1>2, <1>3, <2>2 DEF LeavesAlone, KeepsDisk, IsOpen, Saves
    <3> QED
      BY <2>1, <3>1, AloneIsUncrossed
  <2>3. CASE g = f
    <3>1. ~IsOpen(s, f)' /\ \A r \in Sessions : IsOpen(r, f)' => IsOpen(r, f)
      BY <1>1, <1>3 DEF IsOpen
    <3>2. SavedAlone(f)'
      <4> SUFFICES ASSUME NEW r \in Sessions, NEW k \in Slots, Saves(r, k, f)'
                   PROVE  /\ \A q \in Sessions, l \in Slots : Saves(q, l, f)' => q = r /\ l = k
                          /\ \A q \in Sessions : ~IsOpen(q, f)' \/ (q = r /\ save'[r][k].own)
                          /\ ~BeingRead(f)'
        BY DEF SavedAlone
      <4>1. Saves(r, k, f)
        BY <1>2
      <4>2. /\ \A q \in Sessions, l \in Slots : Saves(q, l, f) => q = r /\ l = k
            /\ \A q \in Sessions : IsOpen(q, f) => q = r /\ save[r][k].own
            /\ ~BeingRead(f)
        BY <2>1, <2>3, <4>1 DEF Uncrossed, SavedAlone
      <4>3. ~BeingRead(f)'
        BY <1>1, <4>2 DEF BeingRead
      <4>4. ASSUME NEW q \in Sessions, IsOpen(q, f)'
            PROVE  q = r /\ save'[r][k].own
        <5>1. q # s /\ q = r /\ save[r][k].own
          BY <3>1, <4>2, <4>4
        <5>2. save'[r][k] = save[r][k]
          BY <1>2, <5>1
        <5> QED
          BY <5>1, <5>2
      <4> QED
        BY <1>2, <4>2, <4>3, <4>4
    <3>3. SavedAsShown(f)'
      <4> SUFFICES ASSUME NEW r \in Sessions, NEW k \in Slots, Saves(r, k, f)'
                   PROVE  /\ save'[r][k].at \in {"opened", "writing"} => OnDisk(f, Empty)'
                          /\ IsOpen(r, f)' /\ save'[r][k].at = "writing"
                               => save'[r][k].text = content'[r][f]
                          /\ IsOpen(r, f)' /\ save'[r][k].at = "flushed"
                               => OnDisk(f, content[r][f])'
        BY DEF SavedAsShown
      <4>1. /\ Saves(r, k, f) /\ save'[r][k].at = save[r][k].at
            /\ save'[r][k].text = save[r][k].text \/ save[r][k].at # "writing"
        BY <1>2 DEF Unwritten
      <4>2. IsOpen(r, f)' => IsOpen(r, f) /\ content'[r][f] = content[r][f]
        BY <1>0, <3>1
      <4> QED
        BY <1>1, <2>1, <2>3, <4>1, <4>2 DEF Uncrossed, SavedAsShown, OnDisk
    <3>4. ReadFromDisk(f)'
      BY <1>1, <2>1, <2>3 DEF Uncrossed, ReadFromDisk, OnDisk
    <3>5. CleanAtRest(f)'
      <4>1. ~Saving(f)' => ~Saving(f)
        BY <1>2 DEF Saving, SavedBy, Saves
      <4> QED
        BY <1>0, <1>1, <2>1, <2>3, <3>1, <4>1 DEF Uncrossed, CleanAtRest, OnDisk
    <3> QED
      BY <2>3, <3>2, <3>3, <3>4, <3>5 DEF Uncrossed
  <2> QED
    BY <2>2, <2>3
<1> QED
  BY <1>2, <1>4, <1>5, <1>6 DEF EditorInv, OthersUncrossed

\* A save under way has a file, and going on keeps the slots in order.
LEMMA SteppedFit ==
    ASSUME EditorInv, NEW s \in Sessions, NEW k \in Slots,
           NEW at \in {"opened", "writing", "flushed"}, NEW t,
           Steps(s, k, at, t), save[s][k].at \in Active, closing' = closing
    PROVE  /\ save[s][k].file \in Files /\ SavesFit'
           /\ \A r \in Sessions, l \in Slots, g \in Files : Saves(r, l, g)' <=> Saves(r, l, g)
<1>1. save[s][k].at # "idle" /\ at # "idle" /\ at \in Active
  BY DEF Active, Unwritten
<1>2. save[s][k].file \in Files
  BY <1>1 DEF EditorInv, SavesFit
<1>3. \A r \in Sessions, l \in Slots :
        /\ save'[r][l].file = save[r][l].file
        /\ save'[r][l].at # "idle" => save[r][l].at # "idle"
        /\ save'[r][l].at \in Active <=> save[r][l].at \in Active
  BY <1>1 DEF Steps
<1>4. SavesFit'
  BY <1>3 DEF EditorInv, SavesFit, Slots
<1> QED
  BY <1>2, <1>3, <1>4 DEF Saves

LEMMA SaveOpenKeeps ==
    ASSUME EditorInv, NEW s \in Sessions, NEW k \in Slots, SaveOpen(s, k)
    PROVE  EditorInv'
<1>0. PICK f : f = save[s][k].file
  OBVIOUS
<1>1. /\ created' = created /\ sessions' = sessions /\ closing' = closing
      /\ todo' = todo /\ updates' = updates /\ crossed' = crossed /\ content' = content
      /\ is_modified' = is_modified /\ opening' = opening /\ files' = files
      /\ file_locks' = file_locks /\ late' = late /\ overwritten' = overwritten
      /\ save[s][k].at = "begun" /\ save[s][k].at \in Active
      /\ disk' = [disk EXCEPT ![f] = Empty]
      /\ save' = [save EXCEPT ![s][k].at = "opened"]
  BY <1>0 DEF SaveOpen, Active, Unwritten
<1>2. save \in SaveTable /\ save[s][k] \in SaveState /\ f \in Files
  <2>1. save[s][k].at # "idle"
    BY <1>1
  <2> QED
    BY <1>0, <2>1 DEF EditorInv, EditorTypeOK, SaveTable, SavesFit
<1>3. PICK t \in Text : t = save[s][k].text
  BY <1>2, SaveStates
<1>4. Steps(s, k, "opened", t)
  BY <1>1, <1>2, <1>3, SlotStepped
<1>5. /\ SavesFit'
      /\ \A r \in Sessions, l \in Slots, g \in Files : Saves(r, l, g)' <=> Saves(r, l, g)
  BY <1>1, <1>4, SteppedFit
<1>6. disk' \in [Files -> Text] /\ \A g \in Files : disk'[g] = IF g = f THEN Empty ELSE disk[g]
  BY <1>1 DEF EditorInv, EditorTypeOK, Text
<1>7. EditorTypeOK'
  BY <1>1, <1>4, <1>6 DEF EditorInv, EditorTypeOK, Steps, SaveTable
<1>8. OpeningsFit'
  BY <1>1 DEF EditorInv, OpeningsFit
<1>9. ASSUME NEW g \in Files \ crossed'
      PROVE  Uncrossed(g)'
  <2>1. Uncrossed(g)
    BY <1>1 DEF EditorInv, OthersUncrossed
  <2>2. CASE g # f
    <3>1. LeavesAlone(g)
      BY <1>0, <1>1, <1>4, <1>5, <1>6, <2>2 DEF LeavesAlone, KeepsDisk, IsOpen, Saves, Steps
    <3> QED
      BY <2>1, <3>1, AloneIsUncrossed
  <2>3. CASE g = f
    <3>1. Saves(s, k, f)
      BY <1>0, <1>1 DEF Saves
    <3>2. /\ \A q \in Sessions, l \in Slots : Saves(q, l, f) => q = s /\ l = k
          /\ \A q \in Sessions : IsOpen(q, f) => q = s /\ save[s][k].own
          /\ ~BeingRead(f)
      BY <2>1, <2>3, <3>1 DEF Uncrossed, SavedAlone
    <3>3. save'[s][k].at = "opened" /\ save'[s][k].own = save[s][k].own
      BY <1>4 DEF Steps
    <3>4. SavedAlone(f)'
      BY <1>1, <1>2, <1>5, <3>2, <3>3 DEF SavedAlone, IsOpen, BeingRead
    <3>5. SavedAsShown(f)'
      BY <1>2, <1>5, <1>6, <3>2, <3>3 DEF SavedAsShown, OnDisk
    <3>6. ReadFromDisk(f)'
      BY <1>1, <3>2 DEF BeingRead, ReadFromDisk
    <3>7. CleanAtRest(f)'
      BY <1>2, <1>5, <3>1 DEF CleanAtRest, Saving, SavedBy, Saves
    <3> QED
      BY <2>3, <3>4, <3>5, <3>6, <3>7 DEF Uncrossed
  <2> QED
    BY <2>2, <2>3
<1> QED
  BY <1>5, <1>7, <1>8, <1>9 DEF EditorInv, OthersUncrossed

LEMMA SaveWriteKeeps ==
    ASSUME EditorInv, NEW s \in Sessions, NEW k \in Slots, SaveWrite(s, k)
    PROVE  EditorInv'
<1>0. PICK f : f = save[s][k].file
  OBVIOUS
<1> DEFINE t == IF save[s][k].own THEN content[s][save[s][k].file] ELSE save[s][k].text
<1>1. /\ created' = created /\ sessions' = sessions /\ disk' = disk /\ closing' = closing
      /\ todo' = todo /\ updates' = updates /\ crossed' = crossed /\ content' = content
      /\ late' = late /\ overwritten' = overwritten
      /\ is_modified' = is_modified /\ opening' = opening /\ files' = files
      /\ file_locks' = file_locks
      /\ save[s][k].at = "opened" /\ save[s][k].at \in Active
      /\ save' = [save EXCEPT ![s][k].at = "writing", ![s][k].text = t]
  BY DEF SaveWrite, Active, Unwritten
<1>2. save \in SaveTable /\ save[s][k] \in SaveState /\ f \in Files
  <2>1. save[s][k].at # "idle"
    BY <1>1
  <2> QED
    BY <1>0, <2>1 DEF EditorInv, EditorTypeOK, SaveTable, SavesFit
<1>3. t \in Text /\ (save[s][k].own => t = content[s][f])
  <2>1. content[s][f] \in Text /\ save[s][k].text \in Text
    BY <1>2, SaveStates DEF EditorInv, EditorTypeOK
  <2> QED
    BY <1>0, <2>1
<1>4. PICK u \in Text : /\ Steps(s, k, "writing", u)
                        /\ save[s][k].own => u = content[s][f]
  <2> HIDE DEF t
  <2> QED
    BY <1>1, <1>2, <1>3, SlotStepped
<1>5. /\ SavesFit'
      /\ \A r \in Sessions, l \in Slots, g \in Files : Saves(r, l, g)' <=> Saves(r, l, g)
  BY <1>1, <1>4, SteppedFit
<1>6. EditorTypeOK'
  BY <1>1, <1>4 DEF EditorInv, EditorTypeOK, Steps, SaveTable
<1>7. OpeningsFit'
  BY <1>1 DEF EditorInv, OpeningsFit
<1>8. ASSUME NEW g \in Files \ crossed'
      PROVE  Uncrossed(g)'
  <2>1. Uncrossed(g)
    BY <1>1 DEF EditorInv, OthersUncrossed
  <2>2. CASE g # f
    <3>1. LeavesAlone(g)
      BY <1>0, <1>1, <1>4, <1>5, <2>2 DEF LeavesAlone, KeepsDisk, IsOpen, Saves, Steps
    <3> QED
      BY <2>1, <3>1, AloneIsUncrossed
  <2>3. CASE g = f
    <3>1. Saves(s, k, f)
      BY <1>0, <1>1 DEF Saves
    <3>2. /\ \A q \in Sessions, l \in Slots : Saves(q, l, f) => q = s /\ l = k
          /\ \A q \in Sessions : IsOpen(q, f) => q = s /\ save[s][k].own
          /\ ~BeingRead(f)
      BY <2>1, <2>3, <3>1 DEF Uncrossed, SavedAlone
    <3>3. /\ save'[s][k].at = "writing" /\ save'[s][k].text = u
          /\ save'[s][k].own = save[s][k].own
      BY <1>4 DEF Steps
    <3>4. SavedAlone(f)'
      BY <1>1, <1>2, <1>5, <3>2, <3>3 DEF SavedAlone, IsOpen, BeingRead
    <3>5. SavedAsShown(f)'
      <4> SUFFICES ASSUME NEW r \in Sessions, NEW l \in Slots, Saves(r, l, f)'
                   PROVE  /\ save'[r][l].at \in {"opened", "writing"} => OnDisk(f, Empty)'
                          /\ IsOpen(r, f)' /\ save'[r][l].at = "writing"
                               => save'[r][l].text = content'[r][f]
                          /\ IsOpen(r, f)' /\ save'[r][l].at = "flushed"
                               => OnDisk(f, content[r][f])'
        BY DEF SavedAsShown
      <4>1. r = s /\ l = k
        BY <1>2, <1>5, <3>2
      <4> QED
        BY <1>1, <1>4, <2>1, <2>3, <3>1, <3>2, <3>3, <4>1
           DEF IsOpen, OnDisk, Uncrossed, SavedAsShown
    <3>6. ReadFromDisk(f)'
      BY <1>1, <2>1, <2>3 DEF Uncrossed, ReadFromDisk, OnDisk
    <3>7. CleanAtRest(f)'
      BY <1>2, <1>5, <3>1 DEF CleanAtRest, Saving, SavedBy, Saves
    <3> QED
      BY <2>3, <3>4, <3>5, <3>6, <3>7 DEF Uncrossed
  <2> QED
    BY <2>2, <2>3
<1> QED
  BY <1>5, <1>6, <1>7, <1>8 DEF EditorInv, OthersUncrossed

LEMMA SaveFlushKeeps ==
    ASSUME EditorInv, NEW s \in Sessions, NEW k \in Slots, SaveFlush(s, k)
    PROVE  EditorInv'
<1>0. PICK f : f = save[s][k].file
  OBVIOUS
<1>1. /\ created' = created /\ sessions' = sessions /\ closing' = closing
      /\ todo' = todo /\ updates' = updates /\ crossed' = crossed /\ content' = content
      /\ is_modified' = is_modified /\ opening' = opening /\ files' = files
      /\ file_locks' = file_locks
      /\ save[s][k].at = "writing" /\ save[s][k].at \in Active
      /\ late' = late /\ overwritten' = overwritten
      /\ \E d \in Written(disk[f], save[s][k].text) : disk' = [disk EXCEPT ![f] = d]
      /\ save' = [save EXCEPT ![s][k].at = "flushed", ![s][k].text = Empty]
  BY <1>0 DEF SaveFlush, Active
<1>2. save \in SaveTable /\ save[s][k] \in SaveState /\ f \in Files
  <2>1. save[s][k].at # "idle"
    BY <1>1
  <2> QED
    BY <1>0, <2>1 DEF EditorInv, EditorTypeOK, SaveTable, SavesFit
<1>3. PICK t \in Text : t = save[s][k].text
  BY <1>2, SaveStates
<1>4. Steps(s, k, "flushed", Empty)
  <2>1. Empty \in Text
    BY DEF Text
  <2> QED
    BY <1>1, <1>2, <2>1, SlotStepped
<1>5. /\ SavesFit'
      /\ \A r \in Sessions, l \in Slots, g \in Files : Saves(r, l, g)' <=> Saves(r, l, g)
  BY <1>1, <1>4, SteppedFit
<1>6. /\ disk' \in [Files -> Text] /\ \A g \in Files \ {f} : disk'[g] = disk[g]
      /\ disk[f] = Empty => disk'[f] = t
  <2>1. disk \in [Files -> Text] /\ disk[f] \in Text
    BY <1>2 DEF EditorInv, EditorTypeOK
  <2>2. PICK d \in Written(disk[f], t) : disk' = [disk EXCEPT ![f] = d]
    BY <1>1, <1>3
  <2>3. d \in Text /\ (disk[f] = Empty => d = t)
    BY <1>3, <2>1, <2>2, WrittenIs
  <2> QED
    BY <1>2, <2>1, <2>2, <2>3
<1>7. EditorTypeOK'
  BY <1>1, <1>4, <1>6 DEF EditorInv, EditorTypeOK, Steps, SaveTable
<1>8. OpeningsFit'
  BY <1>1 DEF EditorInv, OpeningsFit
<1>9. ASSUME NEW g \in Files \ crossed'
      PROVE  Uncrossed(g)'
  <2>1. Uncrossed(g)
    BY <1>1 DEF EditorInv, OthersUncrossed
  <2>2. CASE g # f
    <3>2. KeepsDisk(g)
      BY <1>1, <1>6, <2>2 DEF KeepsDisk
    <3>3. \A r \in Sessions, l \in Slots :
            save'[r][l] = save[r][l] \/ (~Saves(r, l, g) /\ ~Saves(r, l, g)')
      BY <1>0, <1>4, <1>5, <2>2 DEF Saves, Steps
    <3>1. LeavesAlone(g)
      BY <1>1, <3>2, <3>3 DEF LeavesAlone, IsOpen
    <3> QED
      BY <2>1, <3>1, AloneIsUncrossed
  <2>3. CASE g = f
    <3>1. Saves(s, k, f)
      BY <1>0, <1>1 DEF Saves
    <3>2. /\ \A q \in Sessions, l \in Slots : Saves(q, l, f) => q = s /\ l = k
          /\ \A q \in Sessions : IsOpen(q, f) => q = s /\ save[s][k].own
          /\ ~BeingRead(f)
      BY <2>1, <2>3, <3>1 DEF Uncrossed, SavedAlone
    <3>3. OnDisk(f, Empty) /\ (IsOpen(s, f) => t = content[s][f])
      BY <1>1, <1>3, <2>1, <2>3, <3>1 DEF Uncrossed, SavedAsShown
    <3>4. /\ save'[s][k].at = "flushed" /\ save'[s][k].own = save[s][k].own
      BY <1>4 DEF Steps
    <3>5. SavedAlone(f)'
      BY <1>1, <1>2, <1>5, <3>2, <3>4 DEF SavedAlone, IsOpen, BeingRead
    <3>6. SavedAsShown(f)'
      <4> SUFFICES ASSUME NEW r \in Sessions, NEW l \in Slots, Saves(r, l, f)'
                   PROVE  /\ save'[r][l].at \in {"opened", "writing"} => OnDisk(f, Empty)'
                          /\ IsOpen(r, f)' /\ save'[r][l].at = "writing"
                               => save'[r][l].text = content'[r][f]
                          /\ IsOpen(r, f)' /\ save'[r][l].at = "flushed"
                               => OnDisk(f, content[r][f])'
        BY DEF SavedAsShown
      <4>1. r = s /\ l = k
        BY <1>2, <1>5, <3>2
      <4> QED
        BY <1>1, <1>2, <1>6, <3>3, <3>4, <4>1 DEF IsOpen, OnDisk
    <3>7. ReadFromDisk(f)'
      BY <1>1, <3>2 DEF BeingRead, ReadFromDisk
    <3>8. CleanAtRest(f)'
      BY <1>2, <1>5, <3>1 DEF CleanAtRest, Saving, SavedBy, Saves
    <3> QED
      BY <2>3, <3>5, <3>6, <3>7, <3>8 DEF Uncrossed
  <2> QED
    BY <2>2, <2>3
<1> QED
  BY <1>5, <1>7, <1>8, <1>9 DEF EditorInv, OthersUncrossed

\* A save that is done leaves the file as the session shows it.
LEMMA DoneIsUncrossed ==
    ASSUME NEW s \in Sessions, NEW k \in Slots, NEW f \in Files, Uncrossed(f),
           Saves(s, k, f), save[s][k].at = "flushed", ~Saves(s, k, f)',
           \A r \in Sessions, l \in Slots : Saves(r, l, f)' => Saves(r, l, f),
           KeepsDisk(f), content' = content, opening' = opening,
           \A r \in Sessions : IsOpen(r, f)' => IsOpen(r, f)
    PROVE  Uncrossed(f)'
<1>1. /\ \A q \in Sessions, l \in Slots : Saves(q, l, f) => q = s /\ l = k
      /\ \A q \in Sessions : IsOpen(q, f) => q = s
      /\ ~BeingRead(f)
  BY DEF Uncrossed, SavedAlone
<1>2. IsOpen(s, f) => OnDisk(f, content[s][f])
  BY DEF Uncrossed, SavedAsShown
<1>3. \A q \in Sessions, l \in Slots : ~Saves(q, l, f)'
  BY <1>1
<1>4. ReadFromDisk(f)'
  BY <1>1 DEF ReadFromDisk, BeingRead
<1>5. CleanAtRest(f)'
  BY <1>1, <1>2 DEF CleanAtRest, OnDisk, KeepsDisk
<1> QED
  BY <1>3, <1>4, <1>5 DEF Uncrossed, SavedAlone, SavedAsShown

\* mark_saved, for the file of a save that has one
LEMMA MarkSavedIs ==
    ASSUME EditorInv, NEW s \in Sessions, NEW k \in Slots, NEW f \in Files,
           save[s][k].file = f, is_modified' = MarkSaved(s, k)
    PROVE  /\ is_modified' \in [Sessions -> [Files -> BOOLEAN]]
           /\ \A r \in Sessions, g \in Files :
                ~(r = s /\ g = f) => is_modified'[r][g] = is_modified[r][g]
<1>1. is_modified \in [Sessions -> [Files -> BOOLEAN]]
  BY DEF EditorInv, EditorTypeOK
<1>2. CASE is_modified' = is_modified
  BY <1>1, <1>2
<1>3. CASE is_modified' = [is_modified EXCEPT ![s][f] = FALSE]
  <2> DEFINE n == FALSE
  <2>1. is_modified' = [is_modified EXCEPT ![s][f] = n] /\ n \in BOOLEAN
    BY <1>3
  <2> HIDE DEF n
  <2> QED
    BY <1>1, <2>1, CellFilled
<1>4. is_modified' = is_modified \/ is_modified' = [is_modified EXCEPT ![s][f] = FALSE]
  BY DEF MarkSaved
<1> QED
  BY <1>2, <1>3, <1>4

LEMMA NothingFilled ==
    ASSUME NEW a \in SaveTable, NEW s \in Sessions, NEW k \in Slots
    PROVE  /\ [a EXCEPT ![s][k] = NoSave] \in SaveTable
           /\ \A r \in Sessions, l \in Slots :
                [a EXCEPT ![s][k] = NoSave][r][l] = IF r = s /\ l = k THEN NoSave ELSE a[r][l]
<1> DEFINE n == NoSave
<1>1. n \in SaveState
  BY SomeSaveStates
<1> HIDE DEF n
<1>2. /\ [a EXCEPT ![s][k] = n] \in SaveTable
      /\ \A r \in Sessions, l \in Slots :
           [a EXCEPT ![s][k] = n][r][l] = IF r = s /\ l = k THEN n ELSE a[r][l]
  BY <1>1, SlotFilled
<1> QED
  BY <1>2 DEF n

\* Emptying a slot.
LEMMA SlotEmptied ==
    ASSUME EditorInv, NEW s \in Sessions, NEW k \in Slots,
           save' = [save EXCEPT ![s][k] = NoSave]
    PROVE  /\ save' \in SaveTable
           /\ \A r \in Sessions, l \in Slots :
                IF r = s /\ l = k THEN save'[r][l].at = "idle" ELSE save'[r][l] = save[r][l]
           /\ closing' = closing => SavesFit'
           /\ \A g \in Files : ~Saves(s, k, g)'
           /\ \A r \in Sessions, l \in Slots, g \in Files : Saves(r, l, g)' => Saves(r, l, g)
<1>1. save \in SaveTable /\ NoSave \in SaveState
  BY SomeSaveStates DEF EditorInv, EditorTypeOK, SaveTable
<1>2. NoSave.at = "idle"
  BY DEF NoSave
<1>3. /\ save' \in SaveTable
      /\ \A r \in Sessions, l \in Slots :
           save'[r][l] = IF r = s /\ l = k THEN NoSave ELSE save[r][l]
  <2> DEFINE b == [save EXCEPT ![s][k] = NoSave]
  <2>1. save' = b
    OBVIOUS
  <2>2. b \in SaveTable /\ \A r \in Sessions, l \in Slots :
                             b[r][l] = IF r = s /\ l = k THEN NoSave ELSE save[r][l]
    BY ONLY <1>1, NothingFilled, s \in Sessions, k \in Slots
  <2> HIDE DEF b
  <2> QED
    BY <2>1, <2>2
<1>4. closing' = closing => SavesFit'
  BY <1>2, <1>3 DEF EditorInv, SavesFit, Slots
<1> QED
  BY <1>2, <1>3, <1>4 DEF Saves, Active, Unwritten

LEMMA SaveDoneKeeps ==
    ASSUME EditorInv, NEW s \in Sessions, NEW k \in Slots, SaveDone(s, k)
    PROVE  EditorInv'
<1>0. PICK f : f = save[s][k].file
  OBVIOUS
<1>1. /\ created' = created /\ sessions' = sessions /\ closing' = closing /\ disk' = disk
      /\ todo' = todo /\ updates' = updates /\ crossed' = crossed /\ content' = content
      /\ late' = late /\ overwritten' = overwritten
      /\ opening' = opening /\ files' = files /\ file_locks' = file_locks
      /\ save[s][k].at = "flushed"
      /\ is_modified' = MarkSaved(s, k)
      /\ save' = [save EXCEPT ![s][k] = NoSave]
  BY DEF SaveDone
<1>2. f \in Files /\ Saves(s, k, f)
  <2>1. save[s][k].at # "idle"
    BY <1>1
  <2> QED
    BY <1>0, <1>1, <2>1 DEF EditorInv, SavesFit, Saves, Active
<1>3. /\ is_modified' \in [Sessions -> [Files -> BOOLEAN]]
      /\ \A r \in Sessions, g \in Files :
           ~(r = s /\ g = f) => is_modified'[r][g] = is_modified[r][g]
  BY <1>0, <1>1, <1>2, MarkSavedIs
<1>4. /\ save' \in SaveTable /\ SavesFit'
      /\ \A r \in Sessions, l \in Slots : ~(r = s /\ l = k) => save'[r][l] = save[r][l]
      /\ \A g \in Files : ~Saves(s, k, g)'
      /\ \A r \in Sessions, l \in Slots, g \in Files : Saves(r, l, g)' => Saves(r, l, g)
  <2>1. save' = [save EXCEPT ![s][k] = NoSave] /\ closing' = closing
    BY <1>1
  <2>2. \A r \in Sessions, l \in Slots :
          IF r = s /\ l = k THEN save'[r][l].at = "idle" ELSE save'[r][l] = save[r][l]
    BY <2>1, SlotEmptied
  <2>3. /\ save' \in SaveTable /\ SavesFit'
        /\ \A g \in Files : ~Saves(s, k, g)'
        /\ \A r \in Sessions, l \in Slots, g \in Files : Saves(r, l, g)' => Saves(r, l, g)
    BY <2>1, SlotEmptied
  <2> QED
    BY <2>2, <2>3
<1>5. EditorTypeOK'
  BY <1>1, <1>3, <1>4 DEF EditorInv, EditorTypeOK, SaveTable
<1>6. OpeningsFit'
  BY <1>1 DEF EditorInv, OpeningsFit
<1>7. ASSUME NEW g \in Files \ crossed'
      PROVE  Uncrossed(g)'
  <2>1. Uncrossed(g)
    BY <1>1 DEF EditorInv, OthersUncrossed
  <2>2. CASE g # f
    <3>1. LeavesAlone(g)
      BY <1>0, <1>1, <1>3, <1>4, <2>2 DEF LeavesAlone, KeepsDisk, IsOpen, Saves
    <3> QED
      BY <2>1, <3>1, AloneIsUncrossed
  <2>3. CASE g = f
    <3>1. \A r \in Sessions : IsOpen(r, f)' => IsOpen(r, f)
      BY <1>1 DEF IsOpen
    <3>2. KeepsDisk(f)
      BY <1>1 DEF KeepsDisk
    <3> QED
      BY <1>1, <1>2, <1>4, <2>1, <2>3, <3>1, <3>2, DoneIsUncrossed
  <2> QED
    BY <2>2, <2>3
<1> QED
  BY <1>4, <1>5, <1>6, <1>7 DEF EditorInv, OthersUncrossed

\* A save that begins in a slot that is not at work.
LEMMA BeginKeeps ==
    ASSUME EditorInv, NEW s \in Sessions, NEW k \in Slots, NEW f \in Files,
           BeginSave(s, k, f), save[s][k].at \notin Active,
           k = "auto" => AutoSave, k # "close",
           UNCHANGED <<created, sessions, files, content, is_modified, disk, file_locks,
                       opening, closing, todo, updates, late>>
    PROVE  EditorInv'
<1>1. Begins(s, k, f)
  BY BeginSaveIs DEF EditorInv
<1>2. /\ Begun(f).at = "begun" /\ Begun(f).file = f
  BY DEF Begun
<1>3. SavesFit'
  BY <1>1, <1>2 DEF EditorInv, SavesFit, Begins, Slots
<1>4. EditorTypeOK'
  BY <1>1 DEF EditorInv, EditorTypeOK, Begins, SaveTable
<1>5. OpeningsFit'
  BY DEF EditorInv, OpeningsFit
<1>6. ASSUME NEW g \in Files \ crossed'
      PROVE  Uncrossed(g)'
  <2>1. CASE g = f
    <3>1. \A r \in Sessions : IsOpen(r, f)' => IsOpen(r, f)
      BY DEF IsOpen
    <3> QED
      BY <1>1, <2>1, <3>1, BegunIsUncrossed DEF EditorInv
  <2>2. CASE g # f
    <3>1. g \notin crossed
      BY <1>1, <2>2 DEF Begins
    <3>2. Uncrossed(g)
      BY <3>1 DEF EditorInv, OthersUncrossed
    <3>3. LeavesAlone(g)
      BY <1>1, <1>2, <2>2 DEF Begins, LeavesAlone, KeepsDisk, IsOpen, Saves
    <3> QED
      BY <3>2, <3>3, AloneIsUncrossed
  <2> QED
    BY <2>1, <2>2
<1> QED
  BY <1>3, <1>4, <1>5, <1>6 DEF EditorInv, OthersUncrossed

LEMMA SaveFileKeeps ==
    ASSUME EditorInv, NEW s \in Sessions, NEW f \in Files, SaveFile(s, f)
    PROVE  EditorInv'
<1>1. "save" \in Slots /\ save[s]["save"].at \notin Active
  BY DEF SaveFile, NoSave, Slots, Active, Unwritten
<1> QED
  BY <1>1, BeginKeeps DEF SaveFile

LEMMA AutoSaveFiresKeeps ==
    ASSUME EditorInv, NEW s \in Sessions, AutoSaveFires(s)
    PROVE  EditorInv'
<1>0. PICK f : f = save[s]["auto"].file
  OBVIOUS
<1>1. /\ "auto" \in Slots /\ save[s]["auto"].at = "asleep"
      /\ UNCHANGED <<created, sessions, files, content, is_modified, disk, file_locks,
                     opening, closing, todo, updates, late>>
  BY DEF AutoSaveFires, Slots
<1>2. save[s]["auto"].at \notin Active /\ save[s]["auto"].at # "idle"
  BY <1>1 DEF Active, Unwritten
<1>3. f \in Files /\ AutoSave
  BY <1>0, <1>1, <1>2, EditorConstants DEF EditorInv, SavesFit
<1>4. CASE BeginSave(s, "auto", f)
  BY <1>1, <1>2, <1>3, <1>4, BeginKeeps
<1>5. CASE save' = [save EXCEPT ![s]["auto"] = NoSave] /\ UNCHANGED <<overwritten, crossed>>
  <2>1. /\ save' \in SaveTable /\ SavesFit'
        /\ \A r \in Sessions, l \in Slots :
             IF r = s /\ l = "auto" THEN save'[r][l].at = "idle"
                                    ELSE save'[r][l] = save[r][l]
        /\ \A g \in Files : ~Saves(s, "auto", g)'
    BY <1>1, <1>5, SlotEmptied
  <2>2. EditorTypeOK' /\ OpeningsFit'
    BY <1>1, <1>5, <2>1 DEF EditorInv, EditorTypeOK, OpeningsFit, SaveTable
  <2>3. ASSUME NEW g \in Files
        PROVE  LeavesAlone(g)
    BY <1>1, <1>2, <1>5, <2>1 DEF LeavesAlone, KeepsDisk, Saves, IsOpen
  <2> QED
    BY <1>5, <2>1, <2>2, <2>3, AloneIsUncrossed DEF EditorInv, OthersUncrossed
<1> QED
  BY <1>0, <1>4, <1>5 DEF AutoSaveFires

LEMMA FormatFileKeeps ==
    ASSUME EditorInv, NEW s \in Sessions, NEW f \in Files, FormatFile(s, f)
    PROVE  EditorInv'
<1>1. /\ created' = created /\ sessions' = sessions /\ closing' = closing /\ disk' = disk
      /\ todo' = todo /\ updates' = updates /\ crossed' = crossed \cup {f}
      /\ opening' = opening /\ files' = files /\ file_locks' = file_locks /\ save' = save
      /\ late' = late /\ overwritten' = overwritten
      /\ content' = [content EXCEPT ![s][f] = Formatted[@]]
      /\ is_modified' = [is_modified EXCEPT ![s][f] = TRUE]
  BY DEF FormatFile
<1>2. /\ content' \in [Sessions -> [Files -> Text]]
      /\ \A r \in Sessions, g \in Files : ~(r = s /\ g = f) => content'[r][g] = content[r][g]
  <2> DEFINE c == Formatted[content[s][f]]
  <2>1. content \in [Sessions -> [Files -> Text]] /\ c \in Text
    BY EditorConstants DEF EditorInv, EditorTypeOK, Text
  <2>2. content' = [content EXCEPT ![s][f] = c]
    BY <1>1
  <2> HIDE DEF c
  <2> QED
    BY <2>1, <2>2, CellFilled
<1>3. /\ is_modified' \in [Sessions -> [Files -> BOOLEAN]]
      /\ \A r \in Sessions, g \in Files :
           ~(r = s /\ g = f) => is_modified'[r][g] = is_modified[r][g]
  <2> DEFINE n == TRUE
  <2>1. is_modified \in [Sessions -> [Files -> BOOLEAN]] /\ n \in BOOLEAN
    BY DEF EditorInv, EditorTypeOK
  <2>2. is_modified' = [is_modified EXCEPT ![s][f] = n]
    BY <1>1
  <2> HIDE DEF n
  <2> QED
    BY <2>1, <2>2, CellFilled
<1>4. EditorTypeOK' /\ SavesFit' /\ OpeningsFit'
  BY <1>1, <1>2, <1>3 DEF EditorInv, EditorTypeOK, SavesFit, OpeningsFit
<1>5. ASSUME NEW g \in Files \ crossed'
      PROVE  Uncrossed(g)'
  <2>1. Uncrossed(g) /\ g # f
    BY <1>1 DEF EditorInv, OthersUncrossed
  <2>2. LeavesAlone(g)
    BY <1>1, <1>2, <1>3, <2>1 DEF LeavesAlone, KeepsDisk, IsOpen
  <2> QED
    BY <2>1, <2>2, AloneIsUncrossed
<1> QED
  BY <1>4, <1>5 DEF EditorInv, OthersUncrossed

\* An edit schedules an auto-save, and cancels the one before.
LEMMA ScheduleIs ==
    ASSUME EditorInv, NEW s \in Sessions, NEW f \in Files, ScheduleAutoSave(s, f),
           closing' = closing
    PROVE  /\ late' \in LateTable /\ save' \in SaveTable /\ SavesFit'
           /\ \A r \in Sessions, l \in Slots : ~(r = s /\ l = "auto") => save'[r][l] = save[r][l]
           /\ \A g \in Files : ~Saves(s, "auto", g)'
           /\ ~AutoSave => \A g \in Files : ~Saves(s, "auto", g)
<1>1. /\ save \in SaveTable /\ late \in LateTable /\ "auto" \in Slots
      /\ Asleep(f) \in SaveState
  BY SomeSaveStates DEF EditorInv, EditorTypeOK, SaveTable, LateTable, Slots
<1>2. ~AutoSave => \A g \in Files : ~Saves(s, "auto", g)
  <2>1. "idle" \notin Active
    BY DEF Active, Unwritten
  <2> QED
    BY <2>1 DEF EditorInv, SavesFit, Saves
<1>3. CASE ~AutoSave
  <2>1. save' = save /\ late' = late
    BY <1>3 DEF ScheduleAutoSave
  <2>2. SavesFit'
    BY <2>1 DEF EditorInv, SavesFit
  <2>3. \A g \in Files : ~Saves(s, "auto", g)'
    BY <1>2, <1>3, <2>1 DEF Saves
  <2> QED
    BY <1>1, <1>2, <1>3, <2>1, <2>2, <2>3
<1>4. CASE AutoSave
  <2>1. late' = LeftBehind(s) /\ save' = [save EXCEPT ![s]["auto"] = Asleep(f)]
    BY <1>4 DEF ScheduleAutoSave
  <2>2. late' \in LateTable
    BY <2>1, LeftBehindIs
  <2>3. /\ save' \in SaveTable
        /\ \A r \in Sessions, l \in Slots :
             save'[r][l] = IF r = s /\ l = "auto" THEN Asleep(f) ELSE save[r][l]
    <3> DEFINE v == Asleep(f)
               k == "auto"
               b == [save EXCEPT ![s][k] = v]
    <3>1. save' = b
      BY <2>1
    <3>2. save \in SaveTable /\ v \in SaveState /\ k \in Slots
      BY <1>1
    <3> HIDE DEF v, k
    <3>3. b \in SaveTable /\ \A r \in Sessions, l \in Slots :
                               b[r][l] = IF r = s /\ l = k THEN v ELSE save[r][l]
      BY ONLY <3>2, SlotFilled, s \in Sessions
    <3> HIDE DEF b
    <3> QED
      BY <3>1, <3>3 DEF v, k
  <2>4. Asleep(f).file = f /\ Asleep(f).at = "asleep" /\ "asleep" \notin Active
    BY DEF Asleep, Active, Unwritten
  <2>5. SavesFit'
    BY <1>4, <2>3, <2>4 DEF EditorInv, SavesFit, Slots
  <2>6. \A g \in Files : ~Saves(s, "auto", g)'
    BY <1>1, <2>3, <2>4 DEF Saves
  <2> QED
    BY <1>2, <2>2, <2>3, <2>5, <2>6
<1> QED
  BY <1>3, <1>4

LEMMA UpdateContentKeeps ==
    ASSUME EditorInv, NEW s \in Sessions, NEW f \in Files, UpdateContent(s, f)
    PROVE  EditorInv'
<1>1. /\ created' = created /\ sessions' = sessions /\ closing' = closing
      /\ todo' = todo /\ opening' = opening /\ files' = files /\ file_locks' = file_locks
      /\ updates < MaxUpdates /\ updates' = updates + 1
      /\ IsOpen(s, f) /\ disk' = disk /\ overwritten' = overwritten
      /\ ScheduleAutoSave(s, f)
  BY DEF UpdateContent, IsOpen
<1>2. PICK c \in Contents \cup {Empty} : content' = [content EXCEPT ![s][f] = c]
  BY DEF UpdateContent
<1>3. /\ is_modified' = [is_modified EXCEPT ![s][f] = TRUE]
      /\ crossed' = crossed \cup {g \in Files :
                     \/ g = f /\ SavedBy(f, {"save", "close"})
                     \/ g # f /\ AutoSave /\ save[s]["auto"].file = g}
  BY DEF UpdateContent
<1>4. /\ content' \in [Sessions -> [Files -> Text]]
      /\ \A r \in Sessions, g \in Files : ~(r = s /\ g = f) => content'[r][g] = content[r][g]
  <2>1. content \in [Sessions -> [Files -> Text]] /\ c \in Text
    BY DEF EditorInv, EditorTypeOK, Text
  <2> QED
    BY <1>2, <2>1, CellFilled
<1>5. /\ is_modified' \in [Sessions -> [Files -> BOOLEAN]]
      /\ is_modified'[s][f] = TRUE
      /\ \A r \in Sessions, g \in Files :
           ~(r = s /\ g = f) => is_modified'[r][g] = is_modified[r][g]
  <2> DEFINE n == TRUE
  <2>1. is_modified \in [Sessions -> [Files -> BOOLEAN]] /\ n \in BOOLEAN
    BY DEF EditorInv, EditorTypeOK
  <2>2. is_modified' = [is_modified EXCEPT ![s][f] = n]
    BY <1>3
  <2>3. n = TRUE
    OBVIOUS
  <2> HIDE DEF n
  <2> DEFINE b == [is_modified EXCEPT ![s][f] = n]
  <2>4. /\ b \in [Sessions -> [Files -> BOOLEAN]]
        /\ \A r \in Sessions, g \in Files :
             b[r][g] = IF r = s /\ g = f THEN n ELSE is_modified[r][g]
    BY <2>1, CellFilled
  <2> HIDE DEF b
  <2>5. b[s][f] = TRUE
    BY <2>3, <2>4
  <2>6. \A r \in Sessions, g \in Files : ~(r = s /\ g = f) => b[r][g] = is_modified[r][g]
    BY <2>4
  <2>7. is_modified' = b
    BY <2>2 DEF b
  <2> QED
    BY <2>4, <2>5, <2>6, <2>7
<1>6. /\ late' \in LateTable /\ save' \in SaveTable /\ SavesFit'
      /\ \A r \in Sessions, l \in Slots : ~(r = s /\ l = "auto") => save'[r][l] = save[r][l]
      /\ \A g \in Files : ~Saves(s, "auto", g)'
      /\ ~AutoSave => \A g \in Files : ~Saves(s, "auto", g)
  BY <1>1, ScheduleIs
<1>7. EditorTypeOK'
  <2>1. updates' \in 0..MaxUpdates
    BY <1>1, EditorConstants DEF EditorInv, EditorTypeOK
  <2>2. crossed' \subseteq Files
    BY <1>3 DEF EditorInv, EditorTypeOK
  <2> QED
    BY <1>1, <1>4, <1>5, <1>6, <2>1, <2>2 DEF EditorInv, EditorTypeOK, SaveTable, LateTable
<1>8. OpeningsFit'
  BY <1>1 DEF EditorInv, OpeningsFit
<1>9. \A r \in Sessions, l \in Slots, g \in Files : Saves(r, l, g)' =>
        Saves(r, l, g) /\ ~(r = s /\ l = "auto")
  BY <1>6 DEF Saves
<1>10. ASSUME NEW g \in Files \ crossed'
       PROVE  Uncrossed(g)'
  <2>1. Uncrossed(g)
    BY <1>3 DEF EditorInv, OthersUncrossed
  <2>2. CASE g # f
    <3>1. ~Saves(s, "auto", g)
      BY <1>3, <1>6, <2>2 DEF Saves
    <3>2. LeavesAlone(g)
      BY <1>1, <1>4, <1>5, <1>6, <2>2, <3>1 DEF LeavesAlone, KeepsDisk, IsOpen, Saves
    <3> QED
      BY <2>1, <3>2, AloneIsUncrossed
  <2>3. CASE g = f
    <3>1. ~SavedBy(f, {"save", "close"})
      BY <1>3, <2>3
    <3>2. \A r \in Sessions, l \in Slots : Saves(r, l, f) => r = s /\ l = "auto"
      <4> SUFFICES ASSUME NEW r \in Sessions, NEW l \in Slots, Saves(r, l, f)
                   PROVE  r = s /\ l = "auto"
        OBVIOUS
      <4>1. l = "auto"
        BY <3>1 DEF SavedBy, Saves, Slots
      <4>2. IsOpen(s, f) => s = r
        BY <2>1, <2>3 DEF Uncrossed, SavedAlone
      <4> QED
        BY <1>1, <4>1, <4>2
    <3>3. \A r \in Sessions, l \in Slots : ~Saves(r, l, f)'
      BY <1>9, <3>2
    <3>4. ReadFromDisk(f)'
      BY <1>1, <2>1, <2>3 DEF Uncrossed, ReadFromDisk, OnDisk
    <3>5. CleanAtRest(f)'
      <4> SUFFICES ASSUME NEW r \in Sessions, IsOpen(r, f)', ~is_modified'[r][f]
                   PROVE  OnDisk(f, content[r][f])'
        BY DEF CleanAtRest
      <4>1. r # s
        BY <1>5
      <4>2. IsOpen(r, f)
        BY <1>1 DEF IsOpen
      <4>3. ~Saves(s, "auto", f)
        BY <2>1, <2>3, <4>1, <4>2 DEF Uncrossed, SavedAlone, Slots
      <4>4. ~Saving(f)
        BY <3>2, <4>3 DEF Saving, SavedBy, Saves
      <4>5. /\ is_modified'[r][f] = is_modified[r][f] /\ content'[r][f] = content[r][f]
        BY <1>4, <1>5, <4>1
      <4>6. ~is_modified[r][f]
        BY <4>5
      <4> QED
        BY <1>1, <2>1, <2>3, <4>2, <4>4, <4>5, <4>6 DEF Uncrossed, CleanAtRest, OnDisk
    <3> QED
      BY <2>3, <3>3, <3>4, <3>5 DEF Uncrossed, SavedAlone, SavedAsShown
  <2> QED
    BY <2>2, <2>3
<1> QED
  BY <1>6, <1>7, <1>8, <1>10 DEF EditorInv, OthersUncrossed

\* What close_session does between two awaits: it may have marked the file whose
\* save it waited for.
Closing(s) ==
    /\ closing \in {None, s}
    /\ save[s]["close"].at \notin Active \/ save[s]["close"].at = "flushed"
    /\ is_modified' \in [Sessions -> [Files -> BOOLEAN]]
    /\ \A r \in Sessions, g \in Files :
         ~(r = s /\ Saves(s, "close", g)) => is_modified'[r][g] = is_modified[r][g]
    /\ created' = created /\ files' = files /\ content' = content
    /\ file_locks' = file_locks /\ opening' = opening /\ updates' = updates
    /\ disk' = disk

LEMMA CloseEndsKeeps ==
    ASSUME EditorInv, NEW s \in Sessions, Closing(s), CloseEnds(s)
    PROVE  EditorInv'
<1>1. /\ sessions' = sessions \ {s} /\ closing' = None /\ todo' = {} /\ crossed' = crossed
      /\ late' = LeftBehind(s) /\ disk' = disk /\ overwritten' = overwritten
      /\ save' = [save EXCEPT ![s]["auto"] = NoSave, ![s]["close"] = NoSave]
      /\ created' = created /\ files' = files /\ content' = content
      /\ file_locks' = file_locks /\ opening' = opening /\ updates' = updates
  BY DEF CloseEnds, Closing
<1>2. late' \in LateTable
  BY <1>1, LeftBehindIs
<1>3. "auto" \in Slots /\ "close" \in Slots /\ NoSave.at = "idle" /\ "idle" \notin Active
  BY DEF Slots, NoSave, Active, Unwritten
<1>4. /\ save' \in SaveTable
      /\ \A r \in Sessions, l \in Slots :
           save'[r][l] = IF r = s /\ l \in {"auto", "close"} THEN NoSave ELSE save[r][l]
  <2> DEFINE b == [save EXCEPT ![s]["auto"] = NoSave]
             d == [b EXCEPT ![s]["close"] = NoSave]
  <2>1. save \in SaveTable
    BY DEF EditorInv, EditorTypeOK, SaveTable
  <2>2. save' = d
    BY <1>1
  <2>3. /\ b \in SaveTable
        /\ \A r \in Sessions, l \in Slots :
             b[r][l] = IF r = s /\ l = "auto" THEN NoSave ELSE save[r][l]
    BY ONLY <1>3, <2>1, NothingFilled, s \in Sessions
  <2> HIDE DEF b
  <2>4. /\ d \in SaveTable
        /\ \A r \in Sessions, l \in Slots :
             d[r][l] = IF r = s /\ l = "close" THEN NoSave ELSE b[r][l]
    BY ONLY <1>3, <2>3, NothingFilled, s \in Sessions
  <2> HIDE DEF d
  <2> QED
    BY <2>2, <2>3, <2>4
<1>5. SavesFit'
  <2> SUFFICES ASSUME NEW r \in Sessions
               PROVE  /\ \A k \in Slots : save'[r][k].at # "idle" => save'[r][k].file \in Files
                      /\ save'[r]["close"].at = "idle"
                      /\ ~AutoSave => save'[r]["auto"].at = "idle"
    BY DEF SavesFit
  <2>1. r # None /\ (r # s => closing # r)
    BY EditorConstants DEF Closing
  <2>2. r # s => save[r]["close"].at = "idle"
    BY <2>1 DEF EditorInv, SavesFit
  <2> QED
    BY <1>3, <1>4, <2>2 DEF EditorInv, SavesFit
<1>6. EditorTypeOK' /\ OpeningsFit'
  BY <1>1, <1>2, <1>4 DEF EditorInv, EditorTypeOK, OpeningsFit, Closing, SaveTable, LateTable
<1>7. \A r \in Sessions, g \in Files : IsOpen(r, g)' => r # s /\ IsOpen(r, g)
  BY <1>1 DEF IsOpen
<1>8. \A r \in Sessions, l \in Slots, g \in Files :
        /\ Saves(r, l, g)' => Saves(r, l, g) /\ ~(r = s /\ l \in {"auto", "close"})
        /\ ~(r = s /\ l \in {"auto", "close"}) => save'[r][l] = save[r][l]
  BY <1>3, <1>4 DEF Saves
<1>9. ASSUME NEW g \in Files \ crossed'
      PROVE  Uncrossed(g)'
  <2>1. Uncrossed(g)
    BY <1>1 DEF EditorInv, OthersUncrossed
  <2>2. CASE \E k \in {"auto", "close"} : Saves(s, k, g)
    <3>1. PICK k \in {"auto", "close"} : Saves(s, k, g)
      BY <2>2
    <3>2. /\ \A r \in Sessions, l \in Slots : Saves(r, l, g) => r = s /\ l = k
          /\ \A r \in Sessions : IsOpen(r, g) => r = s
          /\ ~BeingRead(g)
      BY <1>3, <2>1, <3>1 DEF Uncrossed, SavedAlone
    <3>3. ~Saving(g)'
      BY <1>8, <3>2 DEF Saving, SavedBy, Saves
    <3>4. ~BeingRead(g)' /\ \A r \in Sessions : ~IsOpen(r, g)'
      BY <1>1, <1>7, <3>2 DEF BeingRead
    <3> QED
      BY <3>3, <3>4, UnseenIsUncrossed
  <2>3. CASE ~\E k \in {"auto", "close"} : Saves(s, k, g)
    <3>1. LeavesAlone(g)
      <4>1. KeepsDisk(g)
        BY <1>1 DEF KeepsDisk
      <4>2. \A r \in Sessions, l \in Slots :
              save'[r][l] = save[r][l] \/ (~Saves(r, l, g) /\ ~Saves(r, l, g)')
        BY <1>8, <2>3
      <4>3. \A r \in Sessions : IsOpen(r, g)' =>
              /\ IsOpen(r, g)
              /\ content'[r][g] = content[r][g] /\ is_modified'[r][g] = is_modified[r][g]
        BY <1>1, <1>7 DEF Closing
      <4> QED
        BY <1>1, <4>1, <4>2, <4>3 DEF LeavesAlone
    <3> QED
      BY <2>1, <3>1, AloneIsUncrossed
  <2> QED
    BY <2>2, <2>3
<1> QED
  BY <1>5, <1>6, <1>9 DEF EditorInv, OthersUncrossed

LEMMA CloseSavesKeeps ==
    ASSUME EditorInv, NEW s \in Sessions, NEW f \in Files, Closing(s),
           BeginSave(s, "close", f), s \in sessions, closing' = s, todo' \subseteq Files,
           sessions' = sessions, late' = late
    PROVE  EditorInv'
<1>1. "close" \in Slots
  BY DEF Slots
<1>2. Begins(s, "close", f)
  BY <1>1, BeginSaveIs DEF EditorInv
<1>3. Begun(f).at = "begun" /\ Begun(f).file = f
  BY DEF Begun
<1>4. SavesFit'
  <2> SUFFICES ASSUME NEW r \in Sessions
               PROVE  /\ \A k \in Slots : save'[r][k].at # "idle" => save'[r][k].file \in Files
                      /\ save'[r]["close"].at # "idle" => r = s
                      /\ ~AutoSave => save'[r]["auto"].at = "idle"
    BY DEF SavesFit
  <2>1. r # None /\ (r # s => closing # r)
    BY EditorConstants DEF Closing
  <2>2. r # s => save[r]["close"].at = "idle"
    BY <2>1 DEF EditorInv, SavesFit
  <2>3. \A l \in Slots : save'[r][l] = IF r = s /\ l = "close" THEN Begun(f) ELSE save[r][l]
    BY <1>2 DEF Begins
  <2> QED
    BY <1>3, <2>2, <2>3 DEF EditorInv, SavesFit, Slots
<1>5. EditorTypeOK' /\ OpeningsFit'
  BY <1>2 DEF EditorInv, EditorTypeOK, OpeningsFit, Closing, Begins, SaveTable
<1>6. opening' = opening /\ content' = content
      /\ \A r \in Sessions, g \in Files : IsOpen(r, g)' <=> IsOpen(r, g)
  BY DEF Closing, IsOpen
<1>7. ASSUME NEW g \in Files \ crossed'
      PROVE  Uncrossed(g)'
  <2>1. CASE g = f
    BY <1>1, <1>2, <1>6, <2>1, BegunIsUncrossed DEF EditorInv
  <2>2. CASE g # f
    <3>1. Uncrossed(g) /\ KeepsDisk(g)
      BY <1>2, <2>2 DEF EditorInv, OthersUncrossed, Begins, Closing, KeepsDisk
    <3>2. /\ ~Saves(s, "close", g)'
          /\ \A r \in Sessions, l \in Slots :
               /\ Saves(r, l, g)' => Saves(r, l, g)
               /\ ~(r = s /\ l = "close") => save'[r][l] = save[r][l]
      BY <1>1, <1>2, <1>3, <2>2 DEF Begins, Saves
    <3>3. CASE Saves(s, "close", g)
      <4>1. save[s]["close"].at = "flushed"
        BY <3>3 DEF Closing, Saves
      <4> QED
        BY <1>1, <1>6, <3>1, <3>2, <3>3, <4>1, DoneIsUncrossed
    <3>4. CASE ~Saves(s, "close", g)
      <4>1. LeavesAlone(g)
        <5>1. \A r \in Sessions, l \in Slots :
                save'[r][l] = save[r][l] \/ (~Saves(r, l, g) /\ ~Saves(r, l, g)')
          BY <3>2, <3>4
        <5>2. \A r \in Sessions : is_modified'[r][g] = is_modified[r][g]
          BY <3>4 DEF Closing
        <5> QED
          BY <1>6, <3>1, <5>1, <5>2 DEF LeavesAlone
      <4> QED
        BY <3>1, <4>1, AloneIsUncrossed
    <3> QED
      BY <3>3, <3>4
  <2> QED
    BY <2>1, <2>2
<1> QED
  BY <1>4, <1>5, <1>7 DEF EditorInv, OthersUncrossed

LEMMA CloseGoesOnKeeps ==
    ASSUME EditorInv, NEW s \in Sessions, Closing(s), NEW left \in SUBSET Files,
           CloseGoesOn(s, left)
    PROVE  EditorInv'
<1>1. CASE CloseEnds(s)
  BY <1>1, CloseEndsKeeps
<1>2. ASSUME NEW f \in Unsaved(s, left), NEW skipped \in SUBSET (left \ Unsaved(s, left)),
             todo' = left \ (skipped \cup {f}), BeginSave(s, "close", f),
             closing' = s, sessions' = sessions, late' = late
      PROVE  EditorInv'
  <2>1. f \in Files /\ s \in sessions
    BY DEF Unsaved, Savable
  <2>2. todo' \subseteq Files
    BY <1>2
  <2> QED
    BY <1>2, <2>1, <2>2, CloseSavesKeeps
<1> QED
  BY <1>1, <1>2 DEF CloseGoesOn

LEMMA CloseSessionKeeps ==
    ASSUME EditorInv, NEW s \in Sessions, CloseSession(s)
    PROVE  EditorInv'
<1>1. /\ closing = None /\ is_modified' = is_modified /\ CloseGoesOn(s, files[s])
      /\ UNCHANGED <<created, files, content, disk, file_locks, opening, updates>>
  BY DEF CloseSession
<1>2. save[s]["close"].at = "idle"
  BY <1>1, EditorConstants DEF EditorInv, SavesFit
<1>3. Closing(s) /\ files[s] \in SUBSET Files
  BY <1>1, <1>2 DEF EditorInv, EditorTypeOK, Closing, Active, Unwritten
<1> QED
  BY <1>1, <1>3, CloseGoesOnKeeps

LEMMA CloseSavedKeeps ==
    ASSUME EditorInv, NEW s \in Sessions, CloseSaved(s)
    PROVE  EditorInv'
<1>0. PICK f : f = save[s]["close"].file
  OBVIOUS
<1>1. /\ save[s]["close"].at = "flushed" /\ is_modified' = MarkSaved(s, "close")
      /\ CloseGoesOn(s, todo) /\ "close" \in Slots
      /\ UNCHANGED <<created, files, content, disk, file_locks, opening, updates>>
  BY DEF CloseSaved, Slots
<1>2. save[s]["close"].at # "idle" /\ save[s]["close"].at \in Active
  BY <1>1 DEF Active
<1>3. f \in Files /\ closing = s /\ Saves(s, "close", f)
  BY <1>0, <1>1, <1>2 DEF EditorInv, SavesFit, Saves
<1>4. /\ is_modified' \in [Sessions -> [Files -> BOOLEAN]]
      /\ \A r \in Sessions, g \in Files :
           ~(r = s /\ g = f) => is_modified'[r][g] = is_modified[r][g]
  BY <1>0, <1>1, <1>3, MarkSavedIs
<1>5. Closing(s)
  BY <1>1, <1>3, <1>4 DEF Closing
<1>6. todo \in SUBSET Files
  BY DEF EditorInv, EditorTypeOK
<1> QED
  BY <1>1, <1>5, <1>6, CloseGoesOnKeeps

\* What a thread does for a cancelled save, late, it does to an overwritten file.
LEMMA LateWriteKeeps ==
    ASSUME EditorInv, NEW f \in Files, NEW t \in Text, LateWrite(f, t)
    PROVE  EditorInv'
<1>1. /\ created' = created /\ sessions' = sessions /\ closing' = closing
      /\ todo' = todo /\ updates' = updates /\ crossed' = crossed /\ content' = content
      /\ is_modified' = is_modified /\ opening' = opening /\ files' = files
      /\ file_locks' = file_locks /\ save' = save
      /\ late[f][t] > 0 /\ late' = [late EXCEPT ![f][t] = @ - 1]
  BY DEF LateWrite
<1>2. late' \in LateTable
  <2> DEFINE n == late[f][t] - 1
  <2>1. late \in LateTable /\ late[f][t] \in Nat
    BY DEF EditorInv, EditorTypeOK, LateTable
  <2>2. n \in Nat
    BY <1>1, <2>1
  <2>3. late' = [late EXCEPT ![f][t] = n]
    BY <1>1
  <2> HIDE DEF n
  <2> QED
    BY <2>1, <2>2, <2>3, LateFilled
<1>3. /\ disk' \in [Files -> Text] /\ overwritten' \subseteq Files
      /\ \A g \in Files : KeepsDisk(g)
  <2>1. /\ disk \in [Files -> Text] /\ overwritten \subseteq Files
        /\ disk[f] \in Text /\ Empty \in Text
    BY DEF EditorInv, EditorTypeOK, Text
  <2>2. CASE UNCHANGED <<disk, overwritten>>
    BY <2>1, <2>2 DEF KeepsDisk
  <2>3. ASSUME NEW d \in IF t = Empty THEN {Empty} ELSE Written(disk[f], t),
               disk' = [disk EXCEPT ![f] = d], overwritten' = overwritten \cup {f}
        PROVE  /\ disk' \in [Files -> Text] /\ overwritten' \subseteq Files
               /\ \A g \in Files : KeepsDisk(g)
    <3>1. d \in Text
      BY <2>1, WrittenIs
    <3>2. /\ disk' \in [Files -> Text]
          /\ \A g \in Files \ {f} : disk'[g] = disk[g]
      BY <2>1, <2>3, <3>1
    <3> QED
      BY <2>1, <2>3, <3>2 DEF KeepsDisk
  <2> QED
    BY <2>2, <2>3 DEF LateWrite
<1>4. EditorTypeOK' /\ SavesFit' /\ OpeningsFit'
  BY <1>1, <1>2, <1>3 DEF EditorInv, EditorTypeOK, SavesFit, OpeningsFit, LateTable
<1>5. \A g \in Files : LeavesAlone(g)
  BY <1>1, <1>3 DEF LeavesAlone, IsOpen
<1> QED
  BY <1>1, <1>4, <1>5, AloneIsUncrossed DEF EditorInv, OthersUncrossed

LEMMA EditorNextKeeps == EditorInv /\ [EditorNext]_editor_vars => EditorInv'
<1> SUFFICES ASSUME EditorInv, [EditorNext]_editor_vars PROVE EditorInv'
  OBVIOUS
<1>1. CASE UNCHANGED editor_vars
  <2>1. /\ created' = created /\ sessions' = sessions /\ files' = files
        /\ content' = content /\ is_modified' = is_modified /\ disk' = disk
        /\ file_locks' = file_locks /\ opening' = opening /\ save' = save
        /\ closing' = closing /\ todo' = todo /\ updates' = updates /\ crossed' = crossed
        /\ late' = late /\ overwritten' = overwritten
    BY <1>1 DEF editor_vars
  <2>2. EditorTypeOK' /\ SavesFit' /\ OpeningsFit'
    BY <2>1 DEF EditorInv, EditorTypeOK, SavesFit, OpeningsFit
  <2>3. \A f \in Files : LeavesAlone(f)
    BY <2>1 DEF LeavesAlone, KeepsDisk, IsOpen
  <2> QED
    BY <2>1, <2>2, <2>3, AloneIsUncrossed DEF EditorInv, OthersUncrossed
<1>2. CASE EditorNext
  BY <1>2, OpenFinishKeeps, OpenReadKeeps, CreateSessionKeeps, CloseSessionKeeps,
     CloseSavedKeeps, AutoSaveFiresKeeps, SaveOpenKeeps, SaveWriteKeeps, SaveFlushKeeps,
     SaveDoneKeeps, LateWriteKeeps, UpdateContentKeeps, FormatFileKeeps, SaveFileKeeps, CloseFileKeeps
     DEF EditorNext, SaveStep
<1> QED
  BY <1>1, <1>2

LEMMA EditorInvariant == EditorSpec => []EditorInv
  BY EditorInitHolds, EditorNextKeeps, PTL DEF EditorSpec

-----------------------------------------------------------------------------
(* SkillEditor: theorems *)

\* Sessions, open files, locks, saves and the closing session keep their shapes:
\* in particular close_session never leaves its lock to a session that is gone.
\* (EditSession, OpenFile, close_session.)
THEOREM EditorTypesHold == EditorSpec => []EditorTypeOK
<1>1. EditorInv => EditorTypeOK
  BY DEF EditorInv
<1> QED
  BY EditorInvariant, <1>1, PTL

\* A file shown as unmodified is on the disk as it is shown, unless it is being
\* saved, something crossed its last save, or the thread of a cancelled auto-save
\* wrote into the file since that save began, however many sessions, files, edits,
\* cancelled auto-saves, late writes and closes there are.
\* (is_modified, mark_saved, _schedule_auto_save.)
THEOREM CleanAlwaysOnDisk == EditorSpec => []CleanIsOnDisk
<1>1. EditorInv => CleanIsOnDisk
  <2> SUFFICES ASSUME EditorInv, NEW s \in Sessions, NEW f \in Files,
                      IsOpen(s, f), ~is_modified[s][f], ~Saving(f),
                      f \notin crossed \cup overwritten
               PROVE  disk[f] = content[s][f]
    BY DEF CleanIsOnDisk
  <2>1. CleanAtRest(f)
    BY DEF EditorInv, OthersUncrossed, Uncrossed
  <2> QED
    BY <2>1 DEF CleanAtRest, OnDisk
<1> QED
  BY EditorInvariant, <1>1, PTL

\* Where mark_saved takes the unsaved mark away, a save of that very opening is done.
LEMMA MarkFallsWhenSaved ==
    ASSUME EditorInv, NEW r \in Sessions, NEW k \in Slots, save[r][k].at = "flushed",
           is_modified' = MarkSaved(r, k), NEW s \in Sessions, NEW f \in Files,
           is_modified[s][f], ~is_modified'[s][f]
    PROVE  s = r /\ save[s][k].file = f /\ save[s][k].own /\ save[s][k].at = "flushed"
<1>0. PICK g : g = save[r][k].file
  OBVIOUS
<1>1. g \in Files
  <2>1. save[r][k].at # "idle"
    OBVIOUS
  <2> QED
    BY <1>0, <2>1 DEF EditorInv, SavesFit
<1>2. s = r /\ f = g
  <2>1. \A q \in Sessions, h \in Files :
          ~(q = r /\ h = g) => is_modified'[q][h] = is_modified[q][h]
    BY <1>0, <1>1, MarkSavedIs
  <2>2. is_modified'[s][f] # is_modified[s][f]
    OBVIOUS
  <2> QED
    BY <2>1, <2>2
<1>3. save[r][k].own
  <2>1. is_modified' # is_modified
    OBVIOUS
  <2> QED
    BY <2>1 DEF MarkSaved
<1> QED
  BY <1>0, <1>2, <1>3

\* Setting the mark of one file takes no mark away.
LEMMA MarksOnlySet ==
    ASSUME EditorTypeOK, NEW r \in Sessions, NEW g \in Files,
           is_modified' = [is_modified EXCEPT ![r][g] = TRUE],
           NEW s \in Sessions, NEW f \in Files, is_modified[s][f]
    PROVE  is_modified'[s][f]
<1> DEFINE n == TRUE
           b == [is_modified EXCEPT ![r][g] = n]
<1>1. is_modified \in [Sessions -> [Files -> BOOLEAN]] /\ n \in BOOLEAN
  BY DEF EditorTypeOK
<1>2. is_modified' = b /\ n = TRUE
  OBVIOUS
<1> HIDE DEF n
<1>3. \A q \in Sessions, h \in Files :
        b[q][h] = IF q = r /\ h = g THEN n ELSE is_modified[q][h]
  BY ONLY <1>1, CellFilled, r \in Sessions, g \in Files
<1> HIDE DEF b
<1>4. b[s][f]
  BY <1>2, <1>3
<1> QED
  BY <1>2, <1>4

\* The unsaved mark of an open file falls only when a save of that very opening
\* completes, or an opening that arrives late replaces the file: never for a save
\* of an opening that was closed meanwhile.  (mark_saved, close_file, open_file.)
THEOREM MarksAreKept == EditorSpec => UnsavedMarkIsKept
<1>1. EditorInv /\ [EditorNext]_editor_vars =>
        [\A s \in Sessions, f \in Files :
           IsOpen(s, f) /\ is_modified[s][f] /\ IsOpen(s, f)' /\ ~is_modified'[s][f]
             => \/ \E k \in Slots : /\ save[s][k].file = f /\ save[s][k].own
                                    /\ save[s][k].at = "flushed"
                \/ opening' # opening]_editor_vars
  <2> SUFFICES ASSUME EditorInv, EditorNext, NEW s \in Sessions, NEW f \in Files,
                      is_modified[s][f], IsOpen(s, f)', ~is_modified'[s][f]
               PROVE  \/ \E k \in Slots : /\ save[s][k].file = f /\ save[s][k].own
                                          /\ save[s][k].at = "flushed"
                      \/ opening' # opening
    OBVIOUS
  <2>1. is_modified' # is_modified
    OBVIOUS
  <2>2. ASSUME NEW o \in Openers, OpenFinish(o)
        PROVE  opening' # opening
    BY <2>2 DEF OpenFinish, EditorInv, EditorTypeOK
  <2>3. ASSUME NEW r \in Sessions, NEW k \in Slots, save[r][k].at = "flushed",
               is_modified' = MarkSaved(r, k)
        PROVE  /\ save[s][k].file = f /\ save[s][k].own
               /\ save[s][k].at = "flushed"
    BY <2>3, MarkFallsWhenSaved
  <2>4. ASSUME NEW r \in Sessions, NEW g \in Files, UpdateContent(r, g) \/ FormatFile(r, g)
        PROVE  FALSE
    <3>1. is_modified' = [is_modified EXCEPT ![r][g] = TRUE]
      BY <2>4 DEF UpdateContent, FormatFile
    <3> QED
      BY <3>1, MarksOnlySet DEF EditorInv
  <2>5. ASSUME NEW r \in Sessions, NEW k \in Slots, SaveDone(r, k)
        PROVE  save[r][k].at = "flushed" /\ is_modified' = MarkSaved(r, k)
    BY <2>5 DEF SaveDone
  <2>6. ASSUME NEW r \in Sessions, CloseSaved(r)
        PROVE  /\ "close" \in Slots /\ save[r]["close"].at = "flushed"
               /\ is_modified' = MarkSaved(r, "close")
    BY <2>6 DEF CloseSaved, Slots
  <2>7. ASSUME NEW r \in Sessions, NEW g \in Files, CloseFile(r, g), IsOpen(s, f)'
        PROVE  FALSE
    <3>1. is_modified \in [Sessions -> [Files -> BOOLEAN]]
      BY DEF EditorInv, EditorTypeOK
    <3>2. is_modified' = [is_modified EXCEPT ![r][g] = FALSE] /\ ~IsOpen(r, g)'
      BY <2>7 DEF CloseFile, EditorInv, EditorTypeOK, IsOpen
    <3>3. \A q \in Sessions, h \in Files :
            ~(q = r /\ h = g) => is_modified'[q][h] = is_modified[q][h]
      BY <3>1, <3>2, MarkCleared
    <3>4. ~(s = r /\ f = g) /\ is_modified'[s][f] # is_modified[s][f]
      BY <2>7, <3>2
    <3> QED
      BY <3>3, <3>4
  <2>8. /\ \A g \in Files, t \in Text : LateWrite(g, t) => is_modified' = is_modified
        /\ \A r \in Sessions : CreateSession(r) \/ CloseSession(r) \/ AutoSaveFires(r)
             => is_modified' = is_modified
        /\ \A r \in Sessions, k \in Slots : SaveOpen(r, k) \/ SaveWrite(r, k) \/ SaveFlush(r, k)
             => is_modified' = is_modified
        /\ \A r \in Sessions, g \in Files : SaveFile(r, g) => is_modified' = is_modified
        /\ \A o \in Openers, r \in Sessions, g \in Files :
             OpenRead(o, r, g) => is_modified' = is_modified
    BY DEF CreateSession, OpenRead, CloseSession, AutoSaveFires, SaveOpen, SaveWrite,
       SaveFlush, SaveFile, LateWrite
  <2>9. \/ \E o \in Openers : OpenFinish(o)
        \/ \E r \in Sessions, g \in Files : CloseFile(r, g)
        \/ \E r \in Sessions, g \in Files : UpdateContent(r, g) \/ FormatFile(r, g)
        \/ \E r \in Sessions, k \in Slots : SaveDone(r, k)
        \/ \E r \in Sessions : CloseSaved(r)
    BY <2>1, <2>8 DEF EditorNext, SaveStep
  <2> QED
    BY <2>2, <2>3, <2>4, <2>5, <2>6, <2>7, <2>9
<1> QED
  BY EditorInvariant, <1>1, PTL DEF EditorSpec, UnsavedMarkIsKept

\* close_session works off the list it made: until the session is gone it drops
\* files from the list and never adds one, and it begins no save without dropping
\* one, however much is typed meanwhile.
CloseWorksOff ==
    [][\A s \in Sessions : closing = s =>
         \/ closing' = None /\ s \notin sessions'
         \/ closing' = s /\ todo' \subseteq todo /\ todo' # todo
         \/ /\ closing' = s /\ todo' = todo
            /\ save'[s]["close"].at = "begun" => save[s]["close"].at = "begun"]_editor_vars

LEMMA CloseSavedWorksOff ==
    ASSUME EditorInv, NEW s \in Sessions, CloseSaved(s)
    PROVE  \/ closing' = None /\ s \notin sessions'
           \/ closing' = s /\ todo' \subseteq todo /\ todo' # todo
<1>1. CASE CloseEnds(s)
  BY <1>1 DEF CloseEnds
<1>2. ASSUME NEW f \in Unsaved(s, todo), NEW skipped \in SUBSET (todo \ Unsaved(s, todo)),
             todo' = todo \ (skipped \cup {f}), closing' = s
      PROVE  closing' = s /\ todo' \subseteq todo /\ todo' # todo
  BY <1>2 DEF Unsaved
<1> QED
  BY <1>1, <1>2 DEF CloseSaved, CloseGoesOn

\* Only close_session begins a save in the slot of close_session.
LEMMA OthersLeaveClose ==
    ASSUME EditorInv, NEW s \in Sessions, EditorNext,
           \A r \in Sessions : ~CloseSession(r) /\ ~CloseSaved(r)
    PROVE  /\ closing' = closing /\ todo' = todo
           /\ save'[s]["close"].at = "begun" => save[s]["close"].at = "begun"
<1> DEFINE Leaves == /\ closing' = closing /\ todo' = todo
                     /\ save'[s]["close"].at = "begun" => save[s]["close"].at = "begun"
<1>1. /\ save \in SaveTable /\ "close" \in Slots /\ "save" \in Slots /\ "auto" \in Slots
      /\ NoSave.at = "idle"
  BY DEF EditorInv, EditorTypeOK, SaveTable, Slots, NoSave
<1>2. ASSUME NEW o \in Openers, OpenFinish(o)
      PROVE  Leaves
  <2>1. PICK r \in Sessions, f \in Files : save' = Detach(r, f)
    BY <1>2 DEF OpenFinish, EditorInv, EditorTypeOK
  <2>2. closing' = closing /\ todo' = todo
    BY <1>2 DEF OpenFinish
  <2> QED
    BY <1>1, <2>1, <2>2, DetachedFit
<1>3. ASSUME NEW r \in Sessions, NEW f \in Files, CloseFile(r, f)
      PROVE  Leaves
  <2>1. save' = Detach(r, f) /\ closing' = closing /\ todo' = todo
    BY <1>3 DEF CloseFile
  <2> QED
    BY <1>1, <2>1, DetachedFit
<1>4. ASSUME NEW r \in Sessions, NEW k \in Slots, SaveWrite(r, k)
      PROVE  Leaves
  <2> DEFINE t == IF save[r][k].own THEN content[r][save[r][k].file] ELSE save[r][k].text
  <2>1. /\ closing' = closing /\ todo' = todo /\ save[r][k].at = "opened"
        /\ save' = [save EXCEPT ![r][k].at = "writing", ![r][k].text = t]
    BY <1>4 DEF SaveWrite
  <2>2. t \in Text
    <3>1. save[r][k] \in SaveState /\ save[r][k].file \in Files
      BY <1>1, <2>1 DEF SaveTable, EditorInv, SavesFit
    <3> QED
      BY <3>1, SaveStates DEF EditorInv, EditorTypeOK
  <2> HIDE DEF t
  <2>3. Steps(r, k, "writing", t)
    BY <1>1, <2>1, <2>2, SlotStepped
  <2> QED
    BY <1>1, <2>1, <2>3 DEF Steps
<1>5. ASSUME NEW r \in Sessions, NEW k \in Slots, SaveFlush(r, k)
      PROVE  Leaves
  <2>1. /\ closing' = closing /\ todo' = todo
        /\ save' = [save EXCEPT ![r][k].at = "flushed", ![r][k].text = Empty]
    BY <1>5 DEF SaveFlush
  <2>2. Empty \in Text
    BY DEF Text
  <2>3. Steps(r, k, "flushed", Empty)
    BY <1>1, <2>1, <2>2, SlotStepped
  <2> QED
    BY <1>1, <2>1, <2>3 DEF Steps
<1>6. ASSUME NEW r \in Sessions, NEW k \in Slots, save' = [save EXCEPT ![r][k] = NoSave],
             closing' = closing, todo' = todo
      PROVE  Leaves
  <2>1. \A q \in Sessions, l \in Slots :
          IF q = r /\ l = k THEN save'[q][l].at = "idle" ELSE save'[q][l] = save[q][l]
    BY <1>6, SlotEmptied
  <2> QED
    BY <1>1, <1>6, <2>1
<1>7. ASSUME NEW r \in Sessions, NEW k \in {"save", "auto"}, NEW f \in Files,
             BeginSave(r, k, f), closing' = closing, todo' = todo
      PROVE  Leaves
  <2>1. Begins(r, k, f)
    BY <1>1, <1>7, BeginSaveIs DEF EditorInv
  <2> QED
    BY <1>1, <1>7, <2>1 DEF Begins
<1>8. ASSUME NEW r \in Sessions, SaveDone(r, "save") \/ SaveDone(r, "auto")
      PROVE  Leaves
  BY <1>1, <1>6, <1>8 DEF SaveDone
<1>9. ASSUME NEW r \in Sessions, AutoSaveFires(r)
      PROVE  Leaves
  <2>1. closing' = closing /\ todo' = todo /\ save[r]["auto"].at # "idle"
    BY <1>9 DEF AutoSaveFires
  <2>2. PICK f \in Files : f = save[r]["auto"].file
    BY <1>1, <2>1 DEF EditorInv, SavesFit
  <2>3. BeginSave(r, "auto", f) \/ save' = [save EXCEPT ![r]["auto"] = NoSave]
    BY <1>9, <2>2 DEF AutoSaveFires
  <2> QED
    BY <1>1, <1>6, <1>7, <2>1, <2>3
<1>10. ASSUME NEW r \in Sessions, NEW f \in Files, SaveFile(r, f)
       PROVE  Leaves
  BY <1>7, <1>10 DEF SaveFile
<1>11. ASSUME NEW r \in Sessions, NEW f \in Files, UpdateContent(r, f)
       PROVE  Leaves
  <2>1. closing' = closing /\ todo' = todo /\ ScheduleAutoSave(r, f)
    BY <1>11 DEF UpdateContent
  <2>2. \A q \in Sessions, l \in Slots : ~(q = r /\ l = "auto") => save'[q][l] = save[q][l]
    BY <2>1, ScheduleIs
  <2> QED
    BY <1>1, <2>1, <2>2
<1>12. ASSUME NEW r \in Sessions, NEW f \in Files, FormatFile(r, f)
       PROVE  Leaves
  BY <1>12 DEF FormatFile
<1>13. ASSUME NEW o \in Openers, NEW r \in Sessions, NEW f \in Files, OpenRead(o, r, f)
       PROVE  Leaves
  BY <1>13 DEF OpenRead
<1>14. ASSUME NEW r \in Sessions, CreateSession(r)
       PROVE  Leaves
  BY <1>14 DEF CreateSession
<1>15. ASSUME NEW r \in Sessions, NEW k \in Slots, SaveOpen(r, k)
       PROVE  Leaves
  <2>1. /\ closing' = closing /\ todo' = todo
        /\ save' = [save EXCEPT ![r][k].at = "opened"]
    BY <1>15 DEF SaveOpen
  <2>2. PICK t \in Text : t = save[r][k].text
    BY <1>1, SaveStates DEF SaveTable
  <2>3. Steps(r, k, "opened", t)
    BY <1>1, <2>1, <2>2, SlotStepped
  <2> QED
    BY <1>1, <2>1, <2>3 DEF Steps
<1>16. ASSUME NEW f \in Files, NEW t \in Text, LateWrite(f, t)
       PROVE  Leaves
  BY <1>16 DEF LateWrite
<1>17. ASSUME NEW r \in Sessions, NEW k \in Slots, SaveStep(r, k)
       PROVE  Leaves
  <2>1. SaveDone(r, k) => k \in {"save", "auto"}
    BY DEF SaveDone, Slots
  <2> HIDE DEF Leaves
  <2> QED
    BY <1>4, <1>5, <1>8, <1>15, <1>17, <2>1 DEF SaveStep
<1> HIDE DEF Leaves
<1>18. Leaves
  BY <1>2, <1>3, <1>9, <1>10, <1>11, <1>12, <1>13, <1>14, <1>16, <1>17
     DEF EditorNext
<1> QED
  BY <1>18 DEF Leaves

\* close_session begins no more saves than the session has open files, and gets
\* to its end if each of them does.  (close_session.)
THEOREM CloseAlwaysWorksOff == EditorSpec => CloseWorksOff
<1>1. EditorInv /\ [EditorNext]_editor_vars =>
        [\A s \in Sessions : closing = s =>
           \/ closing' = None /\ s \notin sessions'
           \/ closing' = s /\ todo' \subseteq todo /\ todo' # todo
           \/ /\ closing' = s /\ todo' = todo
              /\ save'[s]["close"].at = "begun" => save[s]["close"].at = "begun"]_editor_vars
  <2> SUFFICES ASSUME EditorInv, EditorNext, NEW s \in Sessions, closing = s
               PROVE  \/ closing' = None /\ s \notin sessions'
                      \/ closing' = s /\ todo' \subseteq todo /\ todo' # todo
                      \/ /\ closing' = s /\ todo' = todo
                         /\ save'[s]["close"].at = "begun" => save[s]["close"].at = "begun"
    OBVIOUS
  <2>1. \A r \in Sessions : ~CloseSession(r)
    BY EditorConstants DEF CloseSession
  <2>2. \A r \in Sessions : CloseSaved(r) => r = s
    <3> SUFFICES ASSUME NEW r \in Sessions, CloseSaved(r) PROVE r = s
      OBVIOUS
    <3>1. save[r]["close"].at # "idle"
      BY DEF CloseSaved
    <3> QED
      BY <3>1 DEF EditorInv, SavesFit
  <2>3. CASE CloseSaved(s)
    BY <2>3, CloseSavedWorksOff
  <2>4. CASE ~CloseSaved(s)
    <3>1. \A r \in Sessions : ~CloseSession(r) /\ ~CloseSaved(r)
      BY <2>1, <2>2, <2>4
    <3> QED
      BY <3>1, OthersLeaveClose
  <2> QED
    BY <2>3, <2>4
<1> QED
  BY EditorInvariant, <1>1, PTL DEF EditorSpec, CloseWorksOff
-----------------------------------------------------------------------------
(* SkillEditor: the safety half of AutoSaveCatchesUp *)

\* the auto-save waits for its time, or some save of the file is under way
Pending(s, f) ==
    \/ save[s]["auto"].at = "asleep" /\ save[s]["auto"].file = f
    \/ \E k \in Slots : Saves(s, k, f)

\* what a session shows and did not save is on its way to the disk, or refused
EditPending(s, f) ==
    IsOpen(s, f) /\ is_modified[s][f] /\ f \notin crossed =>
        content[s][f] \in Invalid \/ Pending(s, f)
EditsPending == AutoSave => \A s \in Sessions, f \in Files : EditPending(s, f)

KeepsSlots(s, f) ==
    \A k \in Slots : save[s][k].file = f =>
        /\ save'[s][k].file = f
        /\ save'[s][k].at = save[s][k].at \/ (save[s][k].at \in Active /\ save'[s][k].at \in Active)

KeepsEdit(s, f) ==
    /\ IsOpen(s, f)' => IsOpen(s, f)
    /\ content'[s][f] = content[s][f]
    /\ is_modified'[s][f] => is_modified[s][f]
    /\ f \in crossed => f \in crossed'
    /\ KeepsSlots(s, f)

LEMMA EditKept ==
    ASSUME NEW s \in Sessions, NEW f \in Files, EditPending(s, f), KeepsEdit(s, f)
    PROVE  EditPending(s, f)'
<1>1. Pending(s, f) => Pending(s, f)'
  <2>1. "auto" \in Slots /\ "asleep" \notin Active
    BY DEF Slots, Active, Unwritten
  <2> QED
    BY <2>1 DEF Pending, Saves, KeepsEdit, KeepsSlots
<1> QED
  BY <1>1 DEF EditPending, KeepsEdit

\* A file whose save is done has no mark: the save was of its only opening.
LEMMA DoneIsSaved ==
    ASSUME EditorInv, NEW s \in Sessions, NEW k \in Slots, NEW f \in Files,
           Saves(s, k, f), f \notin crossed, is_modified' = MarkSaved(s, k),
           NEW r \in Sessions, IsOpen(r, f)
    PROVE  ~is_modified'[r][f]
<1>1. r = s /\ save[s][k].own
  BY DEF EditorInv, OthersUncrossed, Uncrossed, SavedAlone
<1>2. is_modified' = [is_modified EXCEPT ![s][f] = FALSE]
  BY <1>1 DEF MarkSaved, Saves
<1> DEFINE n == FALSE
<1>3. is_modified \in [Sessions -> [Files -> BOOLEAN]] /\ n \in BOOLEAN
  BY DEF EditorInv, EditorTypeOK
<1>4. is_modified' = [is_modified EXCEPT ![s][f] = n] /\ ~n
  BY <1>2
<1> HIDE DEF n
<1> DEFINE b == [is_modified EXCEPT ![s][f] = n]
<1>5. \A q \in Sessions, g \in Files :
        b[q][g] = IF q = s /\ g = f THEN n ELSE is_modified[q][g]
  BY <1>3, CellFilled
<1>6. is_modified' = b
  BY <1>4
<1> HIDE DEF b
<1> QED
  BY <1>1, <1>4, <1>5, <1>6

\* mark_saved sets no mark.
LEMMA MarkOnlyFalls ==
    ASSUME EditorInv, NEW s \in Sessions, NEW k \in Slots, is_modified' = MarkSaved(s, k),
           NEW r \in Sessions, NEW g \in Files, is_modified'[r][g]
    PROVE  is_modified[r][g]
<1>0. PICK f : f = save[s][k].file
  OBVIOUS
<1>1. CASE is_modified' = is_modified
  BY <1>1
<1>2. CASE is_modified' = [is_modified EXCEPT ![s][f] = FALSE]
  <2> DEFINE row == [is_modified[s] EXCEPT ![f] = FALSE]
  <2>1. is_modified \in [Sessions -> [Files -> BOOLEAN]]
    BY DEF EditorInv, EditorTypeOK
  <2>2. row[g] => is_modified[s][g]
    BY <2>1
  <2>3. is_modified' = [is_modified EXCEPT ![s] = row]
    BY <1>2
  <2> HIDE DEF row
  <2>4. is_modified'[r][g] = IF r = s THEN row[g] ELSE is_modified[r][g]
    BY <2>1, <2>3
  <2> QED
    BY <2>2, <2>4
<1> QED
  BY <1>0, <1>1, <1>2 DEF MarkSaved

\* Saving a file makes it pending; in the slot there was nothing else, or the save
\* of a file that has no mark now.
LEMMA BegunIsPending ==
    ASSUME EditorInv, NEW s \in Sessions, NEW k \in Slots, NEW f \in Files, Begins(s, k, f),
           content' = content, files' = files, sessions' = sessions,
           \A r \in Sessions, g \in Files : is_modified'[r][g] => is_modified[r][g],
           \A r \in Sessions, g \in Files : EditPending(r, g),
           \A g \in Files : g # f /\ g \notin crossed /\ save[s][k].file = g =>
             save[s][k].at = "idle" \/ (IsOpen(s, g) => ~is_modified'[s][g]),
           NEW r \in Sessions, NEW g \in Files
    PROVE  EditPending(r, g)'
<1>0. /\ Begun(f).at = "begun" /\ Begun(f).file = f /\ "begun" \in Active
      /\ "idle" \notin Active /\ "auto" \in Slots
  BY DEF Begun, Active, Unwritten, Slots
<1>1. IsOpen(r, g)' <=> IsOpen(r, g)
  BY DEF IsOpen
<1>2. CASE g = f
  <2> SUFFICES ASSUME IsOpen(r, f), f \notin crossed'
               PROVE  Pending(r, f)'
    BY <1>1, <1>2 DEF EditPending
  <2>1. ~OpenElsewhere(s, f)
    BY DEF Begins
  <2>2. r = s
    BY <2>1 DEF OpenElsewhere, IsOpen
  <2>3. save'[s][k] = Begun(f)
    BY DEF Begins
  <2>4. Saves(s, k, f)'
    BY <1>0, <2>3 DEF Saves
  <2> QED
    BY <2>2, <2>4 DEF Pending
<1>3. CASE g # f
  <2> SUFFICES ASSUME IsOpen(r, g), is_modified'[r][g], g \notin crossed',
                      content[r][g] \notin Invalid
               PROVE  Pending(r, g)'
    BY <1>1 DEF EditPending
  <2>1. g \notin crossed
    BY <1>3 DEF Begins
  <2>2. Pending(r, g)
    BY <2>1 DEF EditPending
  <2>3. \A l \in Slots : ~(r = s /\ l = k) => save'[r][l] = save[r][l]
    BY DEF Begins
  <2>4. r = s /\ save[s][k].file = g => save[s][k].at = "idle"
    BY <1>3, <2>1
  <2> QED
    BY <1>0, <2>2, <2>3, <2>4 DEF Pending, Saves
<1> QED
  BY <1>2, <1>3

\* Finishing an opening and closing a file change no slot's file or place.
LEMMA DetachedIsPending ==
    ASSUME EditorInv, NEW s \in Sessions, NEW f \in Files, save' = Detach(s, f),
           closing' = closing, crossed' = crossed,
           \A r \in Sessions, g \in Files : ~(r = s /\ g = f) =>
             /\ IsOpen(r, g)' => IsOpen(r, g)
             /\ content'[r][g] = content[r][g]
             /\ is_modified'[r][g] = is_modified[r][g],
           IsOpen(s, f)' => ~is_modified'[s][f],
           \A r \in Sessions, g \in Files : EditPending(r, g),
           NEW r \in Sessions, NEW g \in Files
    PROVE  EditPending(r, g)'
<1>1. KeepsSlots(r, g)
  BY DetachedFit DEF KeepsSlots
<1>2. CASE r = s /\ g = f
  BY <1>2 DEF EditPending
<1>3. CASE ~(r = s /\ g = f)
  BY <1>1, <1>3, EditKept DEF KeepsEdit
<1> QED
  BY <1>2, <1>3

LEMMA OpeningIsPending ==
    ASSUME EditorInv, NEW o \in Openers, OpenFinish(o),
           \A r \in Sessions, g \in Files : EditPending(r, g)
    PROVE  \A r \in Sessions, g \in Files : EditPending(r, g)'
<1>1. PICK s \in Sessions, f \in Files :
        /\ opening[o].text \in Text
        /\ sessions' = sessions /\ closing' = closing /\ crossed' = crossed
        /\ save' = Detach(s, f)
        /\ files' = [files EXCEPT ![s] = @ \cup {f}]
        /\ content' = [content EXCEPT ![s][f] = opening[o].text]
        /\ is_modified' = [is_modified EXCEPT ![s][f] = FALSE]
  <2>1. opening[o] # NoOpening
    BY DEF OpenFinish
  <2>2. /\ opening[o].session \in Sessions /\ opening[o].file \in Files
        /\ opening[o].text \in Text
    BY <2>1 DEF EditorInv, EditorTypeOK
  <2> QED
    BY <2>2 DEF OpenFinish
<1>2. \A r \in Sessions, g \in Files : ~(r = s /\ g = f) => content'[r][g] = content[r][g]
  <2>1. content \in [Sessions -> [Files -> Text]]
    BY DEF EditorInv, EditorTypeOK
  <2> QED
    BY <1>1, <2>1, CellFilled
<1>3. /\ \A r \in Sessions, g \in Files : ~(r = s /\ g = f) => is_modified'[r][g] = is_modified[r][g]
      /\ ~is_modified'[s][f]
  <2> DEFINE n == FALSE
  <2>1. is_modified \in [Sessions -> [Files -> BOOLEAN]] /\ n \in BOOLEAN
    BY DEF EditorInv, EditorTypeOK
  <2>2. is_modified' = [is_modified EXCEPT ![s][f] = n] /\ ~n
    BY <1>1
  <2> HIDE DEF n
  <2> DEFINE b == [is_modified EXCEPT ![s][f] = n]
  <2>3. \A q \in Sessions, g \in Files :
          b[q][g] = IF q = s /\ g = f THEN n ELSE is_modified[q][g]
    BY <2>1, CellFilled
  <2>4. is_modified' = b
    BY <2>2
  <2> HIDE DEF b
  <2>5. \A r \in Sessions, g \in Files : ~(r = s /\ g = f) => b[r][g] = is_modified[r][g]
    BY <2>3
  <2>6. ~b[s][f]
    BY <2>2, <2>3
  <2> QED
    BY <2>4, <2>5, <2>6
<1>4. \A r \in Sessions, g \in Files : ~(r = s /\ g = f) => (IsOpen(r, g)' => IsOpen(r, g))
  BY <1>1 DEF EditorInv, EditorTypeOK, IsOpen
<1>5. save' = Detach(s, f) /\ closing' = closing /\ crossed' = crossed
  BY <1>1
<1>6. \A r \in Sessions, g \in Files : ~(r = s /\ g = f) =>
        /\ IsOpen(r, g)' => IsOpen(r, g)
        /\ content'[r][g] = content[r][g]
        /\ is_modified'[r][g] = is_modified[r][g]
  BY <1>2, <1>3, <1>4
<1>7. IsOpen(s, f)' => ~is_modified'[s][f]
  BY <1>3
<1> QED
  BY <1>5, <1>6, <1>7, DetachedIsPending

LEMMA ClosingIsPending ==
    ASSUME EditorInv, NEW s \in Sessions, NEW f \in Files, CloseFile(s, f),
           \A r \in Sessions, g \in Files : EditPending(r, g)
    PROVE  \A r \in Sessions, g \in Files : EditPending(r, g)'
<1>1. /\ sessions' = sessions /\ closing' = closing /\ crossed' = crossed
      /\ content' = [content EXCEPT ![s][f] = Empty]
      /\ is_modified' = [is_modified EXCEPT ![s][f] = FALSE]
      /\ save' = Detach(s, f)
      /\ files' = [files EXCEPT ![s] = @ \ {f}]
  BY DEF CloseFile
<1>2. ~IsOpen(s, f)' /\ \A r \in Sessions, g \in Files : IsOpen(r, g)' => IsOpen(r, g)
  BY <1>1 DEF EditorInv, EditorTypeOK, IsOpen
<1>3. /\ content \in [Sessions -> [Files -> Text]] /\ Empty \in Text
      /\ is_modified \in [Sessions -> [Files -> BOOLEAN]]
  BY DEF EditorInv, EditorTypeOK, Text
<1>4. \A r \in Sessions, g \in Files : ~(r = s /\ g = f) => content'[r][g] = content[r][g]
  BY <1>1, <1>3, CellFilled
<1>5. \A r \in Sessions, g \in Files : ~(r = s /\ g = f) =>
        is_modified'[r][g] = is_modified[r][g]
  BY <1>1, <1>3, MarkCleared
<1>6. save' = Detach(s, f) /\ closing' = closing /\ crossed' = crossed
  BY <1>1
<1> QED
  BY <1>2, <1>4, <1>5, <1>6, DetachedIsPending

LEMMA SavingIsPending ==
    ASSUME EditorInv, NEW s \in Sessions, NEW k \in Slots, 
           SaveOpen(s, k) \/ SaveWrite(s, k) \/ SaveFlush(s, k),
           NEW r \in Sessions, NEW g \in Files, EditPending(r, g)
    PROVE  EditPending(r, g)'
<1>1. /\ sessions' = sessions /\ files' = files /\ content' = content
      /\ is_modified' = is_modified /\ crossed' = crossed
      /\ save[s][k].at \in Active /\ save \in SaveTable
  BY DEF SaveOpen, SaveWrite, SaveFlush, Active, Unwritten, EditorInv, EditorTypeOK, SaveTable
<1>2. \E at \in {"opened", "writing", "flushed"}, t \in Text : Steps(s, k, at, t)
  <2>1. CASE SaveWrite(s, k)
    <3> DEFINE t == IF save[s][k].own THEN content[s][save[s][k].file] ELSE save[s][k].text
    <3>1. /\ save[s][k].at = "opened"
          /\ save' = [save EXCEPT ![s][k].at = "writing", ![s][k].text = t]
      BY <2>1 DEF SaveWrite
    <3>2. t \in Text
      <4>1. save[s][k] \in SaveState /\ save[s][k].file \in Files
        BY <1>1, <3>1 DEF SaveTable, EditorInv, SavesFit
      <4> QED
        BY <4>1, SaveStates DEF EditorInv, EditorTypeOK
    <3> HIDE DEF t
    <3> QED
      BY <1>1, <3>1, <3>2, SlotStepped
  <2>2. CASE SaveFlush(s, k)
    <3>1. save' = [save EXCEPT ![s][k].at = "flushed", ![s][k].text = Empty]
      BY <2>2 DEF SaveFlush
    <3>2. Empty \in Text
      BY DEF Text
    <3> QED
      BY <1>1, <3>1, <3>2, SlotStepped
  <2>3. CASE SaveOpen(s, k)
    <3>1. save' = [save EXCEPT ![s][k].at = "opened"]
      BY <2>3 DEF SaveOpen
    <3>2. PICK t \in Text : t = save[s][k].text
      BY <1>1, SaveStates DEF SaveTable
    <3> QED
      BY <1>1, <3>1, <3>2, SlotStepped
  <2> QED
    BY <2>1, <2>2, <2>3
<1>3. KeepsSlots(r, g)
  BY <1>1, <1>2 DEF KeepsSlots, Steps, Active, Unwritten
<1> QED
  BY <1>1, <1>3, EditKept DEF KeepsEdit, IsOpen

LEMMA SavedIsPending ==
    ASSUME EditorInv, NEW s \in Sessions, NEW k \in Slots, SaveDone(s, k),
           NEW r \in Sessions, NEW g \in Files, EditPending(r, g)
    PROVE  EditPending(r, g)'
<1>0. PICK f : f = save[s][k].file
  OBVIOUS
<1>1. /\ sessions' = sessions /\ files' = files /\ content' = content /\ crossed' = crossed
      /\ save[s][k].at = "flushed" /\ is_modified' = MarkSaved(s, k)
      /\ save' = [save EXCEPT ![s][k] = NoSave]
  BY DEF SaveDone
<1>2. f \in Files /\ Saves(s, k, f)
  <2>1. save[s][k].at # "idle"
    BY <1>1
  <2> QED
    BY <1>0, <1>1, <2>1 DEF EditorInv, SavesFit, Saves, Active
<1>3. \A q \in Sessions, l \in Slots :
        IF q = s /\ l = k THEN save'[q][l].at = "idle" ELSE save'[q][l] = save[q][l]
  BY <1>1, SlotEmptied
<1>4. CASE g = f
  <2>1. IsOpen(r, f) /\ f \notin crossed => ~is_modified'[r][f]
    BY <1>1, <1>2, DoneIsSaved
  <2> QED
    BY <1>1, <1>4, <2>1 DEF EditPending, IsOpen
<1>5. CASE g # f
  <2>1. KeepsSlots(r, g)
    BY <1>0, <1>3, <1>5 DEF KeepsSlots
  <2>2. is_modified'[r][g] = is_modified[r][g]
    BY <1>0, <1>1, <1>2, <1>5, MarkSavedIs
  <2> QED
    BY <1>1, <2>1, <2>2, EditKept DEF KeepsEdit, IsOpen
<1> QED
  BY <1>4, <1>5

LEMMA FiringIsPending ==
    ASSUME EditorInv, NEW s \in Sessions, AutoSaveFires(s),
           \A r \in Sessions, g \in Files : EditPending(r, g)
    PROVE  \A r \in Sessions, g \in Files : EditPending(r, g)'
<1>0. PICK f : f = save[s]["auto"].file
  OBVIOUS
<1>1. /\ "auto" \in Slots /\ save[s]["auto"].at = "asleep"
      /\ sessions' = sessions /\ files' = files /\ content' = content
      /\ is_modified' = is_modified
  BY DEF AutoSaveFires, Slots
<1>2. f \in Files
  <2>1. save[s]["auto"].at # "idle"
    BY <1>1
  <2> QED
    BY <1>0, <1>1, <2>1 DEF EditorInv, SavesFit
<1>3. CASE BeginSave(s, "auto", f)
  <2>1. Begins(s, "auto", f)
    BY <1>1, <1>2, <1>3, BeginSaveIs DEF EditorInv
  <2> QED
    BY <1>0, <1>1, <1>2, <2>1, BegunIsPending
<1>4. CASE /\ ~Savable(s, f) /\ crossed' = crossed
           /\ save' = [save EXCEPT ![s]["auto"] = NoSave]
  <2>1. \A q \in Sessions, l \in Slots :
          IF q = s /\ l = "auto" THEN save'[q][l].at = "idle" ELSE save'[q][l] = save[q][l]
    BY <1>1, <1>4, SlotEmptied
  <2> SUFFICES ASSUME NEW r \in Sessions, NEW g \in Files
               PROVE  EditPending(r, g)'
    OBVIOUS
  <2>2. CASE r = s /\ g = f
    <3>1. IsOpen(s, f) => content[s][f] \in Invalid
      BY <1>4 DEF Savable, IsOpen
    <3> QED
      BY <1>1, <2>2, <3>1 DEF EditPending, IsOpen
  <2>3. CASE ~(r = s /\ g = f)
    <3>1. KeepsSlots(r, g)
      BY <1>0, <2>1, <2>3 DEF KeepsSlots
    <3> QED
      BY <1>1, <1>4, <3>1, EditKept DEF KeepsEdit, IsOpen
  <2> QED
    BY <2>2, <2>3
<1>5. \/ BeginSave(s, "auto", f)
      \/ /\ ~Savable(s, f) /\ crossed' = crossed
         /\ save' = [save EXCEPT ![s]["auto"] = NoSave]
  BY <1>0 DEF AutoSaveFires
<1> QED
  BY <1>3, <1>4, <1>5

LEMMA FormattingIsPending ==
    ASSUME EditorInv, NEW s \in Sessions, NEW f \in Files, FormatFile(s, f),
           NEW r \in Sessions, NEW g \in Files, EditPending(r, g)
    PROVE  EditPending(r, g)'
<1>1. /\ sessions' = sessions /\ files' = files /\ crossed' = crossed \cup {f} /\ save' = save
      /\ content' = [content EXCEPT ![s][f] = Formatted[@]]
      /\ is_modified' = [is_modified EXCEPT ![s][f] = TRUE]
  BY DEF FormatFile
<1>2. CASE g = f
  BY <1>1, <1>2 DEF EditPending
<1>3. CASE g # f
  <2>1. content'[r][g] = content[r][g] /\ is_modified'[r][g] = is_modified[r][g]
    BY <1>1, <1>3 DEF EditorInv, EditorTypeOK
  <2>2. KeepsSlots(r, g)
    BY <1>1 DEF KeepsSlots
  <2> QED
    BY <1>1, <2>1, <2>2, EditKept DEF KeepsEdit, IsOpen
<1> QED
  BY <1>2, <1>3

LEMMA EditingIsPending ==
    ASSUME EditorInv, AutoSave, NEW s \in Sessions, NEW f \in Files, UpdateContent(s, f),
           NEW r \in Sessions, NEW g \in Files, EditPending(r, g)
    PROVE  EditPending(r, g)'
<1>1. /\ sessions' = sessions /\ files' = files /\ closing' = closing
      /\ save' = [save EXCEPT ![s]["auto"] = Asleep(f)]
      /\ is_modified' = [is_modified EXCEPT ![s][f] = TRUE]
      /\ ScheduleAutoSave(s, f)
  BY DEF UpdateContent, ScheduleAutoSave
<1>2. PICK c \in Contents \cup {Empty} : content' = [content EXCEPT ![s][f] = c]
  BY DEF UpdateContent
<1>3. crossed \subseteq crossed' /\ (g # f /\ save[s]["auto"].file = g => g \in crossed')
  BY DEF UpdateContent
<1>4. \A q \in Sessions, l \in Slots : ~(q = s /\ l = "auto") => save'[q][l] = save[q][l]
  BY <1>1, ScheduleIs
<1>5. CASE r = s /\ g = f
  <2>1. save'[s]["auto"] = Asleep(f)
    BY <1>1 DEF EditorInv, EditorTypeOK, Slots
  <2>2. Asleep(f).at = "asleep" /\ Asleep(f).file = f
    BY DEF Asleep
  <2> QED
    BY <1>5, <2>1, <2>2 DEF EditPending, Pending
<1>6. CASE ~(r = s /\ g = f)
  <2>1. content'[r][g] = content[r][g] /\ is_modified'[r][g] = is_modified[r][g]
    BY <1>1, <1>2, <1>6 DEF EditorInv, EditorTypeOK
  <2>2. g \in crossed' \/ ~(r = s /\ save[s]["auto"].file = g)
    BY <1>3, <1>6
  <2>3. CASE g \in crossed'
    BY <2>3 DEF EditPending
  <2>4. CASE ~(r = s /\ save[s]["auto"].file = g)
    <3>1. KeepsSlots(r, g)
      BY <1>4, <2>4 DEF KeepsSlots
    <3> QED
      BY <1>1, <1>3, <2>1, <3>1, EditKept DEF KeepsEdit, IsOpen
  <2> QED
    BY <2>2, <2>3, <2>4
<1> QED
  BY <1>5, <1>6

\* close_session saves the next file, and the file of its save before has no mark
LEMMA CloseGoesOnPending ==
    ASSUME EditorInv, NEW s \in Sessions, NEW left \in SUBSET Files, CloseGoesOn(s, left),
           files' = files, content' = content,
           \A r \in Sessions, g \in Files : is_modified'[r][g] => is_modified[r][g],
           \A g \in Files : g \notin crossed /\ save[s]["close"].file = g =>
             save[s]["close"].at = "idle" \/ (IsOpen(s, g) => ~is_modified'[s][g]),
           \A r \in Sessions, g \in Files : EditPending(r, g)
    PROVE  \A r \in Sessions, g \in Files : EditPending(r, g)'
<1>0. "close" \in Slots /\ "auto" \in Slots
  BY DEF Slots
<1>1. CASE CloseEnds(s)
  <2>1. /\ save' = [save EXCEPT ![s]["auto"] = NoSave, ![s]["close"] = NoSave]
        /\ sessions' = sessions \ {s} /\ crossed' = crossed
    BY <1>1 DEF CloseEnds
  <2> SUFFICES ASSUME NEW r \in Sessions, NEW g \in Files
               PROVE  EditPending(r, g)'
    OBVIOUS
  <2>2. CASE r = s
    BY <2>1, <2>2 DEF EditPending, IsOpen
  <2>3. CASE r # s
    <3>1. save'[r] = save[r]
      BY <2>1, <2>3 DEF EditorInv, EditorTypeOK
    <3>2. KeepsSlots(r, g)
      BY <3>1 DEF KeepsSlots
    <3> QED
      BY <2>1, <3>2, EditKept DEF KeepsEdit, IsOpen
  <2> QED
    BY <2>2, <2>3
<1>2. ASSUME NEW f \in Unsaved(s, left), BeginSave(s, "close", f), sessions' = sessions
      PROVE  \A r \in Sessions, g \in Files : EditPending(r, g)'
  <2>1. f \in Files
    BY DEF Unsaved
  <2>2. Begins(s, "close", f)
    BY <1>0, <1>2, <2>1, BeginSaveIs DEF EditorInv
  <2> QED
    BY <1>0, <1>2, <2>1, <2>2, BegunIsPending
<1> QED
  BY <1>1, <1>2 DEF CloseGoesOn

LEMMA CloseSessionPending ==
    ASSUME EditorInv, NEW s \in Sessions, CloseSession(s) \/ CloseSaved(s),
           \A r \in Sessions, g \in Files : EditPending(r, g)
    PROVE  \A r \in Sessions, g \in Files : EditPending(r, g)'
<1>0. "close" \in Slots
  BY DEF Slots
<1>1. CASE CloseSession(s)
  <2>1. /\ closing = None /\ is_modified' = is_modified /\ CloseGoesOn(s, files[s])
        /\ files' = files /\ content' = content
    BY <1>1 DEF CloseSession
  <2>2. save[s]["close"].at = "idle" /\ files[s] \in SUBSET Files
    BY <2>1, EditorConstants DEF EditorInv, SavesFit, EditorTypeOK
  <2> QED
    BY <2>1, <2>2, CloseGoesOnPending
<1>2. CASE CloseSaved(s)
  <2>1. /\ save[s]["close"].at = "flushed" /\ is_modified' = MarkSaved(s, "close")
        /\ CloseGoesOn(s, todo) /\ files' = files /\ content' = content
        /\ todo \in SUBSET Files
    BY <1>2 DEF CloseSaved, EditorInv, EditorTypeOK
  <2>2. PICK f \in Files : f = save[s]["close"].file /\ Saves(s, "close", f)
    <3>1. save[s]["close"].at # "idle"
      BY <2>1
    <3> QED
      BY <1>0, <2>1, <3>1 DEF EditorInv, SavesFit, Saves, Active
  <2>3. \A r \in Sessions, g \in Files : is_modified'[r][g] => is_modified[r][g]
    BY <1>0, <2>1, MarkOnlyFalls
  <2>4. \A g \in Files : g \notin crossed /\ save[s]["close"].file = g =>
          (IsOpen(s, g) => ~is_modified'[s][g])
    BY <1>0, <2>1, <2>2, DoneIsSaved
  <2> QED
    BY <2>1, <2>3, <2>4, CloseGoesOnPending
<1> QED
  BY <1>1, <1>2

\* For every session and file, an edit that nothing crossed is on its way to the
\* disk as long as it is not there: the auto-save waits for its time or some save
\* of the file is under way, unless the syntax check refuses the text.  No cancelled
\* auto-save, no other session and no close leaves it without one.
\* (update_content, _schedule_auto_save, save_file.)
THEOREM EditsAlwaysPending == EditorSpec => []EditsPending
<1>1. EditorInit => EditsPending
  BY DEF EditorInit, EditsPending, EditPending, IsOpen
<1>2. EditorInv /\ EditsPending /\ [EditorNext]_editor_vars => EditsPending'
  <2> SUFFICES ASSUME EditorInv, AutoSave, \A s \in Sessions, f \in Files : EditPending(s, f),
                      [EditorNext]_editor_vars
               PROVE  \A s \in Sessions, f \in Files : EditPending(s, f)'
    BY DEF EditsPending
  <2>1. CASE UNCHANGED editor_vars
    BY <2>1 DEF editor_vars, EditPending, IsOpen, Pending, Saves
  <2>2. ASSUME NEW s \in Sessions, CreateSession(s)
        PROVE  \A r \in Sessions, g \in Files : EditPending(r, g)'
    <3>1. /\ sessions' = sessions \cup {s} /\ files[s] = {} /\ files' = files
          /\ content' = content /\ is_modified' = is_modified /\ save' = save
          /\ crossed' = crossed
      BY <2>2 DEF CreateSession, EditorInv, OpeningsFit
    <3> QED
      BY <3>1 DEF EditPending, IsOpen, Pending, Saves
  <2>3. ASSUME NEW o \in Openers, NEW s \in Sessions, NEW f \in Files, OpenRead(o, s, f)
        PROVE  \A r \in Sessions, g \in Files : EditPending(r, g)'
    <3>1. /\ sessions' = sessions /\ files' = files /\ content' = content
          /\ is_modified' = is_modified /\ save' = save /\ crossed \subseteq crossed'
      BY <2>3 DEF OpenRead
    <3> QED
      BY <3>1 DEF EditPending, IsOpen, Pending, Saves
  <2>4. ASSUME NEW s \in Sessions, NEW f \in Files, SaveFile(s, f)
        PROVE  \A r \in Sessions, g \in Files : EditPending(r, g)'
    <3>1. /\ sessions' = sessions /\ files' = files /\ content' = content
          /\ is_modified' = is_modified /\ save[s]["save"].at = "idle"
          /\ "save" \in Slots /\ BeginSave(s, "save", f)
      BY <2>4 DEF SaveFile, NoSave, Slots
    <3>2. Begins(s, "save", f)
      BY <3>1, BeginSaveIs DEF EditorInv
    <3> QED
      BY <3>1, <3>2, BegunIsPending
  <2>5. ASSUME NEW s \in Sessions, NEW k \in Slots, SaveStep(s, k)
        PROVE  \A r \in Sessions, g \in Files : EditPending(r, g)'
    BY <2>5, SavingIsPending, SavedIsPending DEF SaveStep
  <2>6. ASSUME NEW f \in Files, NEW t \in Text, LateWrite(f, t)
        PROVE  \A r \in Sessions, g \in Files : EditPending(r, g)'
    <3>1. /\ sessions' = sessions /\ files' = files /\ content' = content
          /\ is_modified' = is_modified /\ save' = save /\ crossed' = crossed
      BY <2>6 DEF LateWrite
    <3> QED
      BY <3>1 DEF EditPending, IsOpen, Pending, Saves
  <2>7. CASE EditorNext
    BY <2>2, <2>3, <2>4, <2>5, <2>6, <2>7, OpeningIsPending, ClosingIsPending, FiringIsPending,
       FormattingIsPending, EditingIsPending, CloseSessionPending DEF EditorNext
  <2> QED
    BY <2>1, <2>7
<1> QED
  BY <1>1, <1>2, EditorInvariant, PTL DEF EditorSpec
=============================================================================
