------------------------------ MODULE StageFlow ------------------------------
(***************************************************************************)
(* What Engine._run does between the awaits that RunControl merges: the    *)
(* stages of one run in their order, the loops by which validate goes back *)
(* to design and review to plan, the rows of stage_runs, the artifacts and *)
(* the checkpoints, over several starts that resume the run from its       *)
(* checkpoints, with a server that crashes at any write and recovers with  *)
(* Engine.restore_interview_state.                                         *)
(*                                                                         *)
(* A run's rows in the database outlive its starts.  Its files do not:     *)
(* every start creates a session, and with it a project directory, which   *)
(* is new and empty, unless an existing repository is copied into it or a  *)
(* deleted session has left its own.  Of an artifact's content only its    *)
(* provenance is kept: which draft or plan it is, and which one a report   *)
(* judged.                                                                 *)
(***************************************************************************)
EXTENDS Integers, Sequences, FiniteSetsExt

CONSTANTS
  Requests,    \* the stages a start may ask for: [from, to], indices in STAGES
  MaxStarts,   \* bound: starts of the run
  MaxValidate, \* stages.validate.max_iterations (3 in the code's defaults)
  MaxReview,   \* stages.review.max_iterations (2)
  Browser,     \* stages.validate_browser.enabled
  Skippable,   \* stages a user may mark as skipped
  Found        \* what a directory may hold when a start is given it: [plan, tasks]

STAGES == <<"interview", "design", "validate", "plan", "review", "develop">>
INTERVIEW == 1
DESIGN == 2
VALIDATE == 3
PLAN == 4
REVIEW == 5
DEVELOP == 6
\* The optional stage after develop, which is not one of STAGES.
BROWSER == 7
Stage == 1..Len(STAGES)
\* A checkpoint of stage interview that holds questions without answers.
QUESTIONS == 0

ASSUME RequestsAssumption == Requests \subseteq [from : Stage, to : Stage]
ASSUME BoundsAssumption ==
  MaxStarts \in Nat /\ MaxValidate \in Nat \ {0} /\ MaxReview \in Nat \ {0}
ASSUME ConfigAssumption == Browser \in BOOLEAN /\ Skippable \subseteq Stage

VARIABLES
  up,          \* whether the server runs
  starts,      \* how many starts were accepted
  status,      \* runs.status, "absent" before the first start
  current,     \* runs.current_stage, 0 if NULL
  rows,        \* rows[i]: stage_runs.status of stage i
  checkpoints, \* the stages with a row in checkpoints, and QUESTIONS
  artifacts,   \* the rows of table artifacts
  files,       \* the files of the project directory of the latest start
  task         \* the latest start and its task: where it stands, its locals

vars == <<up, starts, status, current, rows, checkpoints, artifacts, files, task>>

\* The plan a directory held before the start it was given to, whatever it is.
FOUND == -1
ASSUME FoundAssumption == Found \subseteq [plan : {0, FOUND}, tasks : {0, FOUND}]
\* Drafts and plans are told apart by a number, 0 if there is none.
Versions == Nat \cup {FOUND}
Report == [of : Versions, passed : BOOLEAN]
\* A report that is not there counts as passed, and judges no draft or plan.
NoReport == [of |-> 0, passed |-> TRUE]
Artifacts == [design_draft : Versions, validation_report : Report,
              devplan : Versions, devplan_tasks : Versions, review_report : Report]
Nothing == [design_draft |-> 0, validation_report |-> NoReport,
            devplan |-> 0, devplan_tasks |-> 0, review_report |-> NoReport]

\* from: the stage asked for; first, to: the stages executed; stage, prev: the
\* current and previous stage; validations, reviews: the iteration counters;
\* saving: the artifacts a stage has still to save.
Idle == [at |-> "none", from |-> 1, first |-> 1, to |-> 0, stage |-> 1, prev |-> 0,
         validations |-> 0, reviews |-> 0, saving |-> <<>>]
Places == {"none", "row", "reset", "loop", "work", "save", "record",
           "retry", "passed", "browse", "finish", "failing"}
\* The task exists: start has come to its end.
Running == task.at \notin {"none", "row", "reset"}
Init ==
  /\ up = TRUE
  /\ starts = 0
  /\ status = "absent"
  /\ current = 0
  /\ rows = [i \in Stage \cup {BROWSER} |-> "absent"]
  /\ checkpoints = {}
  /\ artifacts = Nothing
  /\ files = Nothing
  /\ task = Idle

\* _update_stage_status; save_checkpoint: a stage that has a checkpoint gets another.
SetRow(i, value) == rows' = [rows EXCEPT ![i] = value]
AddCheckpoint(stage) == checkpoints' = checkpoints \cup {stage}

-----------------------------------------------------------------------------
(* Engine.start *)

\* Stage of latest_checkpoint, where there is one.
Furthest == Max(checkpoints \cup {INTERVIEW})

\* Mutant: the stage of the checkpoint, not the one after it.
FirstRepeats(from) ==
  IF checkpoints = {} \/ Furthest < from THEN from ELSE Max({from, Furthest})

\* Mutant: a stage is left out behind the checkpoint of an unfinished interview.
FirstSkips(from) ==
  IF checkpoints = {} \/ Furthest < from THEN from
  ELSE Max({from, Min({Furthest + 1, DEVELOP})})

\* The stage after the furthest checkpoint, if that is later than the stage asked
\* for and the checkpoint is no earlier.  develop is repeated, and so is an
\* interview of which only the questions were saved.
FirstStage(from) ==
  LET next == IF checkpoints = {QUESTIONS} THEN INTERVIEW
              ELSE Min({Furthest + 1, DEVELOP})
  IN  IF checkpoints = {} \/ Furthest < from THEN from ELSE Max({from, next})

\* Checks, the start stage, and create_session: the slug of the project is taken, so
\* that a resumed run too is given a new directory.  What an existing repository brings,
\* or a directory that outlived its session, may be a devplan.md, a devplan_tasks.json or
\* both; no stage reads another file of it that is modelled.  (A second start at the same
\* time is in RunControl.)
StartRequest(r) ==
  /\ up /\ task.at = "none" /\ starts < MaxStarts
  /\ starts' = starts + 1
  /\ \E found \in Found :
       files' = [Nothing EXCEPT !.devplan = found.plan, !.devplan_tasks = found.tasks]
  /\ task' = [Idle EXCEPT !.at = "row", !.from = r.from, !.first = FirstStage(r.from),
                          !.to = r.to]
  /\ UNCHANGED <<up, status, current, rows, checkpoints, artifacts>>

StartRow ==
  /\ task.at = "row"
  /\ status' = "running" /\ current' = task.first
  /\ task' = [task EXCEPT !.at = "reset"]
  /\ UNCHANGED <<up, starts, rows, checkpoints, artifacts, files>>

\* All stages become pending, one write each, those before the first stage too.
\* After the last of them the task is created.
ResetStage ==
  /\ task.at = "reset"
  /\ rows' = [rows EXCEPT ![task.stage] = "pending"]
  /\ task' = IF task.stage < Len(STAGES) THEN [task EXCEPT !.stage = @ + 1]
             ELSE [task EXCEPT !.at = "loop", !.stage = task.first]
  /\ UNCHANGED <<up, starts, status, current, checkpoints, artifacts, files>>

-----------------------------------------------------------------------------
(* Engine._run *)

\* Mutant: the stage to stop after is not executed.
AtEndEarly == task.stage >= task.to

AtEnd == task.stage > task.to

BeginStage ==
  /\ task.at = "loop" /\ ~AtEnd
  /\ SetRow(task.stage, "running")
  /\ task' = [task EXCEPT !.at = "work"]
  /\ UNCHANGED <<up, starts, status, current, checkpoints, artifacts, files>>

\* An interview that the provider answers, or that resumes one, saves its questions.
SaveQuestions ==
  /\ task.at = "work" /\ task.stage = INTERVIEW
  /\ AddCheckpoint(QUESTIONS)
  /\ UNCHANGED <<up, starts, status, current, rows, artifacts, files, task>>

\* While develop waits for a worker that was paused, the worker's checkpoint is saved:
\* one of the stage, though it is not over.
SaveWorkerPaused ==
  /\ task.at = "work" /\ task.stage = DEVELOP
  /\ AddCheckpoint(DEVELOP)
  /\ UNCHANGED <<up, starts, status, current, rows, artifacts, files, task>>

\* A number that no artifact of the run bears.
Fresh(used) == Min((1..Cardinality(used) + 1) \ used)
NewDraft == Fresh({artifacts.design_draft, artifacts.validation_report.of})
NewPlan == Fresh({artifacts.devplan, artifacts.devplan_tasks, artifacts.review_report.of,
                  files.devplan, files.devplan_tasks})

\* What the handler of a stage saves after the provider has answered; a report is
\* about the latest row of what it judges.
Outputs(stage, verdict) ==
  CASE stage = DESIGN -> << <<"design_draft", NewDraft>> >>
    [] stage = VALIDATE ->
         << <<"validation_report", [of |-> artifacts.design_draft, passed |-> verdict]>> >>
    [] stage = PLAN -> << <<"devplan", NewPlan>>, <<"devplan_tasks", NewPlan>> >>
    [] stage = REVIEW ->
         << <<"review_report", [of |-> artifacts.devplan, passed |-> verdict]>> >>
    [] OTHER -> <<>>

Work(verdict) ==
  /\ task.at = "work"
  /\ task' = [task EXCEPT !.at = "save", !.saving = Outputs(task.stage, verdict)]
  /\ UNCHANGED <<up, starts, status, current, rows, checkpoints, artifacts, files>>

\* Mutant: a file that is there is kept.
SaveFileOnce ==
  /\ task.at = "save" /\ task.saving # <<>>
  /\ LET name == Head(task.saving)[1] IN
       files' = IF files[name] = Nothing[name]
                THEN [files EXCEPT ![name] = Head(task.saving)[2]] ELSE files
  /\ task' = [task EXCEPT !.at = "record"]
  /\ UNCHANGED <<up, starts, status, current, rows, checkpoints, artifacts>>

\* _save_art writes the file, emits, and then writes the row.
SaveFile ==
  /\ task.at = "save" /\ task.saving # <<>>
  /\ files' = [files EXCEPT ![Head(task.saving)[1]] = Head(task.saving)[2]]
  /\ task' = [task EXCEPT !.at = "record"]
  /\ UNCHANGED <<up, starts, status, current, rows, checkpoints, artifacts>>

SaveRow ==
  /\ task.at = "record"
  /\ artifacts' = [artifacts EXCEPT ![Head(task.saving)[1]] = Head(task.saving)[2]]
  /\ task' = [task EXCEPT !.at = "save", !.saving = Tail(@)]
  /\ UNCHANGED <<up, starts, status, current, rows, checkpoints, files>>

\* Mutant: only the report of the validation is looked at.
RejectedDesign ==
  task.stage = VALIDATE /\ ~artifacts.validation_report.passed

\* The latest report on what the stage judges says it did not pass.
Rejected ==
  \/ task.stage = VALIDATE /\ ~artifacts.validation_report.passed
  \/ task.stage = REVIEW /\ ~artifacts.review_report.passed

\* Mutant: an attempt at validation is not counted.
JudgeUncounted ==
  /\ task.at = "save" /\ task.saving = <<>>
  /\ SetRow(task.stage, IF Rejected THEN "retrying" ELSE "passed")
  /\ task' = [task EXCEPT
       !.at = IF Rejected THEN "retry" ELSE "passed",
       !.reviews = IF task.stage = REVIEW /\ Rejected THEN @ + 1 ELSE @]
  /\ UNCHANGED <<up, starts, status, current, checkpoints, artifacts, files>>

\* The stage is over; its row says passed, or retrying.  Every validation is
\* counted, but only the reviews that did not pass.
Judge ==
  /\ task.at = "save" /\ task.saving = <<>>
  /\ SetRow(task.stage, IF Rejected THEN "retrying" ELSE "passed")
  /\ task' = [task EXCEPT
       !.at = IF Rejected THEN "retry" ELSE "passed",
       !.validations = IF task.stage = VALIDATE THEN @ + 1 ELSE @,
       !.reviews = IF task.stage = REVIEW /\ Rejected THEN @ + 1 ELSE @]
  /\ UNCHANGED <<up, starts, status, current, checkpoints, artifacts, files>>

\* Mutant: one attempt too many.
MayRetryAgain ==
  IF task.stage = VALIDATE THEN task.validations <= MaxValidate
                           ELSE task.reviews <= MaxReview

MayRetry ==
  IF task.stage = VALIDATE THEN task.validations < MaxValidate
                           ELSE task.reviews < MaxReview

\* Back to the stage that made what was rejected, or the run fails.
Retry ==
  /\ task.at = "retry"
  /\ task' = IF MayRetry
             THEN [task EXCEPT !.at = "loop", !.prev = task.stage,
                               !.stage = IF task.stage = VALIDATE THEN DESIGN ELSE PLAN]
             ELSE [task EXCEPT !.at = "failing"]
  /\ UNCHANGED <<up, starts, status, current, rows, checkpoints, artifacts, files>>

SaveCheckpoint ==
  /\ task.at = "passed"
  /\ AddCheckpoint(task.stage)
  /\ task' = [task EXCEPT !.at = "loop", !.prev = task.stage, !.stage = @ + 1]
  /\ UNCHANGED <<up, starts, status, current, rows, artifacts, files>>

BeginBrowser ==
  /\ task.at = "loop" /\ AtEnd /\ Browser /\ task.prev = DEVELOP
  /\ SetRow(BROWSER, "running")
  /\ task' = [task EXCEPT !.at = "browse"]
  /\ UNCHANGED <<up, starts, status, current, checkpoints, artifacts, files>>

EndBrowser(verdict) ==
  /\ task.at = "browse"
  /\ SetRow(BROWSER, verdict)
  /\ task' = IF verdict = "failed" THEN [task EXCEPT !.at = "failing"]
             ELSE [task EXCEPT !.at = "finish", !.prev = BROWSER]
  /\ UNCHANGED <<up, starts, status, current, checkpoints, artifacts, files>>

\* A run that was resumed behind the stage to stop after passes too.
Finish ==
  /\ \/ task.at = "finish"
     \/ task.at = "loop" /\ AtEnd /\ ~(Browser /\ task.prev = DEVELOP)
  /\ status' = "passed" /\ current' = task.prev
  /\ task' = [task EXCEPT !.at = "none"]
  /\ UNCHANGED <<up, starts, rows, checkpoints, artifacts, files>>

\* The task fails, out of retries or anywhere by an exception, or is cancelled.  The
\* row of the stage it was in is left as it is.
Stop(outcome) ==
  /\ Running
  /\ status' = outcome
  /\ task' = [task EXCEPT !.at = "none"]
  /\ UNCHANGED <<up, starts, current, rows, checkpoints, artifacts, files>>

-----------------------------------------------------------------------------
(* The server *)

\* A request to skip a stage only marks it.
SkipStage(i) ==
  /\ up /\ status # "absent"
  /\ rows' = [rows EXCEPT ![i] = IF @ = "absent" THEN @ ELSE "skipped"]
  /\ UNCHANGED <<up, starts, status, current, checkpoints, artifacts, files, task>>

\* The process ends: the start or the task it had in hand is no more.
Crash ==
  /\ up
  /\ up' = FALSE
  /\ task' = Idle
  /\ UNCHANGED <<starts, status, current, rows, checkpoints, artifacts, files>>

\* restore_interview_state at start-up.
Restore ==
  /\ ~up
  /\ up' = TRUE
  /\ status' = IF status = "running" /\ checkpoints \cap {QUESTIONS, INTERVIEW} # {}
               THEN "failed" ELSE status
  /\ UNCHANGED <<starts, current, rows, checkpoints, artifacts, files, task>>

-----------------------------------------------------------------------------

\* What the coroutine of a start and its task do next.
TaskStep ==
  \/ StartRow \/ ResetStage
  \/ BeginStage \/ \E verdict \in BOOLEAN : Work(verdict)
  \/ SaveFile \/ SaveRow \/ Judge \/ Retry \/ SaveCheckpoint
  \/ BeginBrowser \/ \E v \in {"passed", "skipped", "failed"} : EndBrowser(v)
  \/ Finish
  \/ task.at = "failing" /\ Stop("failed")

Next ==
  \/ \E r \in Requests : StartRequest(r)
  \/ TaskStep
  \/ SaveQuestions \/ SaveWorkerPaused
  \/ \E outcome \in {"failed", "cancelled"} : Stop(outcome)
  \/ \E i \in Skippable : SkipStage(i)
  \/ Crash
  \/ Restore

\* A task is never held for good: it waits for the provider with a timeout, and for
\* the writer lane with bounded retries.  (Pauses are in RunControl.)
Spec == Init /\ [][Next]_vars /\ WF_vars(TaskStep)

-----------------------------------------------------------------------------
(* Properties *)

StageStatus == {"absent", "pending", "running", "retrying", "passed", "skipped", "failed"}

\* Types, and the bounds of the two loops: a start validates at most MaxValidate
\* times and has at most MaxReview reviews rejected.
TypeOK ==
  /\ up \in BOOLEAN
  /\ starts \in 0..MaxStarts
  /\ status \in {"absent", "running", "passed", "failed", "cancelled"}
  /\ current \in {0, BROWSER} \cup Stage
  /\ rows \in [Stage \cup {BROWSER} -> StageStatus]
  /\ checkpoints \subseteq Stage \cup {QUESTIONS}
  /\ artifacts \in Artifacts
  /\ files \in Artifacts
  /\ task.at \in Places
  /\ {task.from, task.first} \subseteq Stage
  /\ task.to \in Stage \cup {0}
  /\ task.stage \in Stage \cup {DEVELOP + 1}
  /\ task.prev \in {0, BROWSER} \cup Stage
  /\ task.validations \in 0..MaxValidate
  /\ task.reviews \in 0..MaxReview
  /\ \A k \in 1..Len(task.saving) : task.saving[k][1] \in DOMAIN Nothing

Begins == task.at = "loop" /\ task'.at = "work"

\* SPEC.md 11.2, the entry conditions: a stage beyond the one a start asked for is
\* begun only when the stage before it, or it itself, has passed in this run.
InOrder ==
  [][Begins /\ task.stage > task.from =>
       {task.stage - 1, task.stage} \cap checkpoints # {}]_vars

\* A resumed run does not do again what has a checkpoint: a stage that has one is
\* begun again only for a retry, or if it is develop, the last.
NoStageRepeated ==
  [][Begins /\ task.stage \in checkpoints /\ task.stage # DEVELOP =>
       task.prev > task.stage]_vars

At(stage) == task.at = "work" /\ task.stage = stage

\* Planning begins only once the latest report judged the latest draft and passed it,
\* and development only once the latest review judged the latest plan and passed it,
\* whatever was retried, crashed or resumed in between; unless a start asked for that
\* stage itself, now or before.
Gates ==
  /\ At(PLAN) /\ task.from < PLAN /\ PLAN \notin checkpoints =>
       artifacts.validation_report = [of |-> artifacts.design_draft, passed |-> TRUE]
  /\ At(DEVELOP) /\ task.from < DEVELOP /\ DEVELOP \notin checkpoints =>
       artifacts.review_report = [of |-> artifacts.devplan, passed |-> TRUE]

\* The files of the directory are a plan that a start has made in it.
HasPlan == files.devplan \notin {0, FOUND} \/ files.devplan_tasks \notin {0, FOUND}

\* develop reads the plan from the files, review from the rows: in a start that has
\* planned, the files hold the plan that was reviewed, and the tasks belong to it, even
\* if the directory held another when it was given to the start.
BuildsWhatWasReviewed ==
  At(DEVELOP) /\ (task.first <= PLAN \/ HasPlan) =>
    /\ artifacts.review_report = [of |-> files.devplan, passed |-> TRUE]
    /\ files.devplan_tasks = files.devplan

\* A run that has passed has done all it was started for: each of its stages has a
\* checkpoint and is passed, if it was not marked as skipped since.
PassedWhole ==
  status = "passed" /\ task.at = "none" =>
    \A i \in task.first..task.to :
      i \in checkpoints /\ rows[i] \in {"passed", "skipped"}

\* Every start ends, however often its reports reject.
StartEnds == task.at # "none" ~> task.at = "none"

\* SPEC.md 11.2: develop has all plan artifacts as its inputs, once a review has
\* passed.
DevelopHasPlan ==
  At(DEVELOP) /\ REVIEW \in checkpoints => files.devplan_tasks # 0

\* develop builds what was reviewed, or nothing.  A start that goes on behind the plan, in
\* a directory that holds one already, builds that one.
BuildsNothingElse ==
  At(DEVELOP) /\ REVIEW \in checkpoints =>
    {files.devplan, files.devplan_tasks} \subseteq {0, artifacts.review_report.of}

\* CHANGELOG.md: orphaned running runs are marked failed on start-up.
NoOrphan == up /\ task.at = "none" => status # "running"
=============================================================================
