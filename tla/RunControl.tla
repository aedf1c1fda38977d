----------------------------- MODULE RunControl -----------------------------
(***************************************************************************)
(* One run and everything that writes its status: the coroutine Engine.    *)
(* start, the task Engine._run it creates (with the interview gate of its  *)
(* first stage), and the handlers that control the run: pause, resume,     *)
(* cancel, blockers, interview answers and steering, over HTTP             *)
(* (core/nexussy/api/server.py) and over MCP (core/nexussy/mcp.py).        *)
(*                                                                         *)
(* All of them are coroutines of one event loop, and an action is what one *)
(* of them does between two awaits.  A read always gives up the loop.  A   *)
(* write gives it up only while another process holds the database: the    *)
(* places in LanePlaces, where a coroutine waits for the writer lane, are  *)
(* left without interruption unless LaneBusy.  Then a write may also fail, *)
(* after its last attempt.  Awaits on events are merged with the await of  *)
(* the write they precede; events other than done are left out             *)
(* (EventStream), and so is what a stage does.                             *)
(***************************************************************************)
EXTENDS Naturals, FiniteSets

CONSTANTS
  Starts,      \* calls of Engine.start for this run id; all but one resume it
  Calls,       \* calls of control handlers
  Ops,         \* the control operations that are enabled
  Modes,       \* how a start may run its interview stage (see Interview)
  MaxStages,   \* bound: stages one task executes, retries included
  MaxTurns,    \* bound: questions a fresh interview asks (8 in the code)
  WorkersLive, \* whether a pause may find worker processes to stop
  Browser,     \* stages.validate_browser.enabled
  LaneBusy     \* whether a write may wait for the writer lane

AllOps == {"pause", "mcp_pause", "resume", "mcp_resume", "cancel", "mcp_cancel",
           "answer", "steer", "blocker", "warning", "resolve"}
\* auto: answered by the provider; fresh: one question after the other; resume:
\* the questions of the run that is resumed.
Interview == {"auto", "fresh", "resume"}

ASSUME ControlAssumption == Ops \subseteq AllOps /\ Modes \subseteq Interview
ASSUME StagesAssumption == MaxStages \in Nat \ {0} /\ MaxTurns \in Nat \ {0}
ASSUME LoopAssumption ==
  WorkersLive \in BOOLEAN /\ Browser \in BOOLEAN /\ LaneBusy \in BOOLEAN
None == "none"
ASSUME ActorsAssumption == Starts \cap Calls = {} /\ None \notin Starts \cup Calls

VARIABLES
  status,      \* runs.status, "absent" before the first start
  session,     \* session[s]: status of the session start s created
  paused,      \* engine.paused[run_id]
  task,        \* the start whose task is engine.tasks[run_id]; None if none
  pc,          \* pc[a]: where the coroutine of start or call a stands
  cancelling,  \* cancelling[s]: the task was cancelled, and has not run since
  cut,         \* cut[s]: cancelled before its first step, or cancelled or left
               \* by a failed write while it handled an exception (history)
  mode,        \* mode[s]: how s runs its interview
  ran,         \* ran[s]: how many stages the task's loop has begun
  turns,       \* turns[s]: how many questions its interview has asked
  waiter,      \* waiter[s]: engine.interview_waiters[session of s]
  doneOf,      \* doneOf[s]: final_status of the last done event of the task
  urgent,      \* an urgent message is in engine.steer_queue[run_id]
  previous,    \* engine.blocked_previous_status[run_id]; None if not there
  blockers,    \* blockers[h]: state of the blocker that call h created
  call         \* call[h]: operation, argument and last query result of h

task_vars == <<session, cancelling, cut, mode, ran, turns, waiter, doneOf>>
vars == <<status, session, paused, task, pc, cancelling, cut, mode, ran, turns,
          waiter, doneOf, urgent, previous, blockers, call>>

Final == {"passed", "failed", "cancelled"}
RunStatus == {"running", "paused", "blocked"} \cup Final

\* Where a coroutine waits for the writer lane, and nothing else.
LanePlaces == {"start row", "create task", "preempt", "ask row", "ask session",
  "timeout row", "timeout session", "interviewed row", "interviewed session",
  "pass row", "pass session", "pass done", "pass notice", "fail row", "fail session",
  "fail done", "fail notice", "cancel row", "cancel session",
  "row", "session", "insert", "resolve", "steer"}
\* Where the exception handlers of _run are, and where the task is alive.
Handling == {"fail row", "fail session", "fail done", "fail notice",
             "cancel row", "cancel session"}
Trying == {"paused", "stage", "browser", "preempt", "ask row", "ask session", "wait",
  "timeout row", "timeout session", "interviewed row", "interviewed session",
  "pass row", "pass session", "pass done", "pass notice"}
Live == {"created"} \cup Trying \cup Handling
Places == {"unused", "create session", "refused", "ended", "read", "stop", "query",
           "judge"} \cup LanePlaces \cup Live

Init ==
  /\ status = "absent"
  /\ session = [s \in Starts |-> "absent"]
  /\ paused = FALSE
  /\ task = None
  /\ pc = [a \in Starts \cup Calls |-> "unused"]
  /\ cancelling = [s \in Starts |-> FALSE]
  /\ cut = [s \in Starts |-> FALSE]
  /\ mode = [s \in Starts |-> "auto"]
  /\ ran = [s \in Starts |-> 0]
  /\ turns = [s \in Starts |-> 0]
  /\ waiter = [s \in Starts |-> None]
  /\ doneOf = [s \in Starts |-> None]
  /\ urgent = FALSE
  /\ previous = None
  /\ blockers = [h \in Calls |-> None]
  /\ call = [h \in Calls |-> [op |-> None, arg |-> None, seen |-> None]]

\* Nobody else holds the event loop.
MayRun(a) ==
  LaneBusy \/ \A b \in (Starts \cup Calls) \ {a} : pc[b] \notin LanePlaces

At(a, place) == pc[a] = place /\ MayRun(a)
Goto(a, place) == pc' = [pc EXCEPT ![a] = place]

\* Coroutine a goes from one place to another by writing runs.status.
WriteRow(a, from, value, to) ==
  /\ At(a, from) /\ Goto(a, to)
  /\ status' = value

\* The same for the status of the session of start s.
WriteSession(a, s, from, value, to) ==
  /\ At(a, from) /\ Goto(a, to)
  /\ session' = [session EXCEPT ![s] = value]

-----------------------------------------------------------------------------
(* Engine.start *)

\* The request is checked, the checkpoints are read, the session is created.
\* Only a run that exists can be resumed, and only a resumed run has questions.
StartRequest(s) ==
  /\ At(s, "unused") /\ Goto(s, "create session")
  /\ (status = "absent") => \A r \in Starts : pc[r] = "unused"
  /\ \E m \in Modes :
       /\ m = "resume" => status # "absent"
       /\ mode' = [mode EXCEPT ![s] = m]
  /\ UNCHANGED <<status, session, paused, task, cancelling, cut, ran, turns, waiter,
                 doneOf, urgent, previous, blockers, call>>

\* Mutant: the status in the database is tested, not the task.
StartCheckByRow(s) ==
  /\ At(s, "create session")
  /\ Goto(s, IF status = "running" THEN "refused" ELSE "start row")
  /\ UNCHANGED <<status, session, paused, task, task_vars, urgent, previous, blockers, call>>

\* Right after the last await on create_session: the test for a live task.
StartCheck(s) ==
  /\ At(s, "create session")
  /\ Goto(s, IF task # None /\ pc[task] \in Live THEN "refused" ELSE "start row")
  /\ UNCHANGED <<status, session, paused, task, task_vars, urgent, previous, blockers, call>>

StartRow(s) ==
  /\ WriteRow(s, "start row", "running", "create task")
  /\ session' = [session EXCEPT ![s] = "running"]
  /\ UNCHANGED <<paused, task, cancelling, cut, mode, ran, turns, waiter, doneOf,
                 urgent, previous, blockers, call>>

CreateTask(s) ==
  /\ At(s, "create task") /\ Goto(s, "created")
  /\ task' = s
  /\ UNCHANGED <<status, paused, task_vars, urgent, previous, blockers, call>>

\* Database.write gives up after its last attempt: start answers with an error, and
\* leaves what it has written.
StartRaises(s) ==
  /\ LaneBusy /\ pc[s] \in {"start row", "create task"} /\ Goto(s, "refused")
  /\ UNCHANGED <<status, session, paused, task, task_vars, urgent, previous, blockers, call>>

Start(s) ==
  StartRequest(s) \/ StartCheck(s) \/ StartRow(s) \/ CreateTask(s) \/ StartRaises(s)

-----------------------------------------------------------------------------
(* Engine._run *)

\* The task runs: it is not about to be thrown a CancelledError.
Runs(s, place) == At(s, place) /\ ~cancelling[s]

\* The head of the loop over the stages: the pause flag is looked at.
Loop(s) ==
  IF paused THEN Goto(s, "paused") /\ UNCHANGED ran
            ELSE Goto(s, "stage") /\ ran' = [ran EXCEPT ![s] = @ + 1]

\* Mutant: the pause flag is looked at only between two stages.
FirstStepUnchecked(s) ==
  /\ Runs(s, "created") /\ Goto(s, "stage")
  /\ ran' = [ran EXCEPT ![s] = @ + 1]
  /\ UNCHANGED <<status, session, paused, task, cancelling, cut, mode, turns, waiter,
                 doneOf, urgent, previous, blockers, call>>

FirstStep(s) ==
  /\ Runs(s, "created") /\ Loop(s)
  /\ UNCHANGED <<status, session, paused, task, cancelling, cut, mode, turns, waiter,
                 doneOf, urgent, previous, blockers, call>>

\* Mutant: the loop does not look at the flag again, only at the steer queue.
WakeByUrgent(s) ==
  /\ Runs(s, "paused") /\ urgent
  /\ Goto(s, "preempt")
  /\ urgent' = FALSE
  /\ UNCHANGED <<status, session, paused, task, cancelling, cut, mode, ran, turns, waiter,
                 doneOf, previous, blockers, call>>

\* asyncio.sleep(0.05) is over: an urgent message is consumed (it ends the pause
\* once the message is marked in the database), or the flag is looked at again.
Wake(s) ==
  /\ Runs(s, "paused")
  /\ IF urgent THEN Goto(s, "preempt") /\ UNCHANGED ran ELSE ~paused /\ Loop(s)
  /\ urgent' = FALSE
  /\ UNCHANGED <<status, session, paused, task, cancelling, cut, mode, turns, waiter,
                 doneOf, previous, blockers, call>>

Preempted(s) ==
  /\ Runs(s, "preempt") /\ Goto(s, "stage")
  /\ paused' = FALSE
  /\ ran' = [ran EXCEPT ![s] = @ + 1]
  /\ UNCHANGED <<status, session, task, cancelling, cut, mode, turns, waiter, doneOf,
                 urgent, previous, blockers, call>>

\* The interview, if the run begins with one that asks, is still to be held.
Interviewing(s) == mode[s] # "auto" /\ ran[s] = 1 /\ waiter[s] # "closed"

\* A stage passes: the messages in the steer queue are consumed, and the next
\* stage begins, or none is left.  A failed validation or review leads back to a
\* former stage, and past the steer queue.  The browser validation, which is no stage
\* of the loop, follows develop, and nobody looks at the pause flag.
StagePassed(s) ==
  /\ Runs(s, "stage") /\ ~Interviewing(s)
  /\ \/ Goto(s, "pass row") /\ UNCHANGED ran /\ urgent' = FALSE
     \/ Browser /\ Goto(s, "browser") /\ UNCHANGED ran /\ urgent' = FALSE
     \/ ran[s] < MaxStages /\ Loop(s) /\ urgent' \in {urgent, FALSE}
  /\ UNCHANGED <<status, session, paused, task, cancelling, cut, mode, turns, waiter,
                 doneOf, previous, blockers, call>>

BrowserPassed(s) ==
  /\ Runs(s, "browser") /\ Goto(s, "pass row")
  /\ UNCHANGED <<status, paused, task, task_vars, urgent, previous, blockers, call>>

\* A stage raises: the pause flag is dropped before anything is written.
StageFailed(s) ==
  /\ Runs(s, "stage") \/ Runs(s, "browser")
  /\ Goto(s, "fail row")
  /\ paused' = FALSE
  /\ UNCHANGED <<status, task, task_vars, urgent, previous, blockers, call>>

WriteTaskRow(s) ==
  /\ ~cancelling[s]
  /\ \/ WriteRow(s, "pass row", "passed", "pass session")
     \/ WriteRow(s, "fail row", "failed", "fail session")
     \/ WriteRow(s, "cancel row", "cancelled", "cancel session")
     \/ WriteRow(s, "ask row", "paused", "ask session")
     \/ WriteRow(s, "timeout row", "failed", "timeout session")
     \/ WriteRow(s, "interviewed row", "running", "interviewed session")
  /\ UNCHANGED <<paused, task, task_vars, urgent, previous, blockers, call>>

\* transition_session_status; the interview timeout then raises.
WriteTaskSession(s) ==
  /\ ~cancelling[s]
  /\ \/ WriteSession(s, s, "pass session", "passed", "pass done") /\ UNCHANGED paused
     \/ WriteSession(s, s, "fail session", "failed", "fail done") /\ UNCHANGED paused
     \/ WriteSession(s, s, "cancel session", "cancelled", "ended") /\ UNCHANGED paused
     \/ WriteSession(s, s, "ask session", "paused", "wait") /\ UNCHANGED paused
     \/ WriteSession(s, s, "timeout session", "failed", "fail row") /\ paused' = FALSE
     \/ WriteSession(s, s, "interviewed session", "running", "stage") /\ UNCHANGED paused
  /\ UNCHANGED <<status, task, cancelling, cut, mode, ran, turns, waiter, doneOf,
                 urgent, previous, blockers, call>>

\* The done event is persisted and handed to the subscribers; to one whose queue is
\* full goes a notice instead, which is persisted first: another wait for the lane.
EmitDone(s) ==
  /\ \/ /\ Runs(s, "pass done") /\ doneOf' = [doneOf EXCEPT ![s] = "passed"]
        /\ Goto(s, "ended") \/ Goto(s, "pass notice")
     \/ /\ Runs(s, "fail done") /\ doneOf' = [doneOf EXCEPT ![s] = "failed"]
        /\ Goto(s, "ended") \/ Goto(s, "fail notice")
  /\ UNCHANGED <<status, session, paused, task, cancelling, cut, mode, ran, turns, waiter,
                 urgent, previous, blockers, call>>

NoticeSent(s) ==
  /\ Runs(s, "pass notice") \/ Runs(s, "fail notice")
  /\ Goto(s, "ended")
  /\ UNCHANGED <<status, paused, task, task_vars, urgent, previous, blockers, call>>

\* Database.write gives up: in the try block like a stage that raises, in an exception
\* handler the end of the task.
TaskRaises(s) ==
  /\ LaneBusy /\ ~cancelling[s]
  /\ \/ /\ pc[s] \in Trying \cap LanePlaces /\ Goto(s, "fail row")
        /\ paused' = FALSE
        /\ UNCHANGED cut
     \/ /\ pc[s] \in Handling /\ Goto(s, "ended")
        /\ cut' = [cut EXCEPT ![s] = TRUE]
        /\ UNCHANGED paused
  /\ UNCHANGED <<status, session, task, cancelling, mode, ran, turns, waiter, doneOf, urgent,
                 previous, blockers, call>>

\* Mutant: no handler for CancelledError.
CancelledUnhandled(s) ==
  /\ cancelling[s] /\ MayRun(s)
  /\ cancelling' = [cancelling EXCEPT ![s] = FALSE]
  /\ Goto(s, "ended")
  /\ cut' = [cut EXCEPT ![s] = pc[s] \notin Trying]
  /\ UNCHANGED <<status, session, paused, task, mode, ran, turns, waiter, doneOf, urgent,
                 previous, blockers, call>>

\* Mutant: the wait for an answer swallows the CancelledError.
CancelledSwallowed(s) ==
  /\ cancelling[s] /\ MayRun(s)
  /\ cancelling' = [cancelling EXCEPT ![s] = FALSE]
  /\ IF pc[s] \in Trying
     THEN Goto(s, IF pc[s] = "wait" THEN "wait" ELSE "cancel row") /\ UNCHANGED cut
     ELSE Goto(s, "ended") /\ cut' = [cut EXCEPT ![s] = TRUE]
  /\ waiter' = [waiter EXCEPT ![s] = "closed"]
  /\ UNCHANGED <<status, session, paused, task, mode, ran, turns, doneOf, urgent,
                 previous, blockers, call>>

\* CancelledError is raised where the task was suspended: nowhere, if it had not
\* begun; in an exception handler, which is left; or in the try block.
Cancelled(s) ==
  /\ cancelling[s] /\ MayRun(s)
  /\ cancelling' = [cancelling EXCEPT ![s] = FALSE]
  /\ IF pc[s] \in Trying
     THEN /\ Goto(s, "cancel row")
          /\ waiter' = [waiter EXCEPT ![s] = "closed"]
          /\ UNCHANGED cut
     ELSE /\ Goto(s, "ended")
          /\ cut' = [cut EXCEPT ![s] = TRUE]
          /\ UNCHANGED waiter
  /\ UNCHANGED <<status, session, paused, task, mode, ran, turns, doneOf, urgent,
                 previous, blockers, call>>

-----------------------------------------------------------------------------
(* The interview gate: pipeline/stages/interview.py *)

\* The question is out: the run pauses itself until its future is resolved.
Ask(s) ==
  /\ Runs(s, "stage") /\ Interviewing(s)
  /\ turns[s] < (IF mode[s] = "fresh" THEN MaxTurns ELSE 1)
  /\ Goto(s, "ask row")
  /\ turns' = [turns EXCEPT ![s] = @ + 1]
  /\ waiter' = [waiter EXCEPT ![s] = "waiting"]
  /\ paused' = TRUE
  /\ UNCHANGED <<status, session, task, cancelling, cut, mode, ran, doneOf, urgent,
                 previous, blockers, call>>

\* The answer came: a fresh interview goes on, a resumed one is over as it is.
Answered(s) ==
  /\ Runs(s, "wait") /\ waiter[s] = "answered"
  /\ Goto(s, "stage")
  /\ waiter' = [waiter EXCEPT ![s] = IF mode[s] = "fresh" THEN None ELSE "closed"]
  /\ UNCHANGED <<status, session, paused, task, cancelling, cut, mode, ran, turns,
                 doneOf, urgent, previous, blockers, call>>

\* answer_timeout_s is over; only a fresh interview looks at it.
TimedOut(s) ==
  /\ Runs(s, "wait") /\ mode[s] = "fresh" /\ waiter[s] = "waiting"
  /\ Goto(s, "timeout row")
  /\ waiter' = [waiter EXCEPT ![s] = "closed"]
  /\ paused' = FALSE
  /\ UNCHANGED <<status, session, task, cancelling, cut, mode, ran, turns, doneOf,
                 urgent, previous, blockers, call>>

\* A fresh interview has no more questions: the run is no longer paused.
Complete(s) ==
  /\ Runs(s, "stage") /\ Interviewing(s) /\ mode[s] = "fresh"
  /\ Goto(s, "interviewed row")
  /\ waiter' = [waiter EXCEPT ![s] = "closed"]
  /\ paused' = FALSE
  /\ UNCHANGED <<status, session, task, cancelling, cut, mode, ran, turns, doneOf,
                 urgent, previous, blockers, call>>

Run(s) ==
  \/ FirstStep(s) \/ Wake(s) \/ Preempted(s) \/ StagePassed(s) \/ BrowserPassed(s)
  \/ StageFailed(s) \/ WriteTaskRow(s) \/ WriteTaskSession(s) \/ EmitDone(s)
  \/ NoticeSent(s) \/ TaskRaises(s) \/ Cancelled(s)
  \/ Ask(s) \/ Answered(s) \/ TimedOut(s) \/ Complete(s)

-----------------------------------------------------------------------------
(* The control handlers *)

Op(h) == call[h].op
Arg(h) == call[h].arg
Seen(h) == call[h].seen

\* A request arrives for the run.  POST /pipeline/resume drops the pause flag
\* before it looks for the run; a blocker is inserted before that.
Request(h) ==
  /\ At(h, "unused") /\ status # "absent"
  /\ \E o \in Ops, a \in {None} \cup Starts \cup Calls :
       /\ (a \in Starts) <=> (o = "answer")
       /\ (a \in Calls) <=> (o = "resolve")
       /\ a \in Starts => session[a] # "absent"
       /\ a \in Calls => blockers[a] # None
       /\ call' = [call EXCEPT ![h] = [op |-> o, arg |-> a, seen |-> None]]
       /\ Goto(h, IF o \in {"blocker", "warning"} THEN "insert" ELSE "read")
       /\ paused' = (paused /\ o # "resume")
  /\ UNCHANGED <<status, task, task_vars, urgent, previous, blockers>>

\* The flag is set, the worker processes are stopped (an await of its own, if
\* there are any), then the status is written.  Only HTTP looks at the flag first.
Pause(h) ==
  /\ At(h, "read") /\ Op(h) \in {"pause", "mcp_pause"}
  /\ IF Op(h) = "pause" /\ paused
     THEN Goto(h, "ended")
     ELSE Goto(h, "row") \/ (WorkersLive /\ Goto(h, "stop"))
  /\ paused' = TRUE
  /\ UNCHANGED <<status, task, task_vars, urgent, previous, blockers, call>>

WorkersStopped(h) ==
  /\ At(h, "stop") /\ Goto(h, "row")
  /\ UNCHANGED <<status, paused, task, task_vars, urgent, previous, blockers, call>>

\* Mutant: MCP resumes the row and leaves the flag.
ResumeRowOnly(h) ==
  /\ At(h, "read") /\ Op(h) \in {"resume", "mcp_resume"}
  /\ Goto(h, "row")
  /\ UNCHANGED <<status, paused, task, task_vars, urgent, previous, blockers, call>>

Resume(h) ==
  /\ At(h, "read") /\ Op(h) \in {"resume", "mcp_resume"}
  /\ Goto(h, "row")
  /\ paused' = (paused /\ Op(h) = "resume")
  /\ UNCHANGED <<status, task, task_vars, urgent, previous, blockers, call>>

\* Mutant: only a task that waits is cancelled.
CancelIfWaiting(h) ==
  /\ At(h, "read") /\ Op(h) \in {"cancel", "mcp_cancel"}
  /\ Goto(h, "row")
  /\ cancelling' = [s \in Starts |->
       cancelling[s] \/ (s = task /\ pc[s] \in {"paused", "wait"})]
  /\ paused' = (paused /\ Op(h) = "cancel")
  /\ call' = [call EXCEPT ![h].arg = task]
  /\ UNCHANGED <<status, session, task, cut, mode, ran, turns, waiter, doneOf, urgent,
                 previous, blockers>>

\* The task, if there is one that is not over, is cancelled; only MCP drops the
\* pause flag.
Cancel(h) ==
  /\ At(h, "read") /\ Op(h) \in {"cancel", "mcp_cancel"}
  /\ Goto(h, "row")
  /\ cancelling' = [s \in Starts |-> cancelling[s] \/ (s = task /\ pc[s] \in Live)]
  /\ paused' = (paused /\ Op(h) = "cancel")
  /\ call' = [call EXCEPT ![h].arg = task]
  /\ UNCHANGED <<status, session, task, cut, mode, ran, turns, waiter, doneOf, urgent,
                 previous, blockers>>

\* submit_interview_answers: the future of the session is resolved, or, if nobody
\* waits for it, the run is declared running.
Answer(h) ==
  /\ At(h, "read") /\ Op(h) = "answer"
  /\ IF waiter[Arg(h)] = "waiting"
     THEN /\ Goto(h, "ended")
          /\ waiter' = [waiter EXCEPT ![Arg(h)] = "answered"]
          /\ UNCHANGED paused
     ELSE /\ Goto(h, "row")
          /\ paused' = FALSE
          /\ UNCHANGED waiter
  /\ UNCHANGED <<status, session, task, cancelling, cut, mode, ran, turns, doneOf, urgent,
                 previous, blockers, call>>

AnswerSession(h) ==
  /\ WriteSession(h, Arg(h), "session", "running", "ended")
  /\ UNCHANGED <<status, paused, task, cancelling, cut, mode, ran, turns, waiter, doneOf,
                 urgent, previous, blockers, call>>

\* An urgent message for the orchestrator: recorded, then queued.
Steer(h) ==
  /\ \/ At(h, "read") /\ Op(h) = "steer" /\ Goto(h, "steer") /\ UNCHANGED urgent
     \/ At(h, "steer") /\ Goto(h, "ended") /\ urgent' = TRUE
  /\ UNCHANGED <<status, paused, task, task_vars, previous, blockers, call>>

\* A blocker is inserted; then the status of the run is read.
InsertBlocker(h) ==
  /\ At(h, "insert") /\ Goto(h, "query")
  /\ blockers' = [blockers EXCEPT ![h] = Op(h)]
  /\ UNCHANGED <<status, paused, task, task_vars, urgent, previous, call>>

ResolveBlocker(h) ==
  /\ \/ At(h, "read") /\ Op(h) = "resolve" /\ Goto(h, "resolve") /\ UNCHANGED blockers
     \/ /\ At(h, "resolve") /\ Goto(h, "query")
        /\ blockers' = [blockers EXCEPT ![Arg(h)] = "resolved"]
  /\ UNCHANGED <<status, paused, task, task_vars, urgent, previous, call>>

BlockersOpen == \E h \in Calls : blockers[h] = "blocker"

\* The query runs in another thread: its result is old when the handler sees it.
Query(h) ==
  /\ pc[h] = "query" /\ Goto(h, "judge")
  /\ call' = [call EXCEPT ![h].seen =
       IF Op(h) # "resolve" THEN status ELSE IF BlockersOpen THEN "blocked" ELSE "clear"]
  /\ UNCHANGED <<status, paused, task, task_vars, urgent, previous, blockers>>

\* Mutant: no default for a status that was not remembered.
JudgeNoDefault(h) ==
  /\ At(h, "judge")
  /\ \/ /\ Op(h) = "blocker" /\ Goto(h, "row")
        /\ previous' = IF Seen(h) = "blocked" THEN previous ELSE Seen(h)
        /\ call' = [call EXCEPT ![h].seen = "blocked"]
     \/ /\ Op(h) = "resolve" /\ Seen(h) = "clear" /\ Goto(h, "row")
        /\ previous' = None
        /\ call' = [call EXCEPT ![h].seen = previous]
     \/ /\ Op(h) = "warning" \/ (Op(h) = "resolve" /\ Seen(h) = "blocked")
        /\ Goto(h, "ended")
        /\ UNCHANGED <<previous, call>>
  /\ UNCHANGED <<status, paused, task, task_vars, urgent, blockers>>

\* The handler acts on the result: it remembers the status a blocker replaces, and
\* takes back the one remembered when no blocker remained.
Judge(h) ==
  /\ At(h, "judge")
  /\ \/ /\ Op(h) = "blocker" /\ Goto(h, "row")
        /\ previous' = IF Seen(h) = "blocked" THEN previous ELSE Seen(h)
        /\ call' = [call EXCEPT ![h].seen = "blocked"]
     \/ /\ Op(h) = "resolve" /\ Seen(h) = "clear" /\ Goto(h, "row")
        /\ previous' = None
        /\ call' = [call EXCEPT ![h].seen = IF previous = None THEN "running" ELSE previous]
     \/ /\ Op(h) = "warning" \/ (Op(h) = "resolve" /\ Seen(h) = "blocked")
        /\ Goto(h, "ended")
        /\ UNCHANGED <<previous, call>>
  /\ UNCHANGED <<status, paused, task, task_vars, urgent, blockers>>

\* The status a handler writes, whatever the status is by now.
Outcome(h) ==
  CASE Op(h) \in {"pause", "mcp_pause"} -> "paused"
    [] Op(h) \in {"resume", "mcp_resume", "answer"} -> "running"
    [] Op(h) \in {"cancel", "mcp_cancel"} -> "cancelled"
    [] OTHER -> Seen(h)

WriteCallRow(h) ==
  /\ WriteRow(h, "row", Outcome(h), IF Op(h) = "answer" THEN "session" ELSE "ended")
  /\ UNCHANGED <<paused, task, task_vars, urgent, previous, blockers, call>>

\* Database.write gives up: the call is answered with an error, and what it was about to
\* write is not written.
CallRaises(h) ==
  /\ LaneBusy /\ pc[h] \in LanePlaces /\ Goto(h, "refused")
  /\ UNCHANGED <<status, paused, task, task_vars, urgent, previous, blockers, call>>

Handle(h) ==
  \/ Pause(h) \/ WorkersStopped(h) \/ Resume(h) \/ Cancel(h) \/ Answer(h)
  \/ AnswerSession(h) \/ Steer(h) \/ InsertBlocker(h) \/ ResolveBlocker(h)
  \/ Query(h) \/ Judge(h) \/ WriteCallRow(h) \/ CallRaises(h)

-----------------------------------------------------------------------------

Next ==
  \/ \E s \in Starts : Start(s) \/ Run(s)
  \/ \E h \in Calls : Request(h) \/ Handle(h)

\* The event loop runs what it can run: a task that was created, and a handler
\* that was called.  A stage ends some day (its timeouts, and its bounded retries).
Fairness ==
  /\ \A s \in Starts : WF_vars(Run(s)) /\ WF_vars(StartCheck(s) \/ StartRow(s) \/ CreateTask(s))
  /\ \A h \in Calls : WF_vars(Handle(h))

Spec == Init /\ [][Next]_vars /\ Fairness

-----------------------------------------------------------------------------
(* Properties *)

Quiet == \A h \in Calls : pc[h] \in {"unused", "ended", "refused"}
Pauses == {"pause", "mcp_pause"}
Cancels == {"cancel", "mcp_cancel"}
Resumes == {"resume", "mcp_resume", "answer", "steer"}

\* Every variable has its type.
TypeOK ==
  /\ status \in {"absent"} \cup RunStatus
  /\ session \in [Starts -> {"absent", "running", "paused"} \cup Final]
  /\ paused \in BOOLEAN /\ urgent \in BOOLEAN
  /\ task \in Starts \cup {None}
  /\ pc \in [Starts \cup Calls -> Places]
  /\ cancelling \in [Starts -> BOOLEAN] /\ cut \in [Starts -> BOOLEAN]
  /\ mode \in [Starts -> Modes \cup {"auto"}]
  /\ ran \in [Starts -> 0 .. MaxStages]
  /\ turns \in [Starts -> 0 .. MaxTurns]
  /\ waiter \in [Starts -> {None, "waiting", "answered", "closed"}]
  /\ doneOf \in [Starts -> {None, "passed", "failed"}]
  /\ previous \in {None} \cup RunStatus
  /\ blockers \in [Calls -> {None, "blocker", "warning", "resolved"}]
  /\ \A h \in Calls : /\ Op(h) \in Ops \cup {None}
                      /\ Arg(h) \in Starts \cup Calls \cup {None}
                      /\ Seen(h) \in RunStatus \cup {None, "clear"}

\* A run has at most one live task, whatever starts resume it at the same time:
\* start has no await between its test for a live task and create_task that
\* another coroutine of this process could use (SPEC.md 10.3: 409 conflict).
OneLiveTask == Cardinality({s \in Starts : pc[s] \in Live}) <= 1

\* A cancellation that was acknowledged is not undone by the task: as long as the
\* run is not started anew, its status is neither passed nor failed, wherever the
\* task was when it was cancelled.
CancelSticks ==
  \A h \in Calls :
    pc[h] = "ended" /\ Op(h) \in Cancels /\ Arg(h) = task /\ task # None
      => status \notin {"passed", "failed"}

\* The ways a run ends agree: when its task is over, its session has the status that
\* its last done event announced, or is cancelled.  Then no done event was emitted, or
\* one that said passed: of the cancellation that strikes while emit, which has
\* persisted done, still has a notice for a slow subscriber to write (see DoneIsTrue).
\* Nothing is said of a task that was cancelled before its first step, or cancelled or
\* left by a failed write inside an exception handler.
EndsAgree ==
  \A s \in Starts :
    pc[s] = "ended" /\ ~cut[s]
      => session[s] = doneOf[s] \/ (session[s] = "cancelled" /\ doneOf[s] # "failed")

\* SPEC.md 9.1: the end of a run is told by its done event.
DoneIsTrue ==
  \A s \in Starts :
    pc[s] = "ended" /\ doneOf[s] # None => session[s] = doneOf[s]

\* A run that was started once, with a live task that is not being cancelled, while no
\* handler is between the flag and the row.
Settled(s) ==
  /\ pc[s] \in {"created", "paused", "stage", "browser", "wait"} /\ ~cancelling[s]
  /\ \A r \in Starts \ {s} : pc[r] = "unused"
  /\ \A h \in Calls : pc[h] \notin {"stop", "row"}

\* A run that is held says so: when the pause flag of a live run is set, its status is
\* paused, whatever pauses (which stop workers between the flag and the row), MCP
\* resumes, cancellations, answers and urgent messages came, in any order.  The lane is
\* free; two kinds of calls are left out that write the status whatever the flag is:
\* POST /pipeline/resume, which drops the flag before it looks for the run and declares
\* it running later, and blockers.
HeldIsPaused ==
  \A s \in Starts :
    Settled(s) /\ (\A h \in Calls : Op(h) \notin {"resume", "blocker", "resolve"})
      => (paused => status = "paused")

\* The converse: a run whose status is paused is held.
PausedIsHeld ==
  \A s \in Starts :
    Settled(s) /\ (\A h \in Calls : Op(h) \in {None, "mcp_pause", "mcp_resume"})
      => (status = "paused" => paused)

\* A pause was acknowledged, and no call resumes the run.  (An MCP cancellation that
\* found no task to cancel drops the flag like a resume.)
PauseStands ==
  /\ \E h \in Calls : Op(h) \in Pauses /\ pc[h] = "ended"
  /\ \A h \in Calls : Op(h) \notin Resumes /\ (Op(h) = "mcp_cancel" => Arg(h) # None)

\* A stage of the loop begins although a pause was acknowledged and nothing resumed the
\* run.
OverridesPause(s) ==
  /\ ran[s]' > ran[s]
  /\ PauseStands

\* SPEC.md 13.4: pause stops the assignment of work.  After a pause was acknowledged
\* no stage of the loop, interview to develop, begins, wherever the task was, and
\* whatever else was asked of it: a cancellation that drops the pause flag included (see
\* InterviewKeepsPause, and BrowserWaits for the stage that is not in the loop).
PauseHolds ==
  [][\A s \in Starts : mode[s] = "auto" => ~OverridesPause(s)]_vars

\* The same for a run with an interview, which has a pause of its own.
InterviewKeepsPause ==
  [][\A s \in Starts : mode[s] # "auto" => ~OverridesPause(s)]_vars

\* The same for the browser validation.
BrowserWaits ==
  [][\A s \in Starts : pc[s] # "browser" /\ pc'[s] = "browser" => ~PauseStands]_vars

\* A run that is not held ends: its task finishes if, from some point on, nobody
\* has it paused.
RunEnds ==
  <>[](~paused) => \A s \in Starts : pc[s] \in Live ~> pc[s] = "ended"

\* A cancelled task ends, be it paused, waiting for an answer, or at work.
CancelledEnds ==
  \A s \in Starts : cancelling[s] ~> pc[s] = "ended"

\* SPEC.md 10.3: control operations answer run_not_active on a run that is over,
\* whose status only a new start changes.
TerminalIsFinal ==
  [][(status \in Final /\ status' # status) =>
       \E s \in Starts : pc[s] = "start row" /\ pc[s] # pc[s]']_vars

\* SPEC.md 7: resume_run_id resumes the run: its new task is not held by a pause
\* that was requested before.
NotBornPaused ==
  [][\A s \in Starts : pc[s] # "created" /\ pc'[s] = "created" => ~paused]_vars

\* README.md: a manual interview wait comes to an end by itself.
WaitEnds ==
  \A s \in Starts : pc[s] = "wait" ~> pc[s] # "wait"

\* SPEC.md 13.4: a blocker sets the status of the run to blocked.
BlockedWhileOpen ==
  Quiet /\ BlockersOpen => status = "blocked"

\* SPEC.md 13.4: when all blockers are resolved the run has its status back, here
\* that of a run that was over before.
StatusRestored ==
  Quiet /\ ~BlockersOpen /\ task # None =>
    (pc[task] = "ended" /\ doneOf[task] # None => status = doneOf[task])
=============================================================================
