----------------------------- MODULE WorkerRun -----------------------------
(***************************************************************************)
(* One worker of the develop stage: the coroutine run_worker_rpc (core/    *)
(* nexussy/pipeline/stages/develop.py), which spawns a process (PiWorker), *)
(* asks it to do the task, waits for the answer and stops it; and what     *)
(* others do to it: pause, resume, worker_stop and worker_inject           *)
(* (core/nexussy/api/server.py, core/nexussy/mcp.py), and a cancellation.  *)
(*                                                                         *)
(* An action is what one of them does between two awaits.  A pause ends    *)
(* processes, and the coroutine learns of it by the end of its process and *)
(* the flag engine.paused, which may be gone again by then.                *)
(***************************************************************************)
EXTENDS PiWorker, FiniteSets

CONSTANTS
  MaxStops,    \* bound: calls of pause and of worker_stop
  MaxInjects   \* bound: calls of worker_inject

ASSUME CallsAssumption == MaxStops \in Nat /\ MaxInjects \in Nat

VARIABLES
  pc,          \* where run_worker_rpc stands; cut: it has ended, and left its process alone
  depth,       \* the process it has spawned last; 0 before the first
  outcome,     \* what the wait came to: none, ok, error, paused or raise
  why,         \* why the wait was given up: none, deadline or death (history)
  row,         \* status of the worker's row; its task's row follows it
  paused,      \* engine.paused[run_id]
  registered,  \* engine.active_worker_rpcs[run_id]
  stopping,    \* the handler that is stopping processes: none, pause or stop
  targets,     \* those it has still to stop
  stops,       \* number of calls of pause and worker_stop so far
  injects,     \* number of calls of worker_inject so far
  killer       \* killer[k]: who ended process k (history)

handler_vars == <<stopping, targets, stops, injects>>
vars == <<proc, pc, depth, outcome, why, row, paused, registered, handler_vars, killer>>

Ended == {"done", "failed", "raised", "cancelled", "cut"}

Init ==
  /\ ProcInit
  /\ pc = "spawn" /\ depth = 0 /\ outcome = "none" /\ why = "none" /\ row = "running"
  /\ paused = FALSE /\ registered = {}
  /\ stopping = "none" /\ targets = {} /\ stops = 0 /\ injects = 0
  /\ killer = [k \in Procs |-> "none"]

-----------------------------------------------------------------------------
(* run_worker_rpc *)

\* A process is created, or cannot be; the coroutine awaits its pipes.
Spawn ==
  /\ pc = "spawn"
  /\ \/ /\ depth' = depth + 1 /\ Launch(depth')
        /\ pc' = "pipes"
     \/ /\ pc' = "raised"
        /\ UNCHANGED <<proc, depth>>
  /\ UNCHANGED <<outcome, why, row, paused, registered, handler_vars, killer>>

\* The process is registered and, without an await in between, sent the request, which
\* awaits stdin.drain() if the prompt is long.
Register ==
  /\ pc = "pipes"
  /\ registered' = registered \cup {depth}
  /\ \E request \in Runs :
       /\ SendTo(depth, request)
       /\ pc' = IF request = "long run" /\ Up(depth) THEN "send" ELSE "wait"
  /\ UNCHANGED <<depth, outcome, why, row, paused, handler_vars, killer>>

\* The process has read it.
Sent ==
  /\ pc = "send" /\ ~Clogged(depth) /\ Up(depth)
  /\ pc' = "wait"
  /\ UNCHANGED <<proc, depth, outcome, why, row, paused, registered, handler_vars, killer>>

\* The pipe is broken: request raises, outside of the try.
RequestRaises ==
  /\ pc \in {"pipes", "send"} /\ ~Up(depth)
  /\ pc' = "raised"
  /\ registered' = registered \cup {depth}
  /\ UNCHANGED <<proc, depth, outcome, why, row, paused, handler_vars, killer>>

\* wait_response finds an answer.
GotAnswer ==
  /\ pc \in {"wait", "gather"} /\ proc[depth].answer # "none"
  /\ pc = "gather" => Drained(depth)
  /\ outcome' = proc[depth].answer
  /\ pc' = "finally"
  /\ UNCHANGED <<proc, depth, why, row, paused, registered, handler_vars, killer>>

\* Mutant: the wait ends with the process, whatever is still in the pipe.
NoticeDeathAtOnce ==
  /\ pc = "wait" /\ ~Up(depth) /\ proc[depth].answer = "none"
  /\ outcome' = IF paused THEN "paused" ELSE "raise"
  /\ why' = "death"
  /\ pc' = "finally"
  /\ UNCHANGED <<proc, depth, row, paused, registered, handler_vars, killer>>

\* wait_response finds that the process has ended, and waits for the drains.
NoticeDeath ==
  /\ pc = "wait" /\ ~Up(depth) /\ proc[depth].answer = "none"
  /\ pc' = "gather"
  /\ UNCHANGED <<proc, depth, outcome, why, row, paused, registered, handler_vars, killer>>

\* No answer, then: TimeoutError, which a pause explains if it is still on.
GiveUpWait(reason) ==
  /\ outcome' = IF paused THEN "paused" ELSE "raise"
  /\ why' = reason
  /\ pc' = "finally"
  /\ UNCHANGED <<proc, depth, row, paused, registered, handler_vars, killer>>

DiedWithoutAnswer ==
  /\ pc = "gather" /\ Drained(depth) /\ proc[depth].answer = "none"
  /\ GiveUpWait("death")

\* Mutant: the wait has no deadline.
NoDeadline == FALSE

\* worker_task_timeout_s have passed.
Deadline == pc = "wait" /\ GiveUpWait("deadline")

\* The frames have been emitted; rpc.stop has written agent.cancel, and signals the
\* process group, once stdin.drain() has returned or raised.
StopProcess ==
  /\ pc = "finally" /\ ~Clogged(depth) /\ pc' = "stop"
  /\ Signal(depth)
  /\ killer' = [killer EXCEPT ![depth] = IF Up(depth) THEN "end" ELSE @]
  /\ UNCHANGED <<depth, outcome, why, row, paused, registered, handler_vars>>

\* Mutant: rpc.stop does not wait for the process.
LeaveFinallyEarly ==
  /\ pc = "stop"
  /\ registered' = registered \ {depth}
  /\ pc' = CASE outcome = "ok" -> "done" [] outcome = "error" -> "failed"
             [] outcome = "raise" -> "raised" [] outcome = "paused" -> "paused"
             [] outcome = "cancelled" -> "cancelled"
  /\ row' = CASE outcome = "error" -> "failed" [] outcome = "paused" -> "paused"
              [] OTHER -> row
  /\ UNCHANGED <<proc, depth, outcome, why, paused, handler_vars, killer>>

\* The process has ended, by SIGKILL if need be, and is drained.  An error fails the
\* task; a paused worker queues it, saves a checkpoint, and waits.
LeaveFinally ==
  /\ pc = "stop" /\ ~Up(depth) /\ Drained(depth)
  /\ registered' = registered \ {depth}
  /\ pc' = CASE outcome = "ok" -> "done" [] outcome = "error" -> "failed"
             [] outcome = "raise" -> "raised" [] outcome = "paused" -> "paused"
             [] outcome = "cancelled" -> "cancelled"
  /\ row' = CASE outcome = "error" -> "failed" [] outcome = "paused" -> "paused"
              [] OTHER -> row
  /\ UNCHANGED <<proc, depth, outcome, why, paused, handler_vars, killer>>

\* The pause is over: the task is run again, unless it has been MaxSpawns times.
Requeue ==
  /\ pc = "paused" /\ ~paused
  /\ row' = "running" /\ outcome' = "none" /\ why' = "none"
  /\ pc' = IF depth >= MaxSpawns THEN "raised" ELSE "spawn"
  /\ UNCHANGED <<proc, depth, paused, registered, handler_vars, killer>>

\* The task of the run is cancelled.  Where the coroutine waits for its process the
\* finally still runs; asyncio kills a process whose pipes are not connected
\* yet, and waits for it.
Cancel ==
  /\ pc \in {"pipes", "wait", "gather", "paused"}
  /\ pc' = IF pc \in {"wait", "gather"} THEN "finally" ELSE "cancelled"
  /\ outcome' = "cancelled"
  /\ IF pc = "pipes" /\ Up(depth) THEN Die(depth) ELSE UNCHANGED proc
  /\ UNCHANGED <<depth, why, row, paused, registered, handler_vars, killer>>

\* In the finally itself it cuts the rest off, as does an event that cannot be
\* written; and the try has not begun while the request is being sent.
CutOff ==
  /\ pc \in {"send", "finally", "stop"} /\ pc' = "cut"
  /\ UNCHANGED <<proc, depth, outcome, why, row, paused, registered, handler_vars, killer>>

-----------------------------------------------------------------------------
(* The handlers *)

\* A handler takes the processes that are registered, and stops them one by one.
BeginStop(op) ==
  /\ stopping = "none" /\ stops < MaxStops
  /\ stopping' = op /\ targets' = registered /\ stops' = stops + 1

\* control_pause, and _pause over MCP.
Pause ==
  /\ BeginStop("pause") /\ ~paused
  /\ paused' = TRUE
  /\ UNCHANGED <<proc, pc, depth, outcome, why, row, registered, injects, killer>>

\* worker_stop; the row of the worker is written at its end.
StopWorker ==
  /\ BeginStop("stop")
  /\ UNCHANGED <<proc, pc, depth, outcome, why, row, paused, registered, injects, killer>>

\* rpc.stop, as above.
SignalTarget ==
  /\ \E k \in targets : /\ proc[k].up = "yes" /\ ~Clogged(k) /\ Signal(k)
                        /\ killer' = [killer EXCEPT ![k] = stopping]
  /\ UNCHANGED <<pc, depth, outcome, why, row, paused, registered, handler_vars>>

TargetStopped ==
  /\ \E k \in targets : /\ ~Up(k) /\ Drained(k)
                        /\ targets' = targets \ {k}
  /\ UNCHANGED <<proc, pc, depth, outcome, why, row, paused, registered, stopping, stops,
                 injects, killer>>

EndStop ==
  /\ stopping # "none" /\ targets = {}
  /\ stopping' = "none"
  /\ row' = IF stopping = "stop" THEN "stopped" ELSE row
  /\ UNCHANGED <<proc, pc, depth, outcome, why, paused, registered, targets, stops, injects,
                 killer>>

Resume ==
  /\ paused /\ paused' = FALSE
  /\ UNCHANGED <<proc, pc, depth, outcome, why, row, registered, handler_vars, killer>>

\* worker_inject, and _steer with a worker as its target.
Inject ==
  /\ injects < MaxInjects /\ depth \in registered
  /\ injects' = injects + 1
  /\ \E message \in Injects : SendTo(depth, message)
  /\ UNCHANGED <<pc, depth, outcome, why, row, paused, registered, stopping, targets, stops,
                 killer>>

\* A process that was signalled ends: at last by SIGKILL.
SignalledEnds ==
  /\ \E k \in Procs : proc[k].up = "term" /\ Die(k)
  /\ UNCHANGED <<pc, depth, outcome, why, row, paused, registered, handler_vars, killer>>

\* A process ends by itself.
Crash ==
  /\ \E k \in Procs : proc[k].up = "yes" /\ Die(k)
  /\ UNCHANGED <<pc, depth, outcome, why, row, paused, registered, handler_vars, killer>>

Running ==
  \/ Spawn \/ Register \/ Sent \/ RequestRaises \/ GotAnswer \/ NoticeDeath \/ DiedWithoutAnswer
  \/ Deadline \/ StopProcess \/ LeaveFinally \/ Requeue

Handling == SignalTarget \/ TargetStopped \/ EndStop

ProcessStep ==
  /\ \E k \in Procs : ProcStep(k)
  /\ UNCHANGED <<pc, depth, outcome, why, row, paused, registered, handler_vars, killer>>

Draining ==
  /\ \E k \in Procs : DrainLine(k) \/ DrainEnd(k)
  /\ UNCHANGED <<pc, depth, outcome, why, row, paused, registered, handler_vars, killer>>

Next ==
  \/ Running \/ Handling \/ ProcessStep
  \/ SignalledEnds \/ Cancel \/ CutOff \/ Crash
  \/ Pause \/ StopWorker \/ Resume \/ Inject

\* The event loop runs the coroutine, the handlers and the drains, and a signal is
\* delivered.  Nothing else is assumed of the process, nor that anybody resumes the run.
Spec ==
  /\ Init /\ [][Next]_vars
  /\ WF_vars(Running) /\ WF_vars(Handling) /\ WF_vars(Draining) /\ WF_vars(SignalledEnds)

-----------------------------------------------------------------------------
(* Properties *)

TypeOK ==
  /\ proc \in [Procs -> Process]
  /\ pc \in {"spawn", "pipes", "send", "wait", "gather", "finally", "stop", "paused"} \cup Ended
  /\ depth \in 0..MaxSpawns
  /\ outcome \in {"none", "ok", "error", "paused", "raise", "cancelled"}
  /\ why \in {"none", "deadline", "death"}
  /\ row \in {"running", "paused", "failed", "stopped"}
  /\ paused \in BOOLEAN
  /\ registered \subseteq Procs /\ targets \subseteq Procs
  /\ stopping \in {"none", "pause", "stop"}
  /\ stops \in 0..MaxStops /\ injects \in 0..MaxInjects
  /\ killer \in [Procs -> {"none", "end", "pause", "stop"}]

\* A worker has one process at most: the one before it has ended, for they work in
\* the same worktree.
OneProcess == \A j, k \in Procs : Up(j) /\ Up(k) => j = k

\* When the coroutine is over, or waits for the end of a pause, no process of its
\* worker is left, unless it was cut off: in its finally, or as it sent the request.
NoneLeft == pc \in (Ended \ {"cut"}) \cup {"paused"} => \A k \in Procs : ~Up(k)

\* The wait is given up for the end of the process only when that has written no answer,
\* be it in the pipe still, read, or in the responses.  (But for one that is too long or
\* unreadable, and those behind one that is too long.)
AnswerCounts == why = "death" /\ proc[depth].drain # "broken" => proc[depth].said = "none"

\* A worker comes to an end, or waits in a pause that nobody ends, or a process never
\* reads the long message it was sent.
WorkerEnds ==
  <>(pc \in Ended \/ pc = "paused") \/ <>[](\E k \in Procs : Clogged(k))

\* SPEC.md 13.4: "Resume MUST reload checkpoint, restart required Pi subprocesses, and
\* requeue unfinished tasks."  When the flag is gone before the coroutine notices the
\* end of its process, the run fails instead.
PausedIsRequeued == pc = "raised" /\ why = "death" => killer[depth] # "pause"

\* SPEC.md 13.4: "Pause MUST stop assigning new tasks, send cancellation to running
\* workers".  A process that is not registered yet is not stopped.
PauseStopsAll == paused /\ stopping = "none" => \A k \in Procs : ~Up(k)

\* SPEC.md 14.3: stdout lines that are too long are truncated, and the run goes on.
LongLinesTruncated == \A k \in Procs : proc[k].drain # "broken"

\* SPEC.md 18.1: "`/inject` reaches running worker fixture".  The bundled worker reads
\* its input between two runs only, and is stopped after the first.
InjectedIsRead == \A k \in Procs : proc[k].answer = "ok" /\ injects > 0 => proc[k].prompt > 0

\* worker_task_timeout_s bounds the run of a worker.  It bounds neither the sending of the
\* request nor that of agent.cancel, which comes before the signal.
WorkerEndsInTime == <>(pc \in Ended \/ pc = "paused")

\* No process is left, wherever the coroutine was cut off.
NoneLeftEver == pc \in Ended => \A k \in Procs : ~Up(k)

\* A worker that is run again has its worktree for itself.
NoStrayCommand ==
  \A j, k \in Procs : Up(k) /\ j # k => ~proc[j].command
=============================================================================
