------------------------------ MODULE PiWorker ------------------------------
(***************************************************************************)
(* A worker process and its pipes: the bundled worker                      *)
(* (core/nexussy/swarm/local_pi_worker.py), which reads one message after  *)
(* the other and runs an agent for each agent.run, and the tasks of the    *)
(* engine that drain its output (core/nexussy/swarm/pi_rpc.py).  A worker  *)
(* that is run again after a pause gets a new process: proc[k] is the k-th.*)
(*                                                                         *)
(* A line of output is an event, the answer to the request, which is ok or *)
(* an error, one too long for the buffer of the reader, or an answer that  *)
(* the removal of secrets makes unreadable.  A message fits into the pipe  *)
(* and the buffer of the writer, or is long.  What an agent does is a      *)
(* number of turns; in each the model calls tools or ends.                 *)
(***************************************************************************)
EXTENDS Naturals, Sequences

CONSTANTS
  MaxSpawns,  \* processes one worker may get: run_worker_rpc gives up at depth 3
  MaxTurns    \* NEXUSSY_PI_MAX_TURNS

ASSUME SpawnsAssumption == MaxSpawns \in Nat \ {0} /\ MaxTurns \in Nat

VARIABLE
  proc        \* proc[k]: the k-th process of the worker

Procs == 1..MaxSpawns

Runs == {"run", "long run"}
Injects == {"inject", "long inject"}
Messages == Runs \cup Injects
Lines == {"event", "too long", "spoilt", "ok", "error"}

Process ==
  [up : {"no", "yes", "term", "dead"},      \* term: signalled; dead: has a return code
   stdin : Seq(Messages),
   agent : {"idle", "model", "tool"},       \* where _amain awaits
   turn : 0..MaxTurns,                      \* turns in which tools were called
   command : BOOLEAN,                       \* a command of the tool bash runs
   injected : Nat,                          \* length of _injected_messages
   prompt : Nat,                            \* how many of them the prompt had
   stdout : Seq(Lines),                     \* written, and not read yet
   drain : {"on", "broken", "eof"},         \* the task that drains stdout
   said : {"none", "ok", "error"},          \* the readable answer it has written (history)
   answer : {"none", "ok", "error"}]        \* rpc.responses[request id]

NoProcess == [up |-> "no", stdin |-> <<>>, agent |-> "idle", turn |-> 0, command |-> FALSE,
              injected |-> 0, prompt |-> 0, stdout |-> <<>>, drain |-> "on",
              said |-> "none", answer |-> "none"]

ProcInit == proc = [k \in Procs |-> NoProcess]

Up(k) == proc[k].up \in {"yes", "term"}

\* A command of the tool bash has inherited the input of its worker, and keeps it open.
Dead(p) == [p EXCEPT !.up = "dead", !.stdin = IF p.command THEN p.stdin ELSE <<>>]
Write(p, line) == [p EXCEPT !.stdout = Append(@, line)]

\* stdin.drain() suspends, with no deadline, until a long message has been read, or the
\* pipe is gone.
Clogged(k) == \E i \in DOMAIN proc[k].stdin : proc[k].stdin[i] \in {"long run", "long inject"}

\* spawn_pi_worker; request and inject; stop: SIGTERM to the process group, which a
\* command of the tool bash is not in (start_new_session).  The agent.cancel that is
\* written before it ends an idle worker just the same, and a busy one never reads it.
Launch(k) == proc' = [proc EXCEPT ![k].up = "yes"]
SendTo(k, message) ==
  proc' = [proc EXCEPT ![k].stdin = IF Up(k) THEN Append(@, message) ELSE @]
Signal(k) == proc' = [proc EXCEPT ![k].up = IF @ = "yes" THEN "term" ELSE @]
Die(k) == Up(k) /\ proc' = [proc EXCEPT ![k] = Dead(@)]

\* Both drains have come to an end.
Drained(k) == proc[k].drain # "on"

-----------------------------------------------------------------------------
(* The worker *)

\* _messages: the prompt of a run has the messages that have been injected by then.
Prompt(p) == p.injected

\* _amain: the next message, once the last one has been dealt with.
ReadMessage(k) ==
  /\ Up(k) /\ proc[k].agent = "idle" /\ proc[k].stdin # <<>>
  /\ LET p == [proc[k] EXCEPT !.stdin = Tail(@)] IN
       proc' = [proc EXCEPT ![k] =
         CASE Head(proc[k].stdin) \in Runs ->
                [p EXCEPT !.agent = "model", !.turn = 0, !.prompt = Prompt(p)]
           [] Head(proc[k].stdin) \in Injects -> [p EXCEPT !.injected = p.injected + 1]]

\* What a turn of _run_agent may come to: the stream of the completion has calls of
\* tools, or only text, or raises (no key, a status of 400 or more); or no turn is left.
Outcomes(k) ==
  IF proc[k].turn < MaxTurns THEN {"tools", "text", "raises"} ELSE {"no turn left"}

\* Mutant: the loop makes one turn more.
CallToolsOnceMore(k) ==
  /\ Up(k) /\ proc[k].agent = "model" /\ proc[k].turn <= MaxTurns
  /\ \E runs \in BOOLEAN :
       proc' = [proc EXCEPT ![k] =
                  [@ EXCEPT !.agent = "tool", !.turn = proc[k].turn + 1, !.command = runs]]

\* The model calls tools.
CallTools(k) ==
  /\ Up(k) /\ proc[k].agent = "model" /\ "tools" \in Outcomes(k)
  /\ \E runs \in BOOLEAN :
       proc' = [proc EXCEPT ![k] =
                  [@ EXCEPT !.agent = "tool", !.turn = proc[k].turn + 1, !.command = runs]]

\* run_tool is done, or was refused, or raised: the result is written as an event.
ToolDone(k) ==
  /\ Up(k) /\ proc[k].agent = "tool"
  /\ \E line \in {"event", "too long"} :
       proc' = [proc EXCEPT ![k] =
                  Write([@ EXCEPT !.agent = "model", !.command = FALSE], line)]

\* _handle_run answers when the agent has come to an end.  The answer has its text in
\* it, which may be too long for the reader, or look like a secret.
Answer(k) ==
  /\ Up(k) /\ proc[k].agent = "model"
  /\ \E outcome \in Outcomes(k) \ {"tools"} :
       LET answer == IF outcome = "text" THEN "ok" ELSE "error"
           p == [proc[k] EXCEPT !.agent = "idle"]
       IN  proc' \in {[proc EXCEPT ![k] = Write([p EXCEPT !.said = answer], answer)],
                      [proc EXCEPT ![k] = Write(p, "too long")],
                      [proc EXCEPT ![k] = Write(p, "spoilt")]}

\* The command of a worker that was killed comes to its end.
CommandEnds(k) ==
  /\ proc[k].up = "dead" /\ proc[k].command
  /\ proc' = [proc EXCEPT ![k] = [@ EXCEPT !.command = FALSE, !.stdin = <<>>]]

-----------------------------------------------------------------------------
(* Draining *)

\* _drain reads a line.  readline raises on one that exceeds the buffer of the
\* stream (64 KiB), and nothing is read any more.  scrub_log works on the text of the
\* line: it may take its quotes and braces away with a secret, and what is no JSON any
\* more is not taken for an answer.
DrainLine(k) ==
  /\ proc[k].drain = "on" /\ proc[k].stdout # <<>>
  /\ LET line == Head(proc[k].stdout)
         p == [proc[k] EXCEPT !.stdout = Tail(@)]
     IN  proc' = [proc EXCEPT ![k] =
           CASE line \in {"event", "spoilt"} -> p
             [] line = "too long" -> [p EXCEPT !.drain = "broken"]
             [] line \in {"ok", "error"} -> [p EXCEPT !.answer = line]]

\* It reads the end of the output.
DrainEnd(k) ==
  /\ proc[k].drain = "on" /\ proc[k].stdout = <<>> /\ proc[k].up = "dead"
  /\ proc' = [proc EXCEPT ![k].drain = "eof"]

ProcStep(k) ==
  \/ ReadMessage(k) \/ CallTools(k) \/ ToolDone(k) \/ Answer(k) \/ CommandEnds(k)
  \/ DrainLine(k) \/ DrainEnd(k)
=============================================================================
