----------------------------- MODULE Steering ------------------------------
(***************************************************************************)
(* Steering of one run: messages to its orchestrator, which come in by the *)
(* tool nexussy_steer (core/nexussy/mcp.py), are kept in a table and a     *)
(* queue, and are taken from the queue into a context by the pipeline (core*)
(* /nexussy/pipeline/engine.py), at the end of a stage, in a pause, and by *)
(* the stages plan and develop, which show them to a model.                *)
(*                                                                         *)
(* Messages are numbered as their rows are.  A write that finds the lane of*)
(* the database free does not yield, so a row and its place in the queue   *)
(* are one step; where one may have to wait, the step ends before it.      *)
(***************************************************************************)
EXTENDS Naturals, Sequences, SequencesExt

CONSTANTS
  Stages,      \* the stages of the run, in order
  ContextMax,  \* _STEER_CONTEXT_MAX
  MaxSent,     \* bound: calls of nexussy_steer
  MaxReviews,  \* bound: plans that the review sends back
  MaxPauses    \* bound: pauses

ASSUME SteeringAssumption ==
  /\ Stages \in Seq({"design", "plan", "review", "develop"}) /\ Stages # <<>>
  /\ ContextMax \in Nat \ {0} /\ MaxSent \in Nat /\ MaxReviews \in Nat /\ MaxPauses \in Nat

VARIABLES
  urgent,    \* urgent[m]: the priority of message m, for all that were sent
  consumed,  \* steer_events with a consumed_at
  queue,     \* engine.steer_queue[run_id]
  context,   \* engine.steer_context[run_id]
  clearing,  \* a CLEAR_CONTEXT has still to mark the rows
  cleared,   \* messages sent before a CLEAR_CONTEXT (history)
  pc,        \* top, asking (in a stage), end (of a stage), done; or take, in consume_steer
  stage,     \* index of the stage
  then,      \* where consume_steer was called
  hand,      \* what it has taken
  paused,    \* engine.paused[run_id]
  pauses, reviews,
  due,       \* when develop last took: messages that were not cleared (history)
  plan,      \* the messages in the prompt of plan
  specs      \* the messages in the specs of develop

messages == <<urgent, consumed, queue, context, clearing, cleared>>
pipeline == <<pc, stage, then, hand, reviews, due, plan, specs>>
vars == <<messages, pipeline, paused, pauses>>

Sent == 1..Len(urgent)
Places == {"none", "top", "plan", "develop", "end"}

Init ==
  /\ urgent = <<>> /\ consumed = {} /\ queue = <<>> /\ context = <<>>
  /\ clearing = FALSE /\ cleared = {}
  /\ pc = "top" /\ stage = 1 /\ then = "none" /\ hand = <<>>
  /\ paused = FALSE /\ pauses = 0 /\ reviews = 0
  /\ due = {} /\ plan = <<>> /\ specs = <<>>

-----------------------------------------------------------------------------
(* nexussy_steer *)

\* A message to the orchestrator.
Steer ==
  /\ Len(urgent) < MaxSent
  /\ \E u \in BOOLEAN : urgent' = Append(urgent, u)
  /\ queue' = Append(queue, Len(urgent'))
  /\ UNCHANGED <<consumed, context, clearing, cleared, pipeline, paused, pauses>>

\* CLEAR_CONTEXT empties the queue and the context, and then marks the rows.  Its own
\* row is one more.
Clear ==
  /\ Len(urgent) < MaxSent /\ ~clearing
  /\ urgent' = Append(urgent, FALSE)
  /\ queue' = <<>> /\ context' = <<>> /\ clearing' = TRUE
  /\ cleared' = Sent \cup {Len(urgent')}
  /\ UNCHANGED <<consumed, pipeline, paused, pauses>>

MarkRows ==
  /\ clearing /\ clearing' = FALSE
  /\ consumed' = Sent
  /\ UNCHANGED <<urgent, queue, context, cleared, pipeline, paused, pauses>>

Pause ==
  /\ ~paused /\ pauses < MaxPauses /\ pc # "done"
  /\ paused' = TRUE /\ pauses' = pauses + 1
  /\ UNCHANGED <<messages, pipeline>>

Resume == paused /\ paused' = FALSE /\ UNCHANGED <<messages, pipeline, pauses>>

-----------------------------------------------------------------------------
(* consume_steer *)

\* Mutant: the context is what was taken last.
NewContextLast(taken) == taken

\* Mutant: a context that is too long loses its end.
NewContextFirst(taken) ==
  LET all == context \o taken
  IN  IF Len(all) > ContextMax THEN SubSeq(all, 1, ContextMax) ELSE all

NewContext(taken) ==
  LET all == context \o taken
  IN  IF Len(all) > ContextMax THEN SubSeq(all, Len(all) - ContextMax + 1, Len(all)) ELSE all

\* The queue is taken; if there was anything, the rows have to be marked.
Take(place) ==
  /\ queue' = <<>> /\ context' = NewContext(queue)
  /\ hand' = queue /\ then' = place /\ pc' = "take"
  /\ due' = IF place = "develop" THEN Sent \ cleared ELSE due
  /\ UNCHANGED <<urgent, consumed, clearing, cleared, stage, reviews, plan, specs>>

\* The rows are marked, and the caller goes on with what was taken.
Taken(place) ==
  /\ pc = "take" /\ then = place /\ then' = "none" /\ hand' = <<>>
  /\ consumed' = consumed \cup ToSet(hand)
  /\ UNCHANGED <<urgent, queue, context, clearing, cleared, reviews, due, pauses>>

-----------------------------------------------------------------------------
(* The pipeline *)

\* Mutant: only the first message of the queue is looked at.
UrgentFirst == queue # <<>> /\ urgent[Head(queue)]

\* _preempt_urgent_steer looks for an urgent message.
Urgent == \E m \in ToSet(queue) : urgent[m]

\* In a pause the queue is looked at again and again; an urgent message has it taken,
\* and ends the pause.
Preempt == pc = "top" /\ paused /\ Urgent /\ Take("top") /\ UNCHANGED <<paused, pauses>>

EndPause ==
  /\ Taken("top") /\ pc' = "top" /\ paused' = FALSE
  /\ UNCHANGED <<stage, plan, specs>>

\* A stage begins: plan and develop take the queue first.
BeginStage ==
  /\ pc = "top" /\ ~paused
  /\ \/ /\ Stages[stage] \in {"plan", "develop"} /\ Take(Stages[stage])
     \/ /\ Stages[stage] \notin {"plan", "develop"} /\ pc' = "asking"
        /\ UNCHANGED <<messages, stage, then, hand, reviews, due, plan, specs>>
  /\ UNCHANGED <<paused, pauses>>

\* The prompt of plan has what was taken just now.
AskPlan ==
  /\ Taken("plan") /\ pc' = "asking" /\ plan' = hand
  /\ UNCHANGED <<stage, specs, paused>>

\* The specs of develop have the context, and once more what was taken just now.
BuildSpecs ==
  /\ Taken("develop") /\ pc' = "asking" /\ specs' = context \o hand
  /\ UNCHANGED <<stage, plan, paused>>

\* The stage is over, and the queue is taken if there is anything in it.
EndStage ==
  /\ pc = "asking"
  /\ \/ queue # <<>> /\ Take("end")
     \/ /\ queue = <<>> /\ pc' = "end"
        /\ UNCHANGED <<messages, stage, then, hand, reviews, due, plan, specs>>
  /\ UNCHANGED <<paused, pauses>>

EndTaken == Taken("end") /\ pc' = "end" /\ UNCHANGED <<stage, plan, specs, paused>>

NextStage ==
  /\ pc = "end"
  /\ \/ stage < Len(Stages) /\ stage' = stage + 1 /\ pc' = "top"
     \/ stage = Len(Stages) /\ pc' = "done" /\ UNCHANGED stage
  /\ UNCHANGED <<messages, then, hand, reviews, due, plan, specs, paused, pauses>>

\* The review sends the plan back.  The queue is not taken.
ReviewFails ==
  /\ pc = "asking" /\ Stages[stage] = "review" /\ reviews < MaxReviews
  /\ \E i \in DOMAIN Stages : Stages[i] = "plan" /\ stage' = i
  /\ pc' = "top" /\ reviews' = reviews + 1
  /\ UNCHANGED <<messages, then, hand, due, plan, specs, paused, pauses>>

Pipeline ==
  \/ Preempt \/ EndPause \/ BeginStage \/ AskPlan \/ BuildSpecs \/ EndStage \/ EndTaken
  \/ NextStage \/ ReviewFails

Next == Pipeline \/ Steer \/ Clear \/ MarkRows \/ Pause \/ Resume

\* The pipeline runs.  Nobody has to resume a paused run.
Spec == Init /\ [][Next]_vars /\ WF_vars(Pipeline)

-----------------------------------------------------------------------------
(* Properties *)

TypeOK ==
  /\ urgent \in Seq(BOOLEAN) /\ Len(urgent) <= MaxSent
  /\ consumed \subseteq Sent /\ cleared \subseteq Sent /\ due \subseteq Sent
  /\ \A s \in {queue, context, hand, plan, specs} : s \in Seq(Sent)
  /\ Len(context) <= ContextMax
  /\ pc \in {"top", "asking", "end", "done", "take"} /\ stage \in DOMAIN Stages
  /\ then \in Places /\ clearing \in BOOLEAN /\ paused \in BOOLEAN
  /\ pauses \in 0..MaxPauses /\ reviews \in 0..MaxReviews

\* The latest of a set of messages, as many as a context may have.
Latest(S) == {m \in S : Cardinality({n \in S : n > m}) < ContextMax}

\* However a message came to be taken, at the end of a stage, in a pause or by plan,
\* the specs of develop have it, unless it was cleared, or more came after it than a
\* context may have.
DevelopSees ==
  Stages[stage] = "develop" /\ pc = "asking" => Latest(due) \ cleared \subseteq ToSet(specs)

\* An urgent message ends a pause between two stages, unless it is cleared before.
UrgentResumes ==
  LET waits == \E m \in ToSet(queue) : urgent[m]
  IN  (pc = "top" /\ paused /\ waits) ~> (~paused \/ ~waits)

\* CHANGELOG.md: "plan prompts and develop task specs now prepend consumed orchestrator
\* steering instructions".  A message that was taken at the end of a stage or in a pause
\* is not in the prompt of the plan that follows.
PlanSees ==
  Stages[stage] = "plan" /\ pc = "asking" => ToSet(context) \subseteq ToSet(plan)

\* A message that was cleared before the specs are built is not in them.  It may be in
\* the hand of consume_steer.
ClearSticks ==
  [][specs' # specs => ToSet(specs') \cap cleared = {}]_vars

\* A row is marked when its message has been taken, or was cleared.
MarkedIsTaken == \A m \in consumed : m \notin ToSet(queue)

\* A message that is marked was shown to a model, or cleared: not so the ones that
\* come after develop has taken the queue.
MarkedIsShown ==
  pc = "done" => consumed \subseteq cleared \cup ToSet(specs) \cup ToSet(plan)
=============================================================================
