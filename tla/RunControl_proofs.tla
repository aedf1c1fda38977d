------------------------- MODULE RunControl_proofs --------------------------
(***************************************************************************)
(* Proofs about RunControl, for any starts, calls, stages and questions.   *)
(***************************************************************************)
EXTENDS RunControl, TLAPS, FiniteSetTheorems

-----------------------------------------------------------------------------
(* Types *)

CallType == [op : Ops \cup {None}, arg : Starts \cup Calls \cup {None},
             seen : RunStatus \cup {None, "clear"}]

\* What a handler is about to write, or has read, is the status of a run.
HandlerInv ==
  \A h \in Calls :
    /\ pc[h] # "unused" => status # "absent"
    /\ pc[h] = "insert" => Op(h) \in {"blocker", "warning"}
    /\ pc[h] = "stop" => Op(h) \in Pauses
    /\ pc[h] = "session" => Op(h) = "answer"
    /\ pc[h] = "steer" => Op(h) = "steer"
    /\ pc[h] = "row" => Outcome(h) \in RunStatus
    /\ pc[h] = "judge" /\ Op(h) # "resolve" => Seen(h) \in RunStatus

\* A task that may begin a stage has one left.
Beginning == {"unused", "create session", "start row", "create task", "created", "paused", "preempt"}
StagesLeft == \A s \in Starts : pc[s] \in Beginning => ran[s] < MaxStages

\* A task that is cancelled is alive.
CancelInv == \A s \in Starts : cancelling[s] => pc[s] \in Live

Types == TypeOK /\ call \in [Calls -> CallType] /\ HandlerInv /\ StagesLeft /\ CancelInv

\* Initially the types hold.
LEMMA InitTypes == Init => Types
<1> SUFFICES ASSUME Init PROVE Types
  OBVIOUS
<1>1. call \in [Calls -> CallType]
  BY DEF Init, CallType
<1>2. \A h \in Calls : Op(h) = None /\ Arg(h) = None /\ Seen(h) = None
  BY DEF Init, Op, Arg, Seen
<1>3. ran \in [Starts -> 0 .. MaxStages] /\ turns \in [Starts -> 0 .. MaxTurns]
  BY StagesAssumption DEF Init
<1>4. pc \in [Starts \cup Calls -> Places]
  BY DEF Init, Places
<1>5. TypeOK
  BY <1>2, <1>3, <1>4 DEF Init, TypeOK
<1>6. HandlerInv /\ StagesLeft /\ CancelInv
  BY StagesAssumption DEF Init, HandlerInv, StagesLeft, Beginning, CancelInv
<1> QED
  BY <1>1, <1>5, <1>6 DEF Types

\* The steps of a start or task leave the handlers as they are.
LEMMA HandlersRest ==
  ASSUME Types, call' = call, \A h \in Calls : pc'[h] = pc[h],
         status' = status \/ status' \in RunStatus
  PROVE  HandlerInv'
  BY DEF Types, HandlerInv, Outcome, Op, Seen, RunStatus, Final

\* Nor do the steps of a handler change what has the tasks' stages.
LEMMA TasksRest ==
  ASSUME Types, ran' = ran, \A s \in Starts : pc'[s] = pc[s]
  PROVE  StagesLeft'
  BY DEF Types, StagesLeft

\* The steps of Engine.start.
LEMMA StartTypes ==
  ASSUME Types, NEW s \in Starts, Start(s)
  PROVE  Types'
<1> USE DEF Types, TypeOK, At, Goto, WriteRow, task_vars, Op, Arg, Seen
<1>1. call' = call /\ \A h \in Calls : pc'[h] = pc[h]
  BY ActorsAssumption DEF Start, StartRequest, StartCheck, StartRow, CreateTask, StartRaises
<1>2. status' = status \/ status' \in RunStatus
  BY DEF Start, StartRequest, StartCheck, StartRow, CreateTask, StartRaises, RunStatus
<1>3. HandlerInv'
  BY <1>1, <1>2, HandlersRest
<1>4. StagesLeft'
  BY DEF Start, StartRequest, StartCheck, StartRow, CreateTask, StartRaises, StagesLeft, Beginning
<1>6. CancelInv'
  <2>1. cancelling' = cancelling /\ pc[s] \notin Live
    BY DEF Start, StartRequest, StartCheck, StartRow, CreateTask, StartRaises, Live, Trying,
       Handling
  <2>2. \A r \in Starts \ {s} : pc'[r] = pc[r]
    BY DEF Start, StartRequest, StartCheck, StartRow, CreateTask, StartRaises
  <2> QED
    BY <2>1, <2>2 DEF CancelInv
<1>5. TypeOK'
  <2> USE DEF Places, LanePlaces, Live
  <2>1. CASE StartRequest(s)
    BY <2>1 DEF StartRequest
  <2>2. CASE StartCheck(s)
    BY <2>2 DEF StartCheck
  <2>3. CASE StartRow(s)
    BY <2>3 DEF StartRow, RunStatus
  <2>4. CASE CreateTask(s)
    BY <2>4 DEF CreateTask
  <2>5. CASE StartRaises(s)
    BY <2>5 DEF StartRaises
  <2> QED
    BY <2>1, <2>2, <2>3, <2>4, <2>5 DEF Start
<1> QED
  BY <1>1, <1>3, <1>4, <1>5, <1>6

\* Where the steps of Engine._run lead, by where the task stands.
LEMMA RunPlaces ==
  ASSUME Types, NEW s \in Starts, Run(s)
  PROVE  /\ pc[s] \in Live
         /\ \E place \in (Live \cup {"ended"}) \ {"created"} : pc' = [pc EXCEPT ![s] = place]
<1> USE DEF At, Goto, Runs, Loop, WriteRow, WriteSession, Live, Trying, Handling
<1>1. CASE FirstStep(s) \/ Wake(s) \/ Preempted(s) \/ StagePassed(s) \/ BrowserPassed(s)
           \/ StageFailed(s)
  BY <1>1 DEF FirstStep, Wake, Preempted, StagePassed, BrowserPassed, StageFailed
<1>6. CASE NoticeSent(s) \/ TaskRaises(s)
  BY <1>6 DEF NoticeSent, TaskRaises
<1>2. CASE EmitDone(s) \/ Ask(s) \/ Answered(s) \/ TimedOut(s) \/ Complete(s)
  BY <1>2 DEF EmitDone, NoticeSent, TaskRaises, Ask, Answered, TimedOut, Complete
<1>3. CASE WriteTaskRow(s)
  BY <1>3 DEF WriteTaskRow
<1>4. CASE WriteTaskSession(s)
  BY <1>4 DEF WriteTaskSession
<1>5. CASE Cancelled(s)
  <2>1. pc[s] \in Live
    BY <1>5 DEF Cancelled, Types, CancelInv
  <2> QED
    BY <1>5, <2>1 DEF Cancelled
<1> QED
  BY <1>1, <1>2, <1>3, <1>4, <1>5, <1>6 DEF Run

\* What they leave alone.
LEMMA RunFrame ==
  ASSUME NEW s \in Starts, Run(s)
  PROVE  /\ UNCHANGED <<task, mode, previous, blockers, call>>
         /\ status' = status \/ status' \in RunStatus
         /\ session' = session
            \/ \E v \in {"running", "paused"} \cup Final : session' = [session EXCEPT ![s] = v]
         /\ (~cancelling[s] /\ cancelling' = cancelling)
            \/ /\ cancelling' = [cancelling EXCEPT ![s] = FALSE]
               /\ pc' = [pc EXCEPT ![s] = "cancel row"] \/ pc' = [pc EXCEPT ![s] = "ended"]
         /\ cut' = cut \/ cut' = [cut EXCEPT ![s] = TRUE]
         /\ doneOf' = doneOf
            \/ \E v \in {"passed", "failed"} : doneOf' = [doneOf EXCEPT ![s] = v]
         /\ waiter' = waiter
            \/ \E v \in {None, "waiting", "closed"} : waiter' = [waiter EXCEPT ![s] = v]
         /\ paused' \in {paused, TRUE, FALSE} /\ urgent' \in {urgent, FALSE}
<1> USE DEF At, Goto, Runs, Loop, WriteRow, WriteSession, RunStatus, Final, task_vars
<1>1. CASE FirstStep(s) \/ Wake(s) \/ Preempted(s)
  BY <1>1 DEF FirstStep, Wake, Preempted
<1>2. CASE StagePassed(s) \/ BrowserPassed(s) \/ StageFailed(s)
  BY <1>2 DEF StagePassed, BrowserPassed, StageFailed
<1>8. CASE NoticeSent(s) \/ TaskRaises(s)
  BY <1>8 DEF NoticeSent, TaskRaises
<1>3. CASE WriteTaskRow(s)
  BY <1>3 DEF WriteTaskRow
<1>4. CASE WriteTaskSession(s)
  BY <1>4 DEF WriteTaskSession
<1>5. CASE EmitDone(s) \/ Ask(s) \/ Answered(s)
  BY <1>5 DEF EmitDone, NoticeSent, TaskRaises, Ask, Answered
<1>6. CASE TimedOut(s) \/ Complete(s)
  BY <1>6 DEF TimedOut, Complete
<1>7. CASE Cancelled(s)
  BY <1>7 DEF Cancelled
<1> QED
  BY <1>1, <1>2, <1>3, <1>4, <1>5, <1>6, <1>7, <1>8 DEF Run

\* The steps of Engine._run preserve the types.
LEMMA RunTypes ==
  ASSUME Types, NEW s \in Starts, Run(s)
  PROVE  Types'
<1>1. call' = call /\ \A h \in Calls : pc'[h] = pc[h]
  <2>1. call' = call /\ pc \in [Starts \cup Calls -> Places]
    BY RunFrame DEF Types, TypeOK
  <2>2. PICK place : pc' = [pc EXCEPT ![s] = place]
    BY RunPlaces
  <2> QED
    BY <2>1, <2>2, ActorsAssumption
<1>2. HandlerInv'
  BY <1>1, RunFrame, HandlersRest
<1>3. PICK place \in (Live \cup {"ended"}) \ {"created"} : pc' = [pc EXCEPT ![s] = place]
  BY RunPlaces
<1>4. pc' \in [Starts \cup Calls -> Places]
  BY <1>3 DEF Types, TypeOK, Places, LanePlaces, Live, Trying, Handling
<1>5. CancelInv'
  <2>1. CASE ~cancelling[s] /\ cancelling' = cancelling
    BY <1>3, <2>1 DEF Types, TypeOK, CancelInv
  <2>2. CASE cancelling' = [cancelling EXCEPT ![s] = FALSE]
    BY <1>3, <2>2 DEF Types, TypeOK, CancelInv
  <2> QED
    BY <2>1, <2>2, RunFrame
<1>6. StagesLeft' /\ ran' \in [Starts -> 0 .. MaxStages]
  <2>1. ran \in [Starts -> Nat] /\ MaxStages \in Nat
        /\ pc \in [Starts \cup Calls -> Places]
    BY StagesAssumption DEF Types, TypeOK
  <2>2. \/ ran' = ran /\ (pc'[s] = "paused" => ran[s] < MaxStages)
        \/ /\ ran' = [ran EXCEPT ![s] = @ + 1] /\ ran[s] < MaxStages
           /\ pc'[s] = "stage"
    <3>1. pc[s] \in {"created", "paused", "preempt"} => ran[s] < MaxStages
      BY DEF Types, StagesLeft, Beginning
    <3>2. pc \in [Starts \cup Calls -> Places]
      BY <2>1
    <3> USE DEF At, Goto, Runs, Loop
    <3>3. CASE FirstStep(s)
      BY <3>1, <3>2, <3>3 DEF FirstStep
    <3>4. CASE Wake(s)
      BY <3>1, <3>2, <3>4 DEF Wake
    <3>5. CASE Preempted(s) \/ StagePassed(s)
      BY <3>1, <3>2, <3>5 DEF Preempted, StagePassed
    <3>6. CASE StageFailed(s) \/ EmitDone(s)
      BY <3>2, <3>6 DEF StageFailed, EmitDone, task_vars
    <3>10. CASE BrowserPassed(s) \/ NoticeSent(s) \/ TaskRaises(s)
      BY <3>2, <3>10 DEF BrowserPassed, NoticeSent, TaskRaises, task_vars
    <3>9. CASE WriteTaskRow(s) \/ WriteTaskSession(s)
      BY <3>2, <3>9 DEF WriteTaskRow, WriteTaskSession, WriteRow, WriteSession, task_vars
    <3>7. CASE Cancelled(s)
      BY <3>2, <3>7 DEF Cancelled
    <3>8. CASE Ask(s) \/ Answered(s) \/ TimedOut(s) \/ Complete(s)
      BY <3>2, <3>8 DEF Ask, Answered, TimedOut, Complete
    <3> QED
      BY <3>3, <3>4, <3>5, <3>6, <3>7, <3>8, <3>9, <3>10 DEF Run
  <2>3. ran' \in [Starts -> 0 .. MaxStages]
    BY <2>1, <2>2, StagesAssumption DEF Types, TypeOK
  <2>4. pc'[s] \in Beginning => ran'[s] < MaxStages
    <3>1. pc'[s] \in Live \cup {"ended"} /\ pc'[s] # "created"
      BY <1>3, <2>1
    <3>2. pc'[s] = "preempt" => pc[s] = "paused" /\ ran' = ran
      BY <2>1 DEF Run, FirstStep, Wake, Preempted, StagePassed, BrowserPassed, StageFailed,
         WriteTaskRow,
                  WriteTaskSession, EmitDone, NoticeSent, TaskRaises, Cancelled, Ask, Answered,
                  TimedOut, Complete,
                  At, Runs, Goto, Loop, WriteRow, WriteSession
    <3> QED
      BY <2>1, <2>2, <3>1, <3>2 DEF Types, StagesLeft, Beginning, Live, Trying, Handling
  <2>5. \A r \in Starts \ {s} : pc'[r] = pc[r] /\ ran'[r] = ran[r]
    BY <1>3, <2>1, <2>2
  <2> QED
    BY <2>3, <2>4, <2>5 DEF Types, StagesLeft
<1>7. turns' \in [Starts -> 0 .. MaxTurns]
  <2>1. turns' = turns \/ (turns[s] < MaxTurns /\ turns' = [turns EXCEPT ![s] = turns[s] + 1])
    <3>1. CASE Ask(s)
      <4>1. turns[s] < (IF mode[s] = "fresh" THEN MaxTurns ELSE 1)
            /\ turns' = [turns EXCEPT ![s] = turns[s] + 1]
        BY <3>1 DEF Ask
      <4>2. turns[s] \in Nat
        BY DEF Types, TypeOK
      <4>3. MaxTurns \in Nat /\ 1 <= MaxTurns
        BY StagesAssumption
      <4> QED
        BY <4>1, <4>2, <4>3
    <3>2. CASE FirstStep(s) \/ Wake(s) \/ Preempted(s) \/ StagePassed(s) \/ BrowserPassed(s)
               \/ StageFailed(s)
      BY <3>2 DEF FirstStep, Wake, Preempted, StagePassed, BrowserPassed, StageFailed, task_vars
    <3>3. CASE WriteTaskRow(s) \/ WriteTaskSession(s) \/ EmitDone(s) \/ NoticeSent(s)
               \/ TaskRaises(s) \/ Cancelled(s)
      BY <3>3 DEF WriteTaskRow, WriteTaskSession, EmitDone, NoticeSent, TaskRaises, Cancelled,
         task_vars
    <3>4. CASE Answered(s) \/ TimedOut(s) \/ Complete(s)
      BY <3>4 DEF Answered, TimedOut, Complete
    <3> QED
      BY <3>1, <3>2, <3>3, <3>4 DEF Run
  <2> QED
    BY <2>1, StagesAssumption DEF Types, TypeOK
<1>8. TypeOK'
  <2>1. \A h \in Calls : Op(h)' = Op(h) /\ Arg(h)' = Arg(h) /\ Seen(h)' = Seen(h)
    BY <1>1 DEF Op, Arg, Seen
  <2>2. session' \in [Starts -> {"absent", "running", "paused"} \cup Final]
    <3>1. session' = session
          \/ \E v \in {"running", "paused"} \cup Final : session' = [session EXCEPT ![s] = v]
      BY RunFrame
    <3> QED
      BY <3>1 DEF Types, TypeOK
  <2>6. doneOf' \in [Starts -> {None, "passed", "failed"}]
    <3>1. doneOf' = doneOf \/ \E v \in {"passed", "failed"} : doneOf' = [doneOf EXCEPT ![s] = v]
      BY RunFrame
    <3> QED
      BY <3>1 DEF Types, TypeOK
  <2>3. cancelling' \in [Starts -> BOOLEAN] /\ cut' \in [Starts -> BOOLEAN]
    BY RunFrame DEF Types, TypeOK
  <2>4. waiter' \in [Starts -> {None, "waiting", "answered", "closed"}]
    BY RunFrame DEF Types, TypeOK
  <2>5. paused' \in BOOLEAN /\ urgent' \in BOOLEAN /\ status' \in {"absent"} \cup RunStatus
    BY RunFrame DEF Types, TypeOK
  <2>7. UNCHANGED <<task, mode, previous, blockers>>
    BY RunFrame
  <2> QED
    BY <1>4, <1>6, <1>7, <2>1, <2>2, <2>3, <2>4, <2>5, <2>6, <2>7 DEF Types, TypeOK
<1> QED
  BY <1>1, <1>2, <1>5, <1>6, <1>8 DEF Types

\* A request arrives.
LEMMA RequestTypes ==
  ASSUME Types, NEW h \in Calls, Request(h)
  PROVE  Types'
<1>1. PICK o \in Ops, a \in {None} \cup Starts \cup Calls :
        /\ call' = [call EXCEPT ![h] = [op |-> o, arg |-> a, seen |-> None]]
        /\ pc' = [pc EXCEPT ![h] = IF o \in {"blocker", "warning"} THEN "insert" ELSE "read"]
        /\ paused' = (paused /\ o # "resume")
  BY DEF Request, Goto
<1>2. UNCHANGED <<status, task, task_vars, urgent, previous, blockers>> /\ status # "absent"
  BY DEF Request
<1>3. [op |-> o, arg |-> a, seen |-> None] \in CallType
  BY DEF CallType
<1>4. call' \in [Calls -> CallType]
  BY <1>1, <1>3 DEF Types
<1>5. \A g \in Calls : Op(g)' \in Ops \cup {None} /\ Arg(g)' \in Starts \cup Calls \cup {None}
                       /\ Seen(g)' \in RunStatus \cup {None, "clear"}
  BY <1>4 DEF CallType, Op, Arg, Seen
<1>6. pc' \in [Starts \cup Calls -> Places] /\ pc'[h] \in {"insert", "read"}
      /\ \A b \in (Starts \cup Calls) \ {h} : pc'[b] = pc[b]
  BY <1>1 DEF Types, TypeOK, Places, LanePlaces
<1>7. paused' \in BOOLEAN
  BY <1>1
<1>8. TypeOK'
  BY <1>2, <1>5, <1>6, <1>7 DEF Types, TypeOK, task_vars
<1>9. HandlerInv'
  BY <1>1, <1>2, <1>6 DEF Types, HandlerInv, Outcome, Op, Seen
<1>10. StagesLeft' /\ CancelInv'
  BY <1>2, <1>6, ActorsAssumption DEF Types, StagesLeft, CancelInv, task_vars
<1> QED
  BY <1>4, <1>8, <1>9, <1>10 DEF Types

HandlerTypes ==
  /\ HandlerInv /\ call \in [Calls -> CallType] /\ pc \in [Starts \cup Calls -> Places]
  /\ \A g \in Calls : Op(g) \in Ops \cup {None} /\ Arg(g) \in Starts \cup Calls \cup {None}
                      /\ Seen(g) \in RunStatus \cup {None, "clear"}

\* A handler that goes on keeps what is known of handlers if it is known of itself.
LEMMA HandlerRests ==
  ASSUME Types, NEW h \in Calls, NEW place \in Places \ {"unused"},
         pc' = [pc EXCEPT ![h] = place], pc[h] # "unused",
         call' \in [Calls -> CallType], \A g \in Calls \ {h} : call'[g] = call[g],
         status' = status \/ status' \in RunStatus,
         place # "insert", place = "stop" => Op(h)' \in Pauses,
         place = "session" => Op(h)' = "answer", place = "steer" => Op(h)' = "steer",
         place = "row" => Outcome(h)' \in RunStatus,
         place = "judge" /\ Op(h)' # "resolve" => Seen(h)' \in RunStatus
  PROVE  HandlerTypes' /\ \A s \in Starts : pc'[s] = pc[s]
<1>1. pc \in [Starts \cup Calls -> Places]
  BY DEF Types, TypeOK
<1>2. pc' \in [Starts \cup Calls -> Places] /\ pc'[h] = place
      /\ \A b \in (Starts \cup Calls) \ {h} : pc'[b] = pc[b]
  BY <1>1
<1>3. status # "absent" => status' # "absent"
  BY DEF RunStatus, Final
<1>4. ASSUME NEW g \in Calls \ {h}
      PROVE  Op(g)' = Op(g) /\ Seen(g)' = Seen(g) /\ Outcome(g)' = Outcome(g)
  BY DEF Outcome, Op, Seen
<1>5. HandlerInv'
  BY <1>2, <1>3, <1>4 DEF Types, HandlerInv
<1>6. \A g \in Calls : Op(g)' \in Ops \cup {None} /\ Arg(g)' \in Starts \cup Calls \cup {None}
                       /\ Seen(g)' \in RunStatus \cup {None, "clear"}
  BY DEF CallType, Op, Arg, Seen
<1> QED
  BY <1>2, <1>5, <1>6, ActorsAssumption DEF HandlerTypes

\* The steps of a handler preserve the types.
LEMMA HandleTypes ==
  ASSUME Types, NEW h \in Calls, Handle(h)
  PROVE  Types'
<1> USE DEF Op, Arg, Seen
<1>1. call \in [Calls -> CallType] /\ call[h] \in CallType
      /\ pc \in [Starts \cup Calls -> Places]
  BY DEF Types, TypeOK
<1>2. pc[h] # "unused" => status \in RunStatus
  BY DEF Types, TypeOK, HandlerInv
<1>11. CASE CallRaises(h)
  <2>1. pc' = [pc EXCEPT ![h] = "refused"] /\ pc[h] # "unused"
        /\ UNCHANGED <<status, paused, task, task_vars, urgent, previous, blockers, call>>
    BY <1>11 DEF CallRaises, Goto, LanePlaces
  <2>2. "refused" \in Places
    BY DEF Places
  <2>3. HandlerTypes' /\ \A s \in Starts : pc'[s] = pc[s]
    BY <1>1, <2>1, <2>2, HandlerRests
  <2> QED
    BY <2>1, <2>3, TasksRest DEF HandlerTypes, Types, TypeOK, CancelInv, task_vars
<1>3. CASE Pause(h) \/ WorkersStopped(h) \/ Resume(h)
  <2>1. PICK place \in {"row", "stop", "ended"} :
          pc' = [pc EXCEPT ![h] = place] /\ (place = "stop" => Op(h) \in Pauses)
    BY <1>3 DEF Pause, WorkersStopped, Resume, Goto, Pauses
  <2>2. pc[h] # "unused" /\ UNCHANGED <<status, task, task_vars, urgent, previous, blockers, call>>
        /\ paused' \in BOOLEAN
    BY <1>3 DEF Pause, WorkersStopped, Resume, At, Types, TypeOK
  <2>3. place = "row" => Outcome(h)' \in RunStatus
    <3>1. Op(h) \in {"pause", "mcp_pause", "resume", "mcp_resume"}
      BY <1>3 DEF Pause, WorkersStopped, Resume, At, Types, HandlerInv, Pauses
    <3> QED
      BY <2>2, <3>1 DEF Outcome, RunStatus
  <2>4. place \in Places \ {"unused", "insert", "judge", "session", "steer"}
    BY DEF Places, LanePlaces
  <2>5. HandlerTypes' /\ \A s \in Starts : pc'[s] = pc[s]
    BY <1>1, <2>1, <2>2, <2>3, <2>4, HandlerRests
  <2> QED
    BY <2>2, <2>5, TasksRest DEF HandlerTypes, Types, TypeOK, CancelInv, task_vars
<1>4. CASE Cancel(h)
  <2>1. /\ pc[h] = "read" /\ pc' = [pc EXCEPT ![h] = "row"]
        /\ call' = [call EXCEPT ![h].arg = task] /\ Op(h) \in Cancels
        /\ cancelling' = [s \in Starts |-> cancelling[s] \/ (s = task /\ pc[s] \in Live)]
        /\ paused' = (paused /\ Op(h) = "cancel")
        /\ UNCHANGED <<status, session, task, cut, mode, ran, turns, waiter, doneOf, urgent,
                       previous, blockers>>
    BY <1>4 DEF Cancel, At, Goto, Cancels
  <2>2. task \in Starts \cup {None}
    BY DEF Types, TypeOK
  <2>3. call' \in [Calls -> CallType] /\ Op(h)' = Op(h) /\ \A g \in Calls \ {h} : call'[g] = call[g]
    BY <1>1, <2>1, <2>2 DEF CallType
  <2>4. Outcome(h)' \in RunStatus /\ "row" \in Places
    BY <2>1, <2>3 DEF Outcome, RunStatus, Final, Cancels, Places, LanePlaces
  <2>5. HandlerTypes' /\ \A s \in Starts : pc'[s] = pc[s]
    BY <1>1, <2>1, <2>3, <2>4, HandlerRests
  <2>6. cancelling' \in [Starts -> BOOLEAN] /\ paused' \in BOOLEAN
    BY <2>1 DEF Types, TypeOK
  <2>7. CancelInv'
    BY <2>1, <2>5 DEF Types, CancelInv
  <2> QED
    BY <2>1, <2>5, <2>6, <2>7, TasksRest DEF HandlerTypes, Types, TypeOK
<1>5. CASE Answer(h)
  <2>1. PICK place \in {"row", "ended"} : pc' = [pc EXCEPT ![h] = place]
    BY <1>5 DEF Answer, Goto
  <2>2. pc[h] # "unused" /\ Op(h) = "answer"
        /\ UNCHANGED <<status, session, task, cancelling, cut, mode, ran, turns, doneOf, urgent,
                       previous, blockers, call>>
        /\ paused' \in BOOLEAN /\ waiter' \in {waiter, [waiter EXCEPT ![Arg(h)] = "answered"]}
    BY <1>5 DEF Answer, At, Types, TypeOK
  <2>3. Outcome(h)' \in RunStatus /\ place \in Places \ {"unused", "insert", "judge", "session", "steer", "stop"}
    BY <2>2 DEF Outcome, RunStatus, Places, LanePlaces
  <2>4. HandlerTypes' /\ \A s \in Starts : pc'[s] = pc[s]
    BY <1>1, <2>1, <2>2, <2>3, HandlerRests
  <2>5. waiter' \in [Starts -> {None, "waiting", "answered", "closed"}]
    BY <2>2 DEF Types, TypeOK
  <2> QED
    BY <2>2, <2>4, <2>5, TasksRest DEF HandlerTypes, Types, TypeOK, CancelInv
<1>6. CASE AnswerSession(h)
  <2>1. pc' = [pc EXCEPT ![h] = "ended"] /\ pc[h] = "session"
        /\ session' = [session EXCEPT ![Arg(h)] = "running"]
        /\ UNCHANGED <<status, paused, task, cancelling, cut, mode, ran, turns, waiter, doneOf,
                       urgent, previous, blockers, call>>
    BY <1>6 DEF AnswerSession, WriteSession, At, Goto
  <2>2. "ended" \in Places
    BY DEF Places
  <2>3. HandlerTypes' /\ \A s \in Starts : pc'[s] = pc[s]
    BY <1>1, <2>1, <2>2, HandlerRests
  <2>4. session' \in [Starts -> {"absent", "running", "paused"} \cup Final]
    BY <2>1 DEF Types, TypeOK
  <2> QED
    BY <2>1, <2>3, <2>4, TasksRest DEF HandlerTypes, Types, TypeOK, CancelInv
<1>7. CASE Steer(h) \/ InsertBlocker(h) \/ ResolveBlocker(h)
  <2>1. PICK place \in {"steer", "ended", "query", "resolve"} :
          pc' = [pc EXCEPT ![h] = place] /\ (place = "steer" => Op(h) = "steer")
    BY <1>7 DEF Steer, InsertBlocker, ResolveBlocker, Goto
  <2>2. pc[h] # "unused" /\ UNCHANGED <<status, paused, task, task_vars, previous, call>>
        /\ urgent' \in BOOLEAN
    BY <1>7 DEF Steer, InsertBlocker, ResolveBlocker, At, Types, TypeOK
  <2>3. blockers' \in [Calls -> {None, "blocker", "warning", "resolved"}]
    <3>1. CASE InsertBlocker(h)
      <4>1. Op(h) \in {"blocker", "warning"}
        BY <3>1 DEF InsertBlocker, At, Types, HandlerInv
      <4> QED
        BY <3>1, <4>1 DEF InsertBlocker, Types, TypeOK
    <3>2. CASE Steer(h) \/ ResolveBlocker(h)
      BY <3>2 DEF Steer, ResolveBlocker, Types, TypeOK
    <3> QED
      BY <1>7, <3>1, <3>2
  <2>4. place \in Places \ {"unused", "insert", "judge", "session", "stop", "row"}
    BY DEF Places, LanePlaces
  <2>5. HandlerTypes' /\ \A s \in Starts : pc'[s] = pc[s]
    BY <1>1, <2>1, <2>2, <2>4, HandlerRests
  <2> QED
    BY <2>2, <2>3, <2>5, TasksRest DEF HandlerTypes, Types, TypeOK, CancelInv, task_vars
<1>8. CASE Query(h)
  <2> DEFINE seen == IF Op(h) # "resolve" THEN status ELSE IF BlockersOpen THEN "blocked" ELSE "clear"
  <2>1. pc' = [pc EXCEPT ![h] = "judge"] /\ pc[h] = "query" /\ call' = [call EXCEPT ![h].seen = seen]
        /\ UNCHANGED <<status, paused, task, task_vars, urgent, previous, blockers>>
    BY <1>8 DEF Query, Goto
  <2>2. seen \in RunStatus \cup {"clear"} /\ (Op(h) # "resolve" => seen \in RunStatus)
    BY <1>2, <2>1 DEF RunStatus
  <2> HIDE DEF seen
  <2>3. call' \in [Calls -> CallType] /\ Op(h)' = Op(h) /\ Seen(h)' = seen
        /\ \A g \in Calls \ {h} : call'[g] = call[g]
    BY <1>1, <2>1, <2>2 DEF CallType
  <2>4. "judge" \in Places
    BY DEF Places
  <2>5. HandlerTypes' /\ \A s \in Starts : pc'[s] = pc[s]
    BY <1>1, <2>1, <2>2, <2>3, <2>4, HandlerRests
  <2> QED
    BY <2>1, <2>5, TasksRest DEF HandlerTypes, Types, TypeOK, CancelInv, task_vars
<1>9. CASE Judge(h)
  <2>1. PICK place \in {"row", "ended"}, seen \in RunStatus \cup {Seen(h)} :
          /\ pc' = [pc EXCEPT ![h] = place] /\ call' = [call EXCEPT ![h].seen = seen]
          /\ place = "row" => Op(h) \in {"blocker", "resolve"} /\ seen \in RunStatus
    <3>1. call = [call EXCEPT ![h].seen = Seen(h)]
      BY <1>1 DEF CallType
    <3>2. previous \in {None} \cup RunStatus /\ "running" \in RunStatus /\ "blocked" \in RunStatus
      BY DEF Types, TypeOK, RunStatus
    <3> QED
      BY <1>9, <3>1, <3>2 DEF Judge, Goto
  <2>2. pc[h] = "judge" /\ UNCHANGED <<status, paused, task, task_vars, urgent, blockers>>
    BY <1>9 DEF Judge, At
  <2>3. previous' \in {None} \cup RunStatus
    <3>1. Op(h) = "blocker" => Seen(h) \in RunStatus
      BY <2>2 DEF Types, HandlerInv
    <3> QED
      BY <1>9, <3>1 DEF Judge, Types, TypeOK
  <2>4. seen \in RunStatus \cup {None, "clear"}
    BY <1>1 DEF CallType
  <2>5. call' \in [Calls -> CallType] /\ Op(h)' = Op(h) /\ Seen(h)' = seen
        /\ \A g \in Calls \ {h} : call'[g] = call[g]
    BY <1>1, <2>1, <2>4 DEF CallType
  <2>6. place = "row" => Outcome(h)' \in RunStatus
    BY <2>1, <2>5 DEF Outcome
  <2>7. place \in Places \ {"unused", "insert", "judge", "session", "steer", "stop"}
    BY DEF Places, LanePlaces
  <2>8. HandlerTypes' /\ \A s \in Starts : pc'[s] = pc[s]
    BY <1>1, <2>1, <2>2, <2>5, <2>6, <2>7, HandlerRests
  <2> QED
    BY <2>2, <2>3, <2>8, TasksRest DEF HandlerTypes, Types, TypeOK, CancelInv, task_vars
<1>10. CASE WriteCallRow(h)
  <2>1. PICK place \in {"session", "ended"} :
          pc' = [pc EXCEPT ![h] = place] /\ (place = "session" => Op(h) = "answer")
    BY <1>10 DEF WriteCallRow, WriteRow, Goto
  <2>2. pc[h] = "row" /\ UNCHANGED <<paused, task, task_vars, urgent, previous, blockers, call>>
        /\ status' = Outcome(h)
    BY <1>10 DEF WriteCallRow, WriteRow, At
  <2>3. status' \in RunStatus
    BY <2>2 DEF Types, HandlerInv
  <2>4. place \in Places \ {"unused", "insert", "judge", "stop", "row", "steer"}
    BY DEF Places, LanePlaces
  <2>5. HandlerTypes' /\ \A s \in Starts : pc'[s] = pc[s]
    BY <1>1, <2>1, <2>2, <2>3, <2>4, HandlerRests
  <2> QED
    BY <2>2, <2>3, <2>5, TasksRest DEF HandlerTypes, Types, TypeOK, CancelInv, task_vars
<1> QED
  BY <1>3, <1>4, <1>5, <1>6, <1>7, <1>8, <1>9, <1>10, <1>11 DEF Handle

\* Every step preserves the types.
LEMMA StepTypes == Types /\ [Next]_vars => Types'
<1> SUFFICES ASSUME Types, [Next]_vars PROVE Types'
  OBVIOUS
<1>1. CASE Next
  BY <1>1, StartTypes, RunTypes, RequestTypes, HandleTypes DEF Next
<1>2. CASE UNCHANGED vars
  BY <1>2 DEF vars, Types, TypeOK, HandlerInv, Outcome, StagesLeft, CancelInv, Op, Arg, Seen
<1> QED
  BY <1>1, <1>2

\* The types hold in every state: in particular no task begins more stages, and no
\* interview asks more questions, than there are.
THEOREM TypeCorrect == Spec => []TypeOK
<1>1. Types => TypeOK
  BY DEF Types
<1> QED
  BY <1>1, InitTypes, StepTypes, PTL DEF Spec

-----------------------------------------------------------------------------
(* One live task *)

\* What the proofs below need of the process: a free writer lane, or one start only.
Exclusive == ~LaneBusy \/ \A r, s \in Starts : r = s

\* With a free lane one coroutine at most is at a place of the lane.
LaneInv ==
  ~LaneBusy => \A a, b \in Starts \cup Calls :
                 pc[a] \in LanePlaces /\ pc[b] \in LanePlaces => a = b

\* A start that has passed the test for a live task still sees none.
StartingInv ==
  ~LaneBusy => \A s \in Starts : pc[s] \in {"start row", "create task"} =>
                 task = None \/ pc[task] \notin Live

\* A live task is the one engine.tasks has; and that one lives, or is over.
LiveInv ==
  /\ \A s \in Starts : pc[s] \in Live => s = task
  /\ task # None => pc[task] \in Live \cup {"ended"}

Tasks == LaneInv /\ StartingInv /\ LiveInv

\* Nobody leaves or enters the lane while another is in it.
LEMMA LaneStep ==
  ASSUME Types, LaneInv, NEW a \in Starts \cup Calls, NEW place, pc' = [pc EXCEPT ![a] = place],
         MayRun(a) \/ place \notin LanePlaces
  PROVE  LaneInv'
<1>1. \A b \in (Starts \cup Calls) \ {a} : pc'[b] = pc[b]
  BY DEF Types, TypeOK
<1>2. pc'[a] = place
  BY DEF Types, TypeOK
<1>3. ASSUME ~LaneBusy, NEW b \in Starts \cup Calls, NEW c \in Starts \cup Calls,
             pc'[b] \in LanePlaces, pc'[c] \in LanePlaces
      PROVE  b = c
  <2>1. CASE b = a /\ c # a
    BY <1>1, <1>2, <1>3, <2>1 DEF MayRun
  <2>2. CASE c = a /\ b # a
    BY <1>1, <1>2, <1>3, <2>2 DEF MayRun
  <2>3. CASE b # a /\ c # a
    BY <1>1, <1>3, <2>3 DEF LaneInv
  <2> QED
    BY <2>1, <2>2, <2>3
<1> QED
  BY <1>3 DEF LaneInv

\* A step of Engine.start or _run needs the lane to be free of others.
LEMMA StartPlaces ==
  ASSUME NEW s \in Starts, Start(s)
  PROVE  /\ MayRun(s) /\ pc[s] \in {"unused", "create session", "start row", "create task"}
         /\ \E place \in {"create session", "refused", "start row", "create task", "created"} :
              pc' = [pc EXCEPT ![s] = place]
         /\ UNCHANGED <<paused, cancelling, cut, waiter, doneOf, ran, turns, urgent, previous,
                        blockers, call>>
  BY DEF Start, StartRequest, StartCheck, StartRow, CreateTask, StartRaises, At, Goto, WriteRow,
         task_vars, MayRun

LEMMA RunMay == ASSUME NEW s \in Starts, Run(s) PROVE MayRun(s)
  BY DEF MayRun, Run, FirstStep, Wake, Preempted, StagePassed, BrowserPassed, StageFailed,
     WriteTaskRow, WriteTaskSession,
         EmitDone, NoticeSent, TaskRaises, Cancelled, Ask, Answered, TimedOut, Complete, At, Runs,
         WriteRow, WriteSession

\* Where the steps of a handler lead, and what they leave alone.
CallPlaces == {"read", "insert", "row", "stop", "ended", "refused", "session", "steer", "query",
               "resolve", "judge"}

LEMMA CallFrame ==
  ASSUME NEW h \in Calls, Request(h) \/ Handle(h)
  PROVE  /\ UNCHANGED <<task, mode, cut, ran, turns, doneOf>>
         /\ \E place \in CallPlaces :
              pc' = [pc EXCEPT ![h] = place] /\ (MayRun(h) \/ place = "judge")
         /\ session' = session \/ pc[h] = "session"
         /\ status' = status \/ (pc[h] = "row" /\ status' = Outcome(h))
         /\ cancelling' = cancelling \/ Cancel(h)
<1> USE DEF At, Goto, task_vars, CallPlaces
<1>1. CASE Request(h)
  BY <1>1 DEF Request
<1>2. CASE Pause(h) \/ WorkersStopped(h) \/ Resume(h)
  BY <1>2 DEF Pause, WorkersStopped, Resume
<1>3. CASE Cancel(h)
  BY <1>3 DEF Cancel
<1>4. CASE Answer(h) \/ AnswerSession(h)
  BY <1>4 DEF Answer, AnswerSession, WriteSession
<1>5. CASE Steer(h) \/ InsertBlocker(h) \/ ResolveBlocker(h)
  BY <1>5 DEF Steer, InsertBlocker, ResolveBlocker
<1>6. CASE Query(h) \/ Judge(h)
  BY <1>6 DEF Query, Judge
<1>7. CASE WriteCallRow(h)
  BY <1>7 DEF WriteCallRow, WriteRow
<1>8. CASE CallRaises(h)
  BY <1>8 DEF CallRaises, MayRun
<1> QED
  BY <1>1, <1>2, <1>3, <1>4, <1>5, <1>6, <1>7, <1>8 DEF Handle

LEMMA CallRests ==
  ASSUME Types, NEW h \in Calls, Request(h) \/ Handle(h)
  PROVE  \A b \in (Starts \cup Calls) \ {h} : pc'[b] = pc[b]
  BY CallFrame DEF Types, TypeOK

\* Every step keeps tasks apart.
LEMMA StepTasks == Exclusive /\ Types /\ Tasks /\ [Next]_vars => Tasks'
<1> SUFFICES ASSUME Exclusive, Types, Tasks, [Next]_vars PROVE Tasks'
  OBVIOUS
<1> USE DEF Tasks
<1>1. pc \in [Starts \cup Calls -> Places] /\ task \in Starts \cup {None}
  BY DEF Types, TypeOK
<1>2. ASSUME NEW s \in Starts, Start(s) PROVE Tasks'
  <2>1. PICK place \in {"create session", "refused", "start row", "create task", "created"} :
          pc' = [pc EXCEPT ![s] = place]
    BY <1>2, StartPlaces
  <2>2. MayRun(s) /\ pc[s] \in {"unused", "create session", "start row", "create task"}
    BY <1>2, StartPlaces
  <2>3. pc'[s] = place /\ \A b \in (Starts \cup Calls) \ {s} : pc'[b] = pc[b]
    BY <1>1, <2>1
  <2>4. LaneInv'
    BY <2>1, <2>2, LaneStep
  <2>5. pc[s] \notin Live \cup {"ended"} /\ s # task
    <3>1. pc[s] \notin Live \cup {"ended"}
      BY <2>2 DEF Live, Trying, Handling
    <3> QED
      BY <3>1, ActorsAssumption DEF LiveInv
  <2>6. CASE CreateTask(s)
    <3>1. task' = s /\ place = "created" /\ pc[s] = "create task"
      BY <1>1, <2>1, <2>6 DEF CreateTask, At, Goto
    <3>2. \A r \in Starts \ {s} : pc[r] \notin Live
      <4>1. CASE ~LaneBusy
        BY <1>1, <3>1, <4>1, ActorsAssumption DEF LiveInv, StartingInv
      <4>2. CASE \A q, r \in Starts : q = r
        BY <4>2
      <4> QED
        BY <4>1, <4>2 DEF Exclusive
    <3>3. LiveInv'
      BY <2>3, <3>1, <3>2 DEF LiveInv, Live
    <3>4. StartingInv'
      <4>1. ~LaneBusy => \A r \in Starts \ {s} : pc'[r] \notin LanePlaces
        BY <2>2, <2>3 DEF MayRun
      <4>2. {"start row", "create task"} \subseteq LanePlaces
        BY DEF LanePlaces
      <4> QED
        BY <2>3, <3>1, <4>1, <4>2 DEF StartingInv
    <3> QED
      BY <2>4, <3>3, <3>4
  <2>7. CASE ~CreateTask(s)
    <3>1. task' = task /\ place # "created"
      BY <1>1, <1>2, <2>1, <2>7 DEF Start, StartRequest, StartCheck, StartRow, StartRaises, At,
         Goto,
         WriteRow
    <3>2. LiveInv'
      <4>1. place \notin Live
        BY <3>1 DEF Live, Trying, Handling
      <4>2. task # None => task \in (Starts \cup Calls) \ {s}
        BY <1>1, <2>5
      <4> QED
        BY <2>3, <3>1, <4>1, <4>2 DEF LiveInv
    <3>3. StartingInv'
      <4>1. task # None => pc'[task] = pc[task]
        BY <1>1, <2>3, <2>5
      <4>2. ~LaneBusy /\ place \in {"start row", "create task"} => task = None \/ pc[task] \notin Live
        <5>1. CASE StartCheck(s)
          BY <1>1, <2>1, <5>1 DEF StartCheck, At, Goto
        <5>2. CASE StartRow(s)
          BY <5>2 DEF StartRow, WriteRow, At, StartingInv
        <5>3. CASE StartRequest(s)
          BY <1>1, <2>1, <5>3 DEF StartRequest, Goto
        <5>4. CASE StartRaises(s)
          BY <1>1, <2>1, <5>4 DEF StartRaises, Goto
        <5> QED
          BY <1>2, <2>7, <5>1, <5>2, <5>3, <5>4 DEF Start
      <4> QED
        BY <2>3, <3>1, <4>1, <4>2 DEF StartingInv
    <3> QED
      BY <2>4, <3>2, <3>3
  <2> QED
    BY <2>6, <2>7
<1>3. ASSUME NEW s \in Starts, Run(s) PROVE Tasks'
  <2>1. PICK place \in (Live \cup {"ended"}) \ {"created"} : pc' = [pc EXCEPT ![s] = place]
    BY <1>3, RunPlaces
  <2>2. pc[s] \in Live /\ MayRun(s) /\ task' = task
    BY <1>3, RunPlaces, RunMay, RunFrame
  <2>3. pc'[s] = place /\ \A b \in (Starts \cup Calls) \ {s} : pc'[b] = pc[b]
    BY <1>1, <2>1
  <2>4. LaneInv'
    BY <2>1, <2>2, LaneStep
  <2>5. LiveInv'
    BY <1>1, <2>2, <2>3 DEF LiveInv
  <2>6. StartingInv'
    <3>1. {"start row", "create task"} \subseteq LanePlaces /\ "start row" \notin Live
          /\ "create task" \notin Live
      BY DEF LanePlaces, Live, Trying, Handling
    <3>2. ~LaneBusy => \A r \in Starts \ {s} : pc'[r] \notin LanePlaces
      BY <2>2, <2>3 DEF MayRun
    <3> QED
      BY <2>3, <3>1, <3>2 DEF StartingInv
  <2> QED
    BY <2>4, <2>5, <2>6
<1>4. ASSUME NEW h \in Calls, Request(h) \/ Handle(h) PROVE Tasks'
  <2>1. PICK place \in CallPlaces : pc' = [pc EXCEPT ![h] = place] /\ (MayRun(h) \/ place = "judge")
    BY <1>4, CallFrame
  <2>2. LaneInv'
    BY <2>1, LaneStep DEF LanePlaces
  <2>3. task' = task /\ \A s \in Starts : pc'[s] = pc[s]
    BY <1>4, CallFrame, CallRests, ActorsAssumption
  <2> QED
    BY <1>1, <2>2, <2>3 DEF LiveInv, StartingInv
<1>5. CASE UNCHANGED vars
  BY <1>5 DEF vars, LaneInv, LiveInv, StartingInv
<1> QED
  BY <1>2, <1>3, <1>4, <1>5 DEF Next

LEMMA InitTasks == Init => Tasks
<1> SUFFICES ASSUME Init PROVE Tasks
  OBVIOUS
<1>1. "unused" \notin LanePlaces \cup Live
  BY DEF LanePlaces, Live, Trying, Handling
<1>2. \A a \in Starts \cup Calls : pc[a] = "unused"
  BY DEF Init
<1>3. task = None /\ StartingInv
  BY DEF Init, StartingInv
<1> QED
  BY <1>1, <1>2, <1>3 DEF Tasks, LaneInv, LiveInv

\* With a free writer lane, starts that resume a run at the same time make one task.
THEOREM OneTaskAlways == Exclusive => (Spec => []OneLiveTask)
<1> SUFFICES ASSUME Exclusive PROVE Spec => []OneLiveTask
  OBVIOUS
<1>1. Types /\ Tasks => OneLiveTask
  <2> SUFFICES ASSUME Types, Tasks PROVE OneLiveTask
    OBVIOUS
  <2> DEFINE L == {s \in Starts : pc[s] \in Live}
  <2>1. L \subseteq {task}
    BY DEF Tasks, LiveInv
  <2>2. IsFiniteSet({task}) /\ Cardinality({task}) = 1
    BY FS_Singleton
  <2>3. Cardinality(L) <= Cardinality({task})
    BY <2>1, <2>2, FS_Subset
  <2> QED
    BY <2>2, <2>3 DEF OneLiveTask
<1> QED
  BY <1>1, InitTypes, StepTypes, InitTasks, StepTasks, PTL DEF Spec

-----------------------------------------------------------------------------
(* The ways a run ends *)

\* What EndsAgree says of a task, and of one that has still to emit done, or a notice.
EndOf(s) ==
  /\ pc[s] \in {"pass done", "pass notice"} => session[s] = "passed"
  /\ pc[s] \in {"fail done", "fail notice"} => session[s] = "failed"
  /\ pc[s] = "pass notice" => doneOf[s] = "passed"
  /\ pc[s] = "fail notice" => doneOf[s] = "failed"
  /\ pc[s] \notin {"fail notice", "ended"} => doneOf[s] # "failed"
  /\ pc[s] = "ended" /\ ~cut[s] =>
       session[s] = doneOf[s] \/ (session[s] = "cancelled" /\ doneOf[s] # "failed")

EndInv == \A s \in Starts : EndOf(s)

LEMMA InitEnd == Init => EndInv
  BY DEF Init, EndInv, EndOf, None

\* A step of Engine._run preserves it.
LEMMA RunEnd ==
  ASSUME Types, NEW s \in Starts, Run(s), EndOf(s)
  PROVE  EndOf(s)'
<1>1. pc \in [Starts \cup Calls -> Places] /\ DOMAIN session = Starts /\ DOMAIN doneOf = Starts
      /\ DOMAIN cut = Starts
  BY DEF Types, TypeOK
<1> USE <1>1 DEF At, Goto, Runs, Loop, WriteRow, WriteSession, EndOf
<1>2. CASE FirstStep(s) \/ Wake(s) \/ Preempted(s)
  BY <1>2 DEF FirstStep, Wake, Preempted
<1>3. CASE StagePassed(s) \/ BrowserPassed(s) \/ StageFailed(s)
  BY <1>3 DEF StagePassed, BrowserPassed, StageFailed, task_vars
<1>4. CASE WriteTaskRow(s)
  BY <1>4 DEF WriteTaskRow, task_vars
<1>5. CASE WriteTaskSession(s)
  BY <1>5 DEF WriteTaskSession
<1>6. CASE EmitDone(s)
  BY <1>6 DEF EmitDone
<1>7. CASE Ask(s) \/ Answered(s) \/ TimedOut(s) \/ Complete(s)
  BY <1>7 DEF Ask, Answered, TimedOut, Complete
<1>8. CASE NoticeSent(s)
  BY <1>8 DEF NoticeSent, task_vars
<1>9. CASE TaskRaises(s)
  BY <1>9 DEF TaskRaises, Trying, LanePlaces, Handling
<1>10. CASE Cancelled(s)
  BY <1>10 DEF Cancelled, Trying
<1> QED
  BY <1>2, <1>3, <1>4, <1>5, <1>6, <1>7, <1>8, <1>9, <1>10 DEF Run

\* Every step preserves it, unless answers change the status of sessions.
LEMMA StepEnd == "answer" \notin Ops /\ Types /\ EndInv /\ [Next]_vars => EndInv'
<1> SUFFICES ASSUME "answer" \notin Ops, Types, EndInv, [Next]_vars PROVE EndInv'
  OBVIOUS
<1>1. /\ pc \in [Starts \cup Calls -> Places] /\ session \in [Starts -> {"absent", "running", "paused"} \cup Final]
      /\ doneOf \in [Starts -> {None, "passed", "failed"}] /\ cut \in [Starts -> BOOLEAN]
  BY DEF Types, TypeOK
<1>2. ASSUME NEW s \in Starts, Start(s) PROVE EndInv'
  <2>1. PICK place \in {"create session", "refused", "start row", "create task", "created"} :
          pc' = [pc EXCEPT ![s] = place]
    BY <1>2, StartPlaces
  <2>2. UNCHANGED <<cut, doneOf>> /\ pc[s] # "ended"
    BY <1>2, StartPlaces
  <2>3. session' = session \/ session' = [session EXCEPT ![s] = "running"]
    BY <1>2 DEF Start, StartRequest, StartCheck, StartRow, CreateTask, StartRaises, task_vars
  <2>4. \A r \in Starts \ {s} : session'[r] = session[r] /\ pc'[r] = pc[r]
    BY <1>1, <2>1, <2>3
  <2>5. pc'[s] = place
    BY <1>1, <2>1
  <2>6. ASSUME NEW r \in Starts \ {s} PROVE EndOf(r)'
    BY <2>2, <2>4 DEF EndInv, EndOf
  <2>7. EndOf(s)'
    <3>1. pc[s] # "fail notice"
      BY <1>2, StartPlaces
    <3>2. doneOf[s] # "failed"
      BY <2>2, <3>1 DEF EndInv, EndOf
    <3> QED
      BY <2>2, <2>5, <3>2 DEF EndOf
  <2> QED
    BY <2>6, <2>7 DEF EndInv
<1>3. ASSUME NEW s \in Starts, Run(s) PROVE EndInv'
  <2>1. PICK place \in Live \cup {"ended"} : pc' = [pc EXCEPT ![s] = place]
    BY <1>3, RunPlaces
  <2>2. \A r \in Starts \ {s} : pc'[r] = pc[r] /\ session'[r] = session[r]
    <3>1. session' = session
          \/ \E v \in {"running", "paused"} \cup Final : session' = [session EXCEPT ![s] = v]
      BY <1>3, RunFrame
    <3> QED
      BY <1>1, <2>1, <3>1
  <2>3. \A r \in Starts \ {s} : cut'[r] = cut[r]
    <3>1. cut' = cut \/ cut' = [cut EXCEPT ![s] = TRUE]
      BY <1>3, RunFrame
    <3> QED
      BY <1>1, <3>1
  <2>4. \A r \in Starts \ {s} : doneOf'[r] = doneOf[r]
    <3>1. doneOf' = doneOf \/ \E v \in {"passed", "failed"} : doneOf' = [doneOf EXCEPT ![s] = v]
      BY <1>3, RunFrame
    <3> QED
      BY <1>1, <3>1
  <2>5. ASSUME NEW r \in Starts \ {s} PROVE EndOf(r)'
    BY <2>2, <2>3, <2>4 DEF EndInv, EndOf
  <2>6. EndOf(s)'
    BY <1>3, RunEnd DEF EndInv
  <2> QED
    BY <2>5, <2>6 DEF EndInv
<1>4. ASSUME NEW h \in Calls, Request(h) \/ Handle(h) PROVE EndInv'
  <2>1. pc[h] # "session"
    BY <1>1 DEF Types, TypeOK, HandlerInv, None
  <2>2. UNCHANGED <<session, cut, doneOf>>
    BY <1>4, <2>1, CallFrame
  <2>3. \A s \in Starts : pc'[s] = pc[s]
    BY <1>4, CallRests, ActorsAssumption
  <2> QED
    BY <2>2, <2>3 DEF EndInv, EndOf
<1>5. CASE UNCHANGED vars
  BY <1>5 DEF vars, EndInv, EndOf
<1> QED
  BY <1>2, <1>3, <1>4, <1>5 DEF Next

\* The session and the last done event agree about how a task ended, or it was cancelled
\* and no done event said failed; for any starts and stages, wherever cancellations
\* strike, within emit included, and whichever writes fail.
THEOREM EndsAlwaysAgree == "answer" \notin Ops => (Spec => []EndsAgree)
<1> SUFFICES ASSUME "answer" \notin Ops PROVE Spec => []EndsAgree
  OBVIOUS
<1>1. EndInv => EndsAgree
  BY DEF EndInv, EndOf, EndsAgree
<1> QED
  BY <1>1, InitTypes, StepTypes, InitEnd, StepEnd, PTL DEF Spec

-----------------------------------------------------------------------------
(* Cancellation *)

\* A task that ends without writing passed or failed.
Doomed(s) == (cancelling[s] /\ pc[s] \in Live) \/ pc[s] \in {"cancel row", "cancel session", "ended"}

\* The task a cancellation found is doomed; after the handler has written, the status
\* stays.
StickInv ==
  \A h \in Calls : Op(h) \in Cancels /\ pc[h] \in {"row", "ended"} =>
    /\ Arg(h) # None => Arg(h) \in Starts /\ Doomed(Arg(h))
    /\ pc[h] = "ended" /\ Arg(h) = task /\ task # None => status \notin {"passed", "failed"}

\* No handler writes the end of a run, if no blocker is resolved.
NoEndWritten == \A h \in Calls : pc[h] = "row" => Outcome(h) \notin {"passed", "failed"}

LEMMA InitStick == Init => StickInv /\ NoEndWritten
  BY DEF Init, StickInv, NoEndWritten, Op, Cancels, None

\* A task that is doomed stays so.
LEMMA DoomedStays ==
  ASSUME Types, NEW s \in Starts, Run(s), Doomed(s)
  PROVE  Doomed(s)' /\ (status' = status \/ status' \notin {"passed", "failed"})
<1>1. pc \in [Starts \cup Calls -> Places] /\ cancelling \in [Starts -> BOOLEAN]
  BY DEF Types, TypeOK
<1>2. CASE cancelling[s]
  <2>1. Cancelled(s)
    BY <1>2 DEF Run, FirstStep, Wake, Preempted, StagePassed, BrowserPassed, StageFailed,
       WriteTaskRow,
                WriteTaskSession, EmitDone, NoticeSent, TaskRaises, Ask, Answered, TimedOut,
                Complete, Runs
  <2> QED
    BY <1>1, <2>1 DEF Cancelled, Doomed, Goto
<1>3. CASE ~cancelling[s]
  <2>1. pc[s] \in {"cancel row", "cancel session"}
    <3>1. pc[s] # "ended"
      BY RunPlaces DEF Live, Trying, Handling
    <3> QED
      BY <1>3, <3>1 DEF Doomed
  <2>2. WriteTaskRow(s) \/ WriteTaskSession(s) \/ TaskRaises(s)
    BY <1>3, <2>1 DEF Run, FirstStep, Wake, Preempted, StagePassed, BrowserPassed, StageFailed,
       EmitDone, NoticeSent, Cancelled, Ask, Answered, TimedOut, Complete, Runs, At
  <2>3. CASE WriteTaskRow(s)
    BY <1>1, <2>1, <2>3 DEF WriteTaskRow, WriteRow, At, Goto, Doomed
  <2>4. CASE WriteTaskSession(s)
    BY <1>1, <2>1, <2>4 DEF WriteTaskSession, WriteSession, At, Goto, Doomed
  <2>5. CASE TaskRaises(s)
    BY <1>1, <2>1, <2>5 DEF TaskRaises, Trying, Goto, Doomed
  <2> QED
    BY <2>2, <2>3, <2>4, <2>5
<1> QED
  BY <1>2, <1>3

\* So does one that does not step.
LEMMA DoomedRests ==
  ASSUME NEW s \in Starts, Doomed(s), pc'[s] = pc[s], cancelling[s] => cancelling'[s]
  PROVE  Doomed(s)'
  BY DEF Doomed

\* A handler that goes on keeps NoEndWritten.
LEMMA StepNoEnd ==
  ASSUME "resolve" \notin Ops, Types, NoEndWritten, [Next]_vars
  PROVE  NoEndWritten'
<1>1. pc \in [Starts \cup Calls -> Places] /\ call \in [Calls -> CallType]
  BY DEF Types, TypeOK
<1>2. ASSUME NEW s \in Starts, Start(s) \/ Run(s) PROVE NoEndWritten'
  <2>1. call' = call /\ \E place : pc' = [pc EXCEPT ![s] = place]
    BY <1>2, StartPlaces, RunPlaces, RunFrame
  <2>2. \A h \in Calls : pc'[h] = pc[h]
    BY <1>1, <2>1, ActorsAssumption
  <2> QED
    BY <2>1, <2>2 DEF NoEndWritten, Outcome, Op, Seen
<1>3. ASSUME NEW h \in Calls, Request(h) \/ Handle(h) PROVE NoEndWritten'
  <2>1. \A g \in Calls \ {h} : pc'[g] = pc[g]
    BY <1>3, CallRests
  <2>2. \A g \in Calls \ {h} : call'[g] = call[g]
    BY <1>1, <1>3 DEF Request, Handle, Pause, WorkersStopped, Resume, Cancel, Answer, AnswerSession,
       Steer, InsertBlocker, ResolveBlocker, Query, Judge, WriteCallRow, CallRaises
  <2>3. ASSUME pc'[h] = "row" PROVE Outcome(h)' \notin {"passed", "failed"}
    <3>1. CASE Pause(h) \/ WorkersStopped(h) \/ Resume(h) \/ Answer(h)
      <4>1. Op(h) \in {"pause", "mcp_pause", "resume", "mcp_resume", "answer"} /\ call' = call
        BY <3>1 DEF Pause, WorkersStopped, Resume, Answer, At, Types, HandlerInv, Pauses
      <4> QED
        BY <4>1 DEF Outcome, Op
    <3>2. CASE Cancel(h)
      <4>1. Op(h)' \in Cancels
        BY <1>1, <3>2 DEF Cancel, Op, CallType, Cancels
      <4> QED
        BY <4>1 DEF Outcome, Cancels
    <3>3. CASE Judge(h)
      <4>1. Op(h) # "resolve"
        BY DEF Types, TypeOK, None
      <4>2. Op(h) = "blocker" /\ call' = [call EXCEPT ![h].seen = "blocked"]
        BY <1>1, <2>3, <3>3, <4>1 DEF Judge, At, Goto
      <4>3. Op(h)' = "blocker" /\ Seen(h)' = "blocked"
        BY <1>1, <4>2 DEF CallType, Op, Seen
      <4> QED
        BY <4>3 DEF Outcome
    <3>4. CASE Request(h) \/ AnswerSession(h) \/ Steer(h) \/ InsertBlocker(h) \/ ResolveBlocker(h)
               \/ Query(h) \/ WriteCallRow(h) \/ CallRaises(h)
      BY <1>1, <2>3, <3>4 DEF Request, AnswerSession, Steer, InsertBlocker, ResolveBlocker, Query,
         WriteCallRow, CallRaises, WriteRow, WriteSession, Goto
    <3> QED
      BY <1>3, <3>1, <3>2, <3>3, <3>4 DEF Handle
  <2>4. \A g \in Calls \ {h} : Outcome(g)' = Outcome(g)
    BY <2>2 DEF Outcome, Op, Seen
  <2> QED
    BY <2>1, <2>3, <2>4 DEF NoEndWritten
<1>4. CASE UNCHANGED vars
  BY <1>4 DEF vars, NoEndWritten, Outcome, Op, Seen
<1> QED
  BY <1>2, <1>3, <1>4 DEF Next

\* Every step keeps what a cancellation has brought about.
LEMMA StepStick ==
  ASSUME Types, Tasks, NoEndWritten, StickInv, [Next]_vars
  PROVE  StickInv'
<1>1. pc \in [Starts \cup Calls -> Places] /\ call \in [Calls -> CallType]
      /\ cancelling \in [Starts -> BOOLEAN] /\ task \in Starts \cup {None}
  BY DEF Types, TypeOK
<1>2. ASSUME NEW s \in Starts, Start(s) PROVE StickInv'
  <2>1. PICK place \in {"create session", "refused", "start row", "create task", "created"} :
          pc' = [pc EXCEPT ![s] = place]
    BY <1>2, StartPlaces
  <2>2. pc[s] \in {"unused", "create session", "start row", "create task"}
        /\ UNCHANGED <<cancelling, call>>
    BY <1>2, StartPlaces
  <2>3. \A b \in (Starts \cup Calls) \ {s} : pc'[b] = pc[b]
    BY <1>1, <2>1
  <2>4. ~Doomed(s)
    BY <2>2 DEF Doomed, Live, Trying, Handling
  <2>5. (task' = task \/ task' = s) /\ (status' = status \/ status' = "running")
    BY <1>2 DEF Start, StartRequest, StartCheck, StartRow, CreateTask, StartRaises, WriteRow
  <2>6. ASSUME NEW h \in Calls, (Op(h) \in Cancels /\ pc[h] \in {"row", "ended"})'
        PROVE  /\ Arg(h)' # None => Arg(h)' \in Starts /\ Doomed(Arg(h))'
               /\ pc'[h] = "ended" /\ Arg(h)' = task' /\ task' # None =>
                    status' \notin {"passed", "failed"}
    <3>1. Op(h)' = Op(h) /\ Arg(h)' = Arg(h) /\ pc'[h] = pc[h]
      BY <2>2, <2>3, ActorsAssumption DEF Op, Arg
    <3>2. Arg(h) # None => Arg(h) \in Starts \ {s} /\ Doomed(Arg(h))
      BY <2>4, <2>6, <3>1 DEF StickInv
    <3>3. Arg(h) # None => Doomed(Arg(h))'
      BY <2>2, <2>3, <3>1, <3>2, DoomedRests DEF Doomed
    <3> QED
      BY <2>5, <2>6, <3>1, <3>2, <3>3 DEF StickInv
  <2> QED
    BY <2>6 DEF StickInv
<1>3. ASSUME NEW s \in Starts, Run(s) PROVE StickInv'
  <2>1. PICK place : pc' = [pc EXCEPT ![s] = place]
    BY <1>3, RunPlaces
  <2>2. \A b \in (Starts \cup Calls) \ {s} : pc'[b] = pc[b]
    BY <1>1, <2>1
  <2>3. call' = call /\ task' = task /\ s = task
    BY <1>3, RunFrame, RunPlaces DEF Tasks, LiveInv
  <2>4. \A r \in Starts \ {s} : cancelling'[r] = cancelling[r]
    BY <1>1, <1>3, RunFrame
  <2>5. ASSUME NEW h \in Calls, (Op(h) \in Cancels /\ pc[h] \in {"row", "ended"})'
        PROVE  /\ Arg(h)' # None => Arg(h)' \in Starts /\ Doomed(Arg(h))'
               /\ pc'[h] = "ended" /\ Arg(h)' = task' /\ task' # None =>
                    status' \notin {"passed", "failed"}
    <3>1. Op(h)' = Op(h) /\ Arg(h)' = Arg(h) /\ pc'[h] = pc[h]
      BY <2>2, <2>3, ActorsAssumption DEF Op, Arg
    <3>2. Arg(h) # None => Arg(h) \in Starts /\ Doomed(Arg(h))
      BY <2>5, <3>1 DEF StickInv
    <3>3. CASE Arg(h) = s
      <4>1. s # None /\ Doomed(s)
        BY <3>2, <3>3, ActorsAssumption
      <4>2. Doomed(s)' /\ (status' = status \/ status' \notin {"passed", "failed"})
        BY <1>3, <4>1, DoomedStays
      <4>3. pc[h] = "ended" => status \notin {"passed", "failed"}
        BY <2>3, <2>5, <3>1, <3>3, <4>1 DEF StickInv
      <4>4. Doomed(Arg(h))'
        BY <3>1, <3>3, <4>2 DEF Doomed
      <4>5. Arg(h)' \in Starts /\ (pc'[h] = "ended" => status' \notin {"passed", "failed"})
        BY <3>1, <3>3, <4>2, <4>3
      <4> QED
        BY <4>4, <4>5 DEF Doomed
    <3>4. CASE Arg(h) # s
      <4>1. Arg(h) # None => Arg(h) \in Starts \ {s} /\ Doomed(Arg(h))'
        <5>1. Arg(h) # None => Arg(h) \in Starts \ {s} /\ Doomed(Arg(h))
          BY <3>2, <3>4
        <5>2. ASSUME NEW r \in Starts \ {s}, Doomed(r) PROVE Doomed(r)'
          BY <2>2, <2>4, <5>2, DoomedRests
        <5> QED
          BY <3>1, <5>1, <5>2 DEF Doomed
      <4> QED
        BY <2>3, <3>1, <3>4, <4>1 DEF Doomed
    <3> QED
      BY <3>3, <3>4
  <2> QED
    BY <2>5 DEF StickInv
<1>4. ASSUME NEW h \in Calls, Request(h) \/ Handle(h) PROVE StickInv'
  <2>1. \A b \in (Starts \cup Calls) \ {h} : pc'[b] = pc[b]
    BY <1>4, CallRests
  <2>2. \A g \in Calls \ {h} : call'[g] = call[g]
    BY <1>1, <1>4 DEF Request, Handle, Pause, WorkersStopped, Resume, Cancel, Answer, AnswerSession,
       Steer, InsertBlocker, ResolveBlocker, Query, Judge, WriteCallRow, CallRaises
  <2>3. task' = task
    BY <1>4, CallFrame
  <2>4. status' \in {"passed", "failed"} => status' = status
    BY <1>4, CallFrame DEF NoEndWritten
  <2>5. \A s \in Starts : cancelling[s] => cancelling'[s]
    <3>1. CASE cancelling' = cancelling
      BY <3>1
    <3>2. CASE Cancel(h)
      BY <3>2 DEF Cancel
    <3> QED
      BY <1>4, <3>1, <3>2, CallFrame
  <2>6. \A s \in Starts : Doomed(s) => Doomed(s)'
    BY <2>1, <2>5, ActorsAssumption, DoomedRests
  <2>7. ASSUME NEW g \in Calls \ {h}, (Op(g) \in Cancels /\ pc[g] \in {"row", "ended"})'
        PROVE  /\ Arg(g)' # None => Arg(g)' \in Starts /\ Doomed(Arg(g))'
               /\ pc'[g] = "ended" /\ Arg(g)' = task' /\ task' # None =>
                    status' \notin {"passed", "failed"}
    <3>1. Op(g)' = Op(g) /\ Arg(g)' = Arg(g) /\ pc'[g] = pc[g]
      BY <2>1, <2>2 DEF Op, Arg
    <3>2. Arg(g) # None => Arg(g) \in Starts /\ Doomed(Arg(g))
      BY <2>7, <3>1 DEF StickInv
    <3> QED
      BY <2>3, <2>4, <2>6, <2>7, <3>1, <3>2 DEF StickInv, Doomed
  <2>8. ASSUME (Op(h) \in Cancels /\ pc[h] \in {"row", "ended"})'
        PROVE  /\ Arg(h)' # None => Arg(h)' \in Starts /\ Doomed(Arg(h))'
               /\ pc'[h] = "ended" /\ Arg(h)' = task' /\ task' # None =>
                    status' \notin {"passed", "failed"}
    <3>1. CASE Cancel(h)
      <4>1. pc'[h] = "row" /\ Arg(h)' = task
        BY <1>1, <3>1 DEF Cancel, Goto, Arg, CallType
      <4>2. task # None => task \in Starts /\ Doomed(task)'
        <5>1. CASE task # None /\ pc[task] \in Live
          <6>1. cancelling'[task] /\ pc'[task] = pc[task]
            BY <1>1, <2>1, <3>1, <5>1, ActorsAssumption DEF Cancel
          <6> QED
            BY <1>1, <2>3, <5>1, <6>1 DEF Doomed
        <5>2. CASE task # None /\ pc[task] = "ended"
          <6>1. pc'[task] = "ended"
            BY <1>1, <2>1, <5>2, ActorsAssumption
          <6> QED
            BY <1>1, <2>3, <5>2, <6>1 DEF Doomed
        <5> QED
          BY <5>1, <5>2 DEF Tasks, LiveInv
      <4> QED
        BY <2>3, <4>1, <4>2 DEF Doomed
    <3>2. CASE WriteCallRow(h)
      <4>1. call' = call /\ pc[h] = "row" /\ status' = Outcome(h)
        BY <3>2 DEF WriteCallRow, WriteRow, At
      <4>2. Arg(h) # None => Arg(h) \in Starts /\ Doomed(Arg(h))
        BY <2>8, <4>1 DEF StickInv, Op
      <4>3. status' \notin {"passed", "failed"}
        BY <4>1 DEF NoEndWritten
      <4>4. Arg(h)' = Arg(h)
        BY <4>1 DEF Arg
      <4> QED
        BY <2>6, <4>2, <4>3, <4>4 DEF Doomed
    <3>3. CASE ~Cancel(h) /\ ~WriteCallRow(h)
      <4>1. pc[h] # "unused" => Op(h)' = Op(h)
        BY <1>1, <1>4, <3>3 DEF Request, Handle, Pause, WorkersStopped, Resume, Answer,
           AnswerSession,
           Steer, InsertBlocker, ResolveBlocker, Query, Judge, CallRaises, At, Op, CallType
      <4>2. CASE Request(h)
        BY <1>1, <2>8, <4>2 DEF Request, Goto
      <4>3. CASE Handle(h)
        <5>1. /\ pc[h] = "session" => Op(h) = "answer"
              /\ pc[h] = "stop" => Op(h) \in Pauses
              /\ pc[h] = "steer" => Op(h) = "steer"
          BY DEF Types, HandlerInv
        <5>4. pc[h] # "unused"
          BY <3>3, <4>3 DEF Handle, Pause, WorkersStopped, Resume, Answer, AnswerSession,
             WriteSession,
             Steer, InsertBlocker, ResolveBlocker, Query, Judge, CallRaises, At, LanePlaces
        <5>2. Op(h) \in Cancels
          <6>1. Op(h)' \in Cancels
            BY <2>8
          <6> QED
            BY <4>1, <5>4, <6>1
        <5>3. pc'[h] \notin {"row", "ended"}
          <6>2. ~Pause(h) /\ ~Resume(h) /\ ~Answer(h) /\ ~Judge(h) /\ ~Steer(h)
            BY <5>1, <5>2 DEF Pause, Resume, Answer, Judge, Steer, At, Cancels, Pauses
          <6>3. ~WorkersStopped(h) /\ ~AnswerSession(h)
            BY <5>1, <5>2 DEF WorkersStopped, AnswerSession, WriteSession, At, Cancels, Pauses
          <6>4. InsertBlocker(h) \/ ResolveBlocker(h) \/ Query(h) \/ CallRaises(h)
            BY <3>3, <4>3, <6>2, <6>3 DEF Handle
          <6> QED
            BY <1>1, <6>4 DEF InsertBlocker, ResolveBlocker, Query, CallRaises, Goto
        <5> QED
          BY <2>8, <5>3
      <4> QED
        BY <1>4, <4>2, <4>3
    <3> QED
      BY <3>1, <3>2, <3>3
  <2> QED
    BY <2>7, <2>8 DEF StickInv
<1>5. CASE UNCHANGED vars
  BY <1>5 DEF vars, StickInv, Doomed, Op, Arg
<1> QED
  BY <1>2, <1>3, <1>4, <1>5 DEF Next

\* What a cancellation of the task has come to stays, if no blocker is resolved: with
\* a free lane, or one start, the task has written neither passed nor failed since.
THEOREM CancellationsStick ==
  Exclusive /\ "resolve" \notin Ops => (Spec => []CancelSticks)
<1> SUFFICES ASSUME Exclusive, "resolve" \notin Ops PROVE Spec => []CancelSticks
  OBVIOUS
<1>1. StickInv => CancelSticks
  BY DEF StickInv, CancelSticks
<1> QED
  BY <1>1, InitTypes, StepTypes, InitTasks, StepTasks, InitStick, StepNoEnd, StepStick, PTL DEF Spec

-----------------------------------------------------------------------------
(* A pause holds *)

\* A call that has not arrived has no operation, and a start that has not no mode.
FreshInv ==
  /\ \A h \in Calls : pc[h] = "unused" => Op(h) = None
  /\ \A s \in Starts : pc[s] = "unused" => mode[s] = "auto"

\* An urgent message is the work of a call that steers.
UrgentInv ==
  urgent \/ (\E s \in Starts : pc[s] = "preempt") => \E h \in Calls : Op(h) = "steer"

\* A pause has set the flag, and no call undoes it.
Undone == \E h \in Calls : Op(h) \in Resumes \/ (Op(h) = "mcp_cancel" /\ Arg(h) = None)
Set(h) == Op(h) \in Pauses /\ pc[h] \in {"stop", "row", "ended"}

\* Then the flag is still set, or the task is about to end.
HoldInv ==
  ~Undone /\ (\E h \in Calls : Set(h)) =>
    \A s \in Starts : mode[s] = "auto" =>
      paused \/ Doomed(s) \/ pc[s] \in {"fail row", "fail session", "fail done", "fail notice"}

LEMMA InitHold == Init => FreshInv /\ UrgentInv /\ HoldInv
<1> SUFFICES ASSUME Init PROVE FreshInv /\ UrgentInv /\ HoldInv
  OBVIOUS
<1>1. \A h \in Calls : Op(h) = None /\ pc[h] = "unused"
  BY DEF Init, Op
<1>2. FreshInv
  BY <1>1 DEF Init, FreshInv
<1>3. UrgentInv
  BY DEF Init, UrgentInv
<1>4. HoldInv
  BY <1>1 DEF HoldInv, Set
<1> QED
  BY <1>2, <1>3, <1>4

\* The operation of a call stays as it arrived.
LEMMA OpsStay ==
  ASSUME Types, [Next]_vars, NEW h \in Calls, Op(h) # None, FreshInv
  PROVE  Op(h)' = Op(h)
<1>1. call \in [Calls -> CallType] /\ pc[h] # "unused"
  BY DEF Types, FreshInv
<1>2. ASSUME NEW g \in Calls, Request(g) PROVE Op(h)' = Op(h)
  BY <1>1, <1>2 DEF Request, At, Op
<1>3. ASSUME NEW g \in Calls, Handle(g) PROVE Op(h)' = Op(h)
  BY <1>1, <1>3 DEF Handle, Pause, WorkersStopped, Resume, Cancel, Answer, AnswerSession,
     Steer, InsertBlocker, ResolveBlocker, Query, Judge, WriteCallRow, CallRaises, Op, CallType
<1>4. ASSUME NEW s \in Starts, Start(s) \/ Run(s) PROVE Op(h)' = Op(h)
  BY <1>4, StartPlaces, RunFrame DEF Op
<1> QED
  BY <1>2, <1>3, <1>4 DEF Next, vars, Op

LEMMA StepFresh ==
  ASSUME Types, FreshInv, [Next]_vars
  PROVE  FreshInv'
<1>1. pc \in [Starts \cup Calls -> Places] /\ call \in [Calls -> CallType]
      /\ mode \in [Starts -> Modes \cup {"auto"}]
  BY DEF Types, TypeOK
<1>2. ASSUME NEW s \in Starts, Start(s) PROVE FreshInv'
  <2>1. call' = call /\ \E place \in {"create session", "refused", "start row", "create task", "created"} :
                          pc' = [pc EXCEPT ![s] = place]
    BY <1>2, StartPlaces
  <2>2. \A r \in Starts \ {s} : mode'[r] = mode[r]
    BY <1>1, <1>2 DEF Start, StartRequest, StartCheck, StartRow, CreateTask, StartRaises, task_vars
  <2> QED
    BY <1>1, <2>1, <2>2, ActorsAssumption DEF FreshInv, Op
<1>3. ASSUME NEW s \in Starts, Run(s) PROVE FreshInv'
  <2>1. call' = call /\ mode' = mode /\ \E place \in Live \cup {"ended"} : pc' = [pc EXCEPT ![s] = place]
    BY <1>3, RunFrame, RunPlaces
  <2> QED
    BY <1>1, <2>1, ActorsAssumption DEF FreshInv, Op, Live, Trying, Handling
<1>4. ASSUME NEW h \in Calls, Request(h) \/ Handle(h) PROVE FreshInv'
  <2>1. \A b \in (Starts \cup Calls) \ {h} : pc'[b] = pc[b]
    BY <1>4, CallRests
  <2>2. \A g \in Calls \ {h} : call'[g] = call[g]
    BY <1>1, <1>4 DEF Request, Handle, Pause, WorkersStopped, Resume, Cancel, Answer, AnswerSession,
       Steer, InsertBlocker, ResolveBlocker, Query, Judge, WriteCallRow, CallRaises
  <2>3. mode' = mode /\ pc'[h] # "unused"
    BY <1>1, <1>4, CallFrame DEF CallPlaces
  <2> QED
    BY <2>1, <2>2, <2>3, ActorsAssumption DEF FreshInv, Op
<1>5. CASE UNCHANGED vars
  BY <1>5 DEF vars, FreshInv, Op
<1> QED
  BY <1>2, <1>3, <1>4, <1>5 DEF Next

LEMMA StepUrgent ==
  ASSUME Types, FreshInv, UrgentInv, [Next]_vars
  PROVE  UrgentInv'
<1>1. ASSUME \E h \in Calls : Op(h) = "steer" PROVE UrgentInv'
  BY <1>1, OpsStay DEF UrgentInv, None
<1>2. ASSUME ~urgent, \A s \in Starts : pc[s] # "preempt", \A h \in Calls : Op(h) # "steer"
      PROVE  ~urgent' /\ \A s \in Starts : pc'[s] # "preempt"
  <2>1. pc \in [Starts \cup Calls -> Places]
    BY DEF Types, TypeOK
  <2>2. ASSUME NEW s \in Starts, Start(s)
        PROVE  ~urgent' /\ \A r \in Starts : pc'[r] # "preempt"
    BY <1>2, <2>1, <2>2, StartPlaces
  <2>3. ASSUME NEW s \in Starts, Run(s)
        PROVE  ~urgent' /\ \A r \in Starts : pc'[r] # "preempt"
    <3>1. ~urgent'
      BY <1>2, <2>3, RunFrame
    <3>3. PICK place : pc' = [pc EXCEPT ![s] = place]
      BY <2>3, RunPlaces
    <3>2. pc'[s] # "preempt"
      BY <1>2, <2>1, <2>3
      DEF Run, FirstStep, Wake, Preempted, StagePassed, BrowserPassed, StageFailed, WriteTaskRow,
          WriteTaskSession,
          EmitDone, NoticeSent, TaskRaises, Cancelled, Ask, Answered, TimedOut, Complete, At, Runs,
          Goto, Loop, WriteRow,
          WriteSession
    <3> QED
      BY <1>2, <2>1, <3>1, <3>2, <3>3
  <2>4. ASSUME NEW h \in Calls, Request(h) \/ Handle(h)
        PROVE  ~urgent' /\ \A r \in Starts : pc'[r] # "preempt"
    <3>1. pc[h] # "steer"
      BY <1>2 DEF Types, HandlerInv
    <3>2. urgent' = urgent
      BY <1>2, <2>4, <3>1 DEF Request, Handle, Pause, WorkersStopped, Resume, Cancel, Answer,
         AnswerSession, Steer, InsertBlocker, ResolveBlocker, Query, Judge, WriteCallRow,
         CallRaises, At
    <3> QED
      BY <1>2, <2>4, <3>2, CallRests, ActorsAssumption
  <2> QED
    BY <1>2, <2>2, <2>3, <2>4 DEF Next, vars
<1> QED
  BY <1>1, <1>2 DEF UrgentInv

\* The places of the handler for a stage that failed.
Failing == {"fail row", "fail session", "fail done", "fail notice"}

\* One start: every step keeps a pause held.
LEMMA StepHold ==
  ASSUME \A r, s \in Starts : r = s, Types, Tasks, FreshInv, UrgentInv, HoldInv, [Next]_vars
  PROVE  HoldInv'
<1> SUFFICES ASSUME ~Undone', NEW h \in Calls, Set(h)', NEW s \in Starts, mode'[s] = "auto"
             PROVE  paused' \/ Doomed(s)' \/ pc'[s] \in Failing
  BY DEF HoldInv, Failing
<1>1. pc \in [Starts \cup Calls -> Places] /\ call \in [Calls -> CallType]
      /\ task \in Starts \cup {None} /\ mode \in [Starts -> Modes \cup {"auto"}]
      /\ cancelling \in [Starts -> BOOLEAN] /\ paused \in BOOLEAN
  BY DEF Types, TypeOK
<1>2. ASSUME ~Undone, Set(h), mode[s] = "auto"
      PROVE  paused \/ Doomed(s) \/ pc[s] \in Failing
  BY <1>2 DEF HoldInv, Failing
<1>3. ASSUME call' = call, pc'[h] = pc[h] PROVE ~Undone /\ Set(h)
  BY <1>3 DEF Undone, Set, Op, Arg
<1>4. CASE Start(s)
  <2>1. call' = call /\ paused' = paused /\ pc[s] \in {"unused", "create session", "start row", "create task"}
    BY <1>4, StartPlaces
  <2>2. pc'[h] = pc[h]
    <3>1. PICK place : pc' = [pc EXCEPT ![s] = place]
      BY <1>4, StartPlaces
    <3>2. h # s
      BY ActorsAssumption
    <3> QED
      BY <1>1, <3>1, <3>2
  <2>3. mode[s] = "auto"
    <3>1. CASE StartRequest(s)
      BY <3>1 DEF StartRequest, At, FreshInv
    <3>2. CASE StartCheck(s) \/ StartRow(s) \/ CreateTask(s) \/ StartRaises(s)
      BY <3>2 DEF StartCheck, StartRow, CreateTask, StartRaises, task_vars
    <3> QED
      BY <1>4, <3>1, <3>2 DEF Start
  <2>4. ~Doomed(s) /\ pc[s] \notin Failing
    BY <2>1 DEF Doomed, Failing, Live, Trying, Handling
  <2> QED
    BY <1>2, <1>3, <2>1, <2>2, <2>3, <2>4
<1>5. CASE Run(s)
  <2>1. call' = call /\ mode' = mode
    BY <1>5, RunFrame
  <2>2. PICK place : pc' = [pc EXCEPT ![s] = place]
    BY <1>5, RunPlaces
  <2>3. pc'[h] = pc[h]
    BY <1>1, <2>2, ActorsAssumption
  <2>4. ~Undone /\ (paused \/ Doomed(s) \/ pc[s] \in Failing)
    BY <1>2, <1>3, <2>1, <2>3
  <2>5. CASE Doomed(s)
    BY <1>5, <2>5, DoomedStays
  <2>6. CASE pc[s] \in Failing
    <3>1. pc'[s] \in Failing \cup {"ended"}
      <4>1. WriteTaskRow(s) \/ WriteTaskSession(s) \/ EmitDone(s) \/ NoticeSent(s)
            \/ TaskRaises(s) \/ Cancelled(s)
        BY <1>5, <2>6 DEF Failing, Run, FirstStep, Wake, Preempted, StagePassed, BrowserPassed,
           StageFailed, Ask,
           Answered, TimedOut, Complete, Runs, At
      <4> QED
        BY <1>1, <2>6, <4>1 DEF Failing, WriteTaskRow, WriteTaskSession, EmitDone, NoticeSent,
           TaskRaises, Cancelled, Runs,
           At, Goto, WriteRow, WriteSession, Trying
    <3> QED
      BY <3>1 DEF Doomed
  <2>7. CASE paused
    <3>1. ~Preempted(s)
      BY <2>4 DEF Preempted, Runs, At, UrgentInv, Undone, Resumes
    <3>2. ~TimedOut(s) /\ ~Complete(s)
      BY <2>1 DEF TimedOut, Complete
    <3>3. paused' \/ pc'[s] = "fail row"
      <4>1. CASE FirstStep(s) \/ Wake(s) \/ StagePassed(s) \/ EmitDone(s) \/ Cancelled(s)
        BY <2>7, <4>1 DEF FirstStep, Wake, StagePassed, EmitDone, Cancelled
      <4>5. CASE BrowserPassed(s) \/ NoticeSent(s) \/ TaskRaises(s)
        BY <1>1, <2>7, <4>5 DEF BrowserPassed, NoticeSent, TaskRaises, Goto
      <4>2. CASE StageFailed(s) \/ WriteTaskRow(s)
        BY <1>1, <2>7, <4>2 DEF StageFailed, WriteTaskRow, Goto
      <4>3. CASE WriteTaskSession(s)
        BY <1>1, <2>7, <4>3 DEF WriteTaskSession, WriteSession, Goto
      <4>4. CASE Ask(s) \/ Answered(s)
        BY <2>7, <4>4 DEF Ask, Answered
      <4> QED
        BY <1>5, <3>1, <3>2, <4>1, <4>2, <4>3, <4>4, <4>5 DEF Run
    <3> QED
      BY <3>3 DEF Failing
  <2> QED
    BY <2>4, <2>5, <2>6, <2>7
<1>6. ASSUME NEW g \in Calls, Request(g) PROVE paused' \/ Doomed(s)' \/ pc'[s] \in Failing
  <2>1. pc'[g] \notin {"stop", "row", "ended"} /\ pc[g] = "unused"
    BY <1>1, <1>6 DEF Request, Goto, At
  <2>2. \A b \in (Starts \cup Calls) \ {g} : pc'[b] = pc[b]
    BY <1>6, CallRests
  <2>3. \A k \in Calls \ {g} : call'[k] = call[k]
    BY <1>1, <1>6 DEF Request
  <2>4. UNCHANGED <<mode, cancelling>>
    BY <1>6 DEF Request, task_vars
  <2>5. g # h /\ Set(h)
    BY <2>1, <2>2, <2>3 DEF Set, Op
  <2>6. ~Undone
    BY <2>1, <2>3 DEF Undone, FreshInv, Op, Arg, Resumes, None
  <2>7. paused' = paused
    <3>1. PICK o \in Ops : paused' = (paused /\ o # "resume") /\ Op(g)' = o
      BY <1>1, <1>6 DEF Request, Op
    <3>2. o # "resume"
      BY <3>1 DEF Undone, Resumes
    <3> QED
      BY <1>1, <3>1, <3>2
  <2>8. pc'[s] = pc[s]
    BY <2>2, ActorsAssumption
  <2> QED
    BY <1>2, <2>4, <2>5, <2>6, <2>7, <2>8 DEF Doomed
<1>7. ASSUME NEW g \in Calls, Handle(g) PROVE paused' \/ Doomed(s)' \/ pc'[s] \in Failing
  <2>1. \A b \in (Starts \cup Calls) \ {g} : pc'[b] = pc[b]
    BY <1>7, CallRests
  <2>2. \A k \in Calls \ {g} : call'[k] = call[k]
    BY <1>1, <1>7 DEF Handle, Pause, WorkersStopped, Resume, Cancel, Answer, AnswerSession,
       Steer, InsertBlocker, ResolveBlocker, Query, Judge, WriteCallRow, CallRaises
  <2>3. pc'[s] = pc[s] /\ mode' = mode
    BY <1>7, <2>1, CallFrame, ActorsAssumption
  <2>4. Op(g)' = Op(g)
    BY <1>1, <1>7 DEF Handle, Pause, WorkersStopped, Resume, Cancel, Answer, AnswerSession, Op,
       Steer, InsertBlocker, ResolveBlocker, Query, Judge, WriteCallRow, CallRaises, CallType
  <2>5. CASE Pause(g)
    BY <2>5 DEF Pause
  <2>6. ~Resume(g) /\ ~Answer(g)
    BY <2>4 DEF Resume, Answer, Undone, Resumes
  <2>7. CASE Cancel(g)
    <3>1. Arg(g)' = task /\ Op(g) \in Cancels /\ paused' = (paused /\ Op(g) = "cancel")
      BY <1>1, <2>7 DEF Cancel, Arg, CallType, Cancels
    <3>2. CASE Op(g) = "mcp_cancel"
      <4>1. task = s
        BY <1>1, <2>4, <3>1, <3>2 DEF Undone
      <4>2. pc[s] \in Live \/ pc[s] = "ended"
        BY <4>1, ActorsAssumption DEF Tasks, LiveInv
      <4>3. pc[s] \in Live => cancelling'[s]
        BY <2>7, <4>1 DEF Cancel
      <4> QED
        BY <2>3, <4>2, <4>3 DEF Doomed
    <3>3. CASE Op(g) = "cancel"
      <4>1. ~Undone
        BY <2>2, <2>4, <3>3 DEF Undone, Resumes, Op, Arg
      <4>2. Set(h)
        BY <2>1, <2>2, <2>4, <3>3 DEF Set, Op, Pauses
      <4>3. Doomed(s) => Doomed(s)'
        BY <2>3, <2>7 DEF Doomed, Cancel
      <4>4. paused' = paused
        BY <1>1, <3>1, <3>3
      <4> QED
        BY <1>2, <2>3, <4>1, <4>2, <4>3, <4>4
    <3> QED
      BY <3>1, <3>2, <3>3 DEF Cancels
  <2>8. CASE WorkersStopped(g) \/ AnswerSession(g) \/ Steer(g) \/ InsertBlocker(g)
             \/ ResolveBlocker(g) \/ Query(g) \/ Judge(g) \/ WriteCallRow(g) \/ CallRaises(g)
    <3>1. UNCHANGED <<paused, cancelling>>
      BY <2>8 DEF WorkersStopped, AnswerSession, Steer, InsertBlocker, ResolveBlocker, Query, Judge,
         WriteCallRow, CallRaises, task_vars
    <3>2. Arg(g)' = Arg(g)
      BY <1>1, <2>8 DEF WorkersStopped, AnswerSession, Steer, InsertBlocker, ResolveBlocker, Query,
         Judge, WriteCallRow, CallRaises, Arg, CallType
    <3>3. ~Undone
      BY <2>2, <2>4, <3>2 DEF Undone, Op, Arg
    <3>4. Set(g)' => pc[g] \in {"stop", "row"}
      <4> SUFFICES ASSUME Set(g)' PROVE pc[g] \in {"stop", "row"}
        OBVIOUS
      <4>1. Op(g) \in Pauses /\ pc'[g] \in {"stop", "row", "ended"}
        BY <2>4 DEF Set
      <4>2. ~Steer(g) /\ ~AnswerSession(g) /\ ~Judge(g)
        BY <4>1 DEF Steer, AnswerSession, Judge, WriteSession, At, Types, HandlerInv, Pauses
      <4>3. ~InsertBlocker(g) /\ ~ResolveBlocker(g) /\ ~Query(g) /\ ~CallRaises(g)
        BY <1>1, <4>1 DEF InsertBlocker, ResolveBlocker, Query, CallRaises, Goto
      <4> QED
        BY <2>8, <4>2, <4>3 DEF WorkersStopped, WriteCallRow, WriteRow, At
    <3>5. Set(h)
      BY <2>1, <2>2, <2>4, <3>4 DEF Set, Op
    <3> QED
      BY <1>2, <2>3, <3>1, <3>3, <3>5 DEF Doomed
  <2> QED
    BY <1>7, <2>5, <2>6, <2>7, <2>8 DEF Handle
<1>8. CASE UNCHANGED vars
  BY <1>2, <1>3, <1>8 DEF vars, Doomed
<1> QED
  BY <1>4, <1>5, <1>6, <1>7, <1>8 DEF Next

\* Then no step is the start of a stage.
LEMMA StepPause ==
  ASSUME \A r, s \in Starts : r = s, Types, UrgentInv, HoldInv, [Next]_vars,
         NEW s \in Starts, mode[s] = "auto"
  PROVE  ~OverridesPause(s)
<1> SUFFICES ASSUME OverridesPause(s) PROVE FALSE
  OBVIOUS
<1>1. ran \in [Starts -> 0 .. MaxStages] /\ MaxStages \in Nat /\ ran'[s] > ran[s]
  BY StagesAssumption DEF Types, TypeOK, OverridesPause
<1>2. ran' # ran
  BY <1>1
<1>3. ~Undone /\ \E h \in Calls : Set(h)
  BY DEF OverridesPause, PauseStands, Undone, Set
<1>4. paused \/ Doomed(s) \/ pc[s] \in Failing
  BY <1>3 DEF HoldInv, Failing
<1>5. Run(s)
  BY <1>2, StartPlaces, CallFrame DEF Next, vars
<1>6. FirstStep(s) \/ Wake(s) \/ Preempted(s) \/ StagePassed(s)
  BY <1>2, <1>5 DEF Run, BrowserPassed, StageFailed, WriteTaskRow, WriteTaskSession, EmitDone,
     NoticeSent,
     TaskRaises, Cancelled, Ask, Answered, TimedOut, Complete, task_vars
<1>7. ~Preempted(s)
  BY <1>3 DEF Preempted, Runs, At, UrgentInv, Undone, Resumes
<1>8. ~cancelling[s] /\ pc[s] \in {"created", "paused", "stage"} /\ ~paused
  BY <1>2, <1>6, <1>7 DEF FirstStep, Wake, StagePassed, Runs, At, Loop
<1> QED
  BY <1>4, <1>8 DEF Doomed, Failing

\* After a pause was acknowledged, and unless a call resumes the run, no stage of the loop
\* of an automatic run begins, for any stages, calls, waits for the lane and failed
\* writes.
THEOREM PausesHold == (\A r, s \in Starts : r = s) => (Spec => PauseHolds)
<1> SUFFICES ASSUME \A r, s \in Starts : r = s PROVE Spec => PauseHolds
  OBVIOUS
<1>1. Exclusive
  BY DEF Exclusive
<1>2. Types /\ UrgentInv /\ HoldInv /\ [Next]_vars =>
        [\A s \in Starts : mode[s] = "auto" => ~OverridesPause(s)]_vars
  BY StepPause
<1> QED
  BY <1>1, <1>2, InitTypes, StepTypes, InitTasks, StepTasks, InitHold, StepFresh, StepUrgent,
     StepHold,
     PTL DEF Spec, PauseHolds

-----------------------------------------------------------------------------
(* A run that is held says so *)

\* No call writes the status whatever the flag is.
Heeding == \A h \in Calls : Op(h) \notin {"resume", "blocker", "resolve"}
Alone(s) == \A r \in Starts \ {s} : pc[r] = "unused"

\* Where the flag holds the task, or will at its next stage.
Held == {"created", "paused", "stage", "browser", "wait"}

\* What the handler that is about to write the row knows: a pause writes paused, whatever
\* the flag is by now; the others have dropped the flag, or cancelled the task.
Informed(s) ==
  \A h \in Calls : pc[h] = "row" =>
    \/ Op(h) \in Pauses
    \/ Op(h) \in {"mcp_resume", "answer"} /\ ~paused
    \/ Op(h) \in Cancels /\ (pc[s] \in Held => cancelling[s])

\* The row of a held run is paused but while a pause, or the interview, is between the
\* flag and the row; and then whoever else is to write has the event loop.
Matched(s) ==
  /\ pc[s] \in {"unused", "create session", "start row"} => ~paused /\ status = "absent"
  /\ pc[s] = "create task" => ~paused
  /\ pc[s] \in Held /\ ~cancelling[s] /\ (\A h \in Calls : pc[h] \notin {"stop", "row"}) =>
       (paused => status = "paused")
  /\ pc[s] = "ask session" => status = "paused"
  /\ pc[s] \in {"interviewed row", "interviewed session"} => ~paused
  /\ Informed(s)

MatchInv == Heeding => \A s \in Starts : Alone(s) => Matched(s)

LEMMA InitMatch == Init => MatchInv
<1> SUFFICES ASSUME Init PROVE MatchInv
  OBVIOUS
<1>1. \A a \in Starts \cup Calls : pc[a] = "unused"
  BY DEF Init
<1>2. \A s \in Starts : Matched(s)
  BY <1>1 DEF Init, Matched, Informed, Held
<1> QED
  BY <1>2 DEF MatchInv

\* A start that no other has followed is not followed by one when others go on.
LEMMA StaysAlone ==
  ASSUME Types, [Next]_vars, NEW s \in Starts, Alone(s)'
  PROVE  /\ Alone(s)
         /\ \A r \in Starts : Start(r) \/ Run(r) => r = s
<1>1. pc \in [Starts \cup Calls -> Places]
  BY DEF Types, TypeOK
<1>2. \A r \in Starts \ {s} : pc'[r] = "unused"
  BY DEF Alone
<1>3. ASSUME NEW r \in Starts, Start(r) PROVE r = s /\ Alone(s)
  <2>1. PICK place \in {"create session", "refused", "start row", "create task", "created"} :
          pc' = [pc EXCEPT ![r] = place]
    BY <1>3, StartPlaces
  <2>2. pc'[r] # "unused" /\ \A q \in Starts \ {r} : pc'[q] = pc[q]
    BY <1>1, <2>1
  <2> QED
    BY <1>2, <2>2 DEF Alone
<1>4. ASSUME NEW r \in Starts, Run(r) PROVE r = s /\ Alone(s)
  <2>1. PICK place \in (Live \cup {"ended"}) \ {"created"} : pc' = [pc EXCEPT ![r] = place]
    BY <1>4, RunPlaces
  <2>2. pc'[r] # "unused" /\ \A q \in Starts \ {r} : pc'[q] = pc[q]
    BY <1>1, <2>1 DEF Live, Trying, Handling
  <2> QED
    BY <1>2, <2>2 DEF Alone
<1>5. ASSUME NEW h \in Calls, Request(h) \/ Handle(h) PROVE Alone(s)
  BY <1>2, <1>5, CallRests, ActorsAssumption DEF Alone
<1>6. ASSUME UNCHANGED vars PROVE Alone(s)
  BY <1>2, <1>6 DEF Alone, vars
<1>7. Alone(s)
  BY <1>3, <1>4, <1>5, <1>6 DEF Next
<1>8. \A r \in Starts : Start(r) \/ Run(r) => r = s
  BY <1>3, <1>4
<1> QED
  BY <1>7, <1>8

\* With a free lane no handler is about to write while another coroutine runs.
LEMMA OthersOut ==
  ASSUME ~LaneBusy, NEW a \in Starts \cup Calls, MayRun(a)
  PROVE  \A b \in (Starts \cup Calls) \ {a} : pc[b] \notin LanePlaces
BY DEF MayRun

LEMMA StartMatch ==
  ASSUME ~LaneBusy, Types, NEW s \in Starts, Matched(s), Start(s)
  PROVE  Matched(s)'
<1>1. pc \in [Starts \cup Calls -> Places]
  BY DEF Types, TypeOK
<1>2. /\ MayRun(s) /\ pc[s] \in {"unused", "create session", "start row", "create task"}
      /\ UNCHANGED <<paused, cancelling, call>>
      /\ \E place \in {"create session", "refused", "start row", "create task", "created"} :
           pc' = [pc EXCEPT ![s] = place]
  BY StartPlaces
<1>3. \A h \in Calls : pc'[h] = pc[h] /\ pc[h] # "row"
  <2>1. \A h \in Calls : pc[h] \notin LanePlaces
    BY <1>2, OthersOut, ActorsAssumption
  <2> QED
    BY <1>1, <1>2, <2>1, ActorsAssumption DEF LanePlaces
<1>4. Informed(s)'
  BY <1>3 DEF Informed
<1>5. CASE StartRequest(s) \/ StartCheck(s)
  <2>1. pc[s] \in {"unused", "create session"} /\ pc'[s] \in {"create session", "refused", "start row"}
        /\ status' = status
    BY <1>1, <1>5 DEF StartRequest, StartCheck, At, Goto
  <2> QED
    BY <1>2, <1>4, <2>1 DEF Matched, Held
<1>6. CASE StartRow(s)
  <2>1. pc[s] = "start row" /\ pc'[s] = "create task"
    BY <1>1, <1>6 DEF StartRow, WriteRow, At, Goto
  <2> QED
    BY <1>2, <1>4, <2>1 DEF Matched, Held
<1>7. CASE CreateTask(s)
  <2>1. pc[s] = "create task" /\ pc'[s] = "created"
    BY <1>1, <1>7 DEF CreateTask, At, Goto
  <2> QED
    BY <1>2, <1>4, <2>1 DEF Matched, Held
<1>8. ~StartRaises(s)
  BY DEF StartRaises
<1> QED
  BY <1>5, <1>6, <1>7, <1>8 DEF Start

LEMMA RunMatch ==
  ASSUME ~LaneBusy, Types, NEW s \in Starts, Matched(s), Run(s)
  PROVE  Matched(s)'
<1>1. pc \in [Starts \cup Calls -> Places]
  BY DEF Types, TypeOK
<1>2. MayRun(s) /\ call' = call
  BY RunMay, RunFrame
<1>3. \A h \in Calls : pc'[h] = pc[h] /\ pc[h] # "row"
  <2>1. \A h \in Calls : pc[h] \notin LanePlaces
    BY <1>2, OthersOut, ActorsAssumption
  <2>2. \E place : pc' = [pc EXCEPT ![s] = place]
    BY RunPlaces
  <2> QED
    BY <1>1, <2>1, <2>2, ActorsAssumption DEF LanePlaces
<1>4. Informed(s)'
  BY <1>3 DEF Informed
\* Within the stages nothing is written,
<1>5. ASSUME pc[s] \in Held, pc'[s] \in {"paused", "stage", "browser"}, ~cancelling[s],
             paused' = paused, status' = status
      PROVE  Matched(s)'
  BY <1>3, <1>4, <1>5 DEF Matched
\* and of what is over, or about to drop the flag, nothing is known.
<1>6. ASSUME pc'[s] \in {"preempt", "ask row", "pass row", "pass session", "pass done", "pass notice",
                         "fail row", "fail session", "fail done", "fail notice", "cancel row",
                         "cancel session", "timeout row", "timeout session", "ended"}
      PROVE  Matched(s)'
  BY <1>4, <1>6 DEF Matched, Held
<1> USE DEF At, Goto, Runs, Loop, WriteRow, WriteSession
<1>7. CASE FirstStep(s)
  <2>1. pc[s] \in Held /\ pc'[s] \in {"paused", "stage"} /\ ~cancelling[s]
        /\ paused' = paused /\ status' = status
    BY <1>1, <1>7 DEF FirstStep, Held
  <2> QED
    BY <1>5, <2>1
<1>8. CASE Wake(s)
  <2>1. \/ pc'[s] = "preempt"
        \/ /\ pc[s] \in Held /\ pc'[s] \in {"paused", "stage"} /\ ~cancelling[s]
           /\ paused' = paused /\ status' = status
    BY <1>1, <1>8 DEF Wake, Held
  <2> QED
    BY <1>5, <1>6, <2>1
<1>9. CASE StagePassed(s)
  <2>1. \/ pc'[s] = "pass row"
        \/ /\ pc[s] \in Held /\ pc'[s] \in {"paused", "stage", "browser"} /\ ~cancelling[s]
           /\ paused' = paused /\ status' = status
    BY <1>1, <1>9 DEF StagePassed, Held
  <2> QED
    BY <1>5, <1>6, <2>1
<1>10. CASE Answered(s)
  <2>1. pc[s] \in Held /\ pc'[s] = "stage" /\ ~cancelling[s] /\ paused' = paused /\ status' = status
    BY <1>1, <1>10 DEF Answered, Held
  <2> QED
    BY <1>5, <2>1
<1>11. CASE StageFailed(s) \/ TimedOut(s) \/ Ask(s) \/ BrowserPassed(s)
  <2>1. pc'[s] \in {"fail row", "timeout row", "ask row", "pass row"}
    BY <1>1, <1>11 DEF StageFailed, TimedOut, Ask, BrowserPassed
  <2> QED
    BY <1>6, <2>1
<1>12. CASE EmitDone(s) \/ NoticeSent(s) \/ Cancelled(s)
  <2>1. pc'[s] \in {"pass notice", "fail notice", "cancel row", "ended"}
    BY <1>1, <1>12 DEF EmitDone, NoticeSent, Cancelled
  <2> QED
    BY <1>6, <2>1
<1>13. CASE WriteTaskRow(s)
  <2>1. /\ paused' = paused
        /\ \/ pc'[s] \in {"pass session", "fail session", "cancel session", "timeout session"}
           \/ pc[s] = "ask row" /\ pc'[s] = "ask session" /\ status' = "paused"
           \/ pc[s] = "interviewed row" /\ pc'[s] = "interviewed session"
    BY <1>1, <1>13 DEF WriteTaskRow
  <2>2. CASE pc[s] = "ask row" /\ pc'[s] = "ask session" /\ status' = "paused"
    BY <1>4, <2>2 DEF Matched, Held
  <2>3. CASE pc[s] = "interviewed row" /\ pc'[s] = "interviewed session"
    BY <1>4, <2>1, <2>3 DEF Matched, Held
  <2> QED
    BY <1>6, <2>1, <2>2, <2>3
<1>14. CASE WriteTaskSession(s)
  <2>1. \/ pc'[s] \in {"pass done", "fail done", "ended", "fail row"}
        \/ pc[s] = "ask session" /\ pc'[s] = "wait" /\ status' = status
        \/ pc[s] = "interviewed session" /\ pc'[s] = "stage" /\ paused' = paused
    BY <1>1, <1>14 DEF WriteTaskSession
  <2>2. CASE pc[s] = "ask session" /\ pc'[s] = "wait" /\ status' = status
    BY <1>4, <2>2 DEF Matched
  <2>3. CASE pc[s] = "interviewed session" /\ pc'[s] = "stage" /\ paused' = paused
    BY <1>4, <2>3 DEF Matched
  <2> QED
    BY <1>6, <2>1, <2>2, <2>3
<1>15. CASE Preempted(s)
  <2>1. pc'[s] = "stage" /\ ~paused'
    BY <1>1, <1>15 DEF Preempted
  <2> QED
    BY <1>4, <2>1 DEF Matched
<1>16. CASE Complete(s)
  <2>1. pc'[s] = "interviewed row" /\ ~paused'
    BY <1>1, <1>16 DEF Complete
  <2> QED
    BY <1>4, <2>1 DEF Matched, Held
<1>17. ~TaskRaises(s)
  BY DEF TaskRaises
<1> QED
  BY <1>7, <1>8, <1>9, <1>10, <1>11, <1>12, <1>13, <1>14, <1>15, <1>16, <1>17 DEF Run

LEMMA CallMatch ==
  ASSUME ~LaneBusy, Types, Tasks, Heeding, Heeding', NEW s \in Starts, Matched(s),
         NEW h \in Calls, Request(h) \/ Handle(h)
  PROVE  Matched(s)'
<1>1. pc \in [Starts \cup Calls -> Places] /\ call \in [Calls -> CallType]
      /\ paused \in BOOLEAN /\ cancelling \in [Starts -> BOOLEAN]
  BY DEF Types, TypeOK
<1>2. \A b \in (Starts \cup Calls) \ {h} : pc'[b] = pc[b]
  BY CallRests
<1>3. pc'[s] = pc[s]
  BY <1>2, ActorsAssumption
<1>4. Op(h) \notin {"resume", "blocker", "resolve"}
  BY DEF Heeding
<1>5. status # "absent"
  BY DEF Request, Handle, Pause, WorkersStopped, Resume, Cancel, Answer, AnswerSession, Steer,
     InsertBlocker, ResolveBlocker, Query, Judge, WriteCallRow, CallRaises, LanePlaces, At,
     WriteRow,
     WriteSession, Types, HandlerInv
<1>6. pc[s] \notin {"unused", "create session", "start row"}
  BY <1>5 DEF Matched
\* A handler that has no business with the row,
<1>7. ASSUME UNCHANGED <<paused, status, cancelling>>, pc[h] \notin {"stop", "row"},
             pc'[h] \notin {"stop", "row"}, \A g \in Calls \ {h} : Op(g)' = Op(g)
      PROVE  Matched(s)'
  <2>1. \A g \in Calls : pc'[g] \notin {"stop", "row"} => pc[g] \notin {"stop", "row"}
    BY <1>2, <1>7
  <2>2. \A g \in Calls : pc'[g] = "row" => pc[g] = "row" /\ Op(g)' = Op(g)
    BY <1>2, <1>7
  <2>3. Informed(s)'
    BY <1>3, <1>7, <2>2 DEF Matched, Informed
  <2> QED
    BY <1>3, <1>7, <2>1, <2>3 DEF Matched
\* and one that is about to write it,
<1>8. ASSUME MayRun(h), pc'[h] \in {"stop", "row"},
             pc'[h] = "row" =>
               \/ Op(h)' \in Pauses
               \/ Op(h)' \in {"mcp_resume", "answer"} /\ ~paused'
               \/ Op(h)' \in Cancels /\ (pc[s] \in Held => cancelling'[s])
      PROVE  Matched(s)'
  <2>1. \A g \in Calls \ {h} : pc'[g] # "row"
    BY <1>2, <1>8, OthersOut DEF LanePlaces
  <2>2. pc[s] \notin LanePlaces
    BY <1>8, OthersOut, ActorsAssumption
  <2>3. Informed(s)'
    BY <1>3, <1>8, <2>1 DEF Informed
  <2>4. ~(\A g \in Calls : pc[g] \notin {"stop", "row"})'
    BY <1>8
  <2> QED
    BY <1>3, <1>6, <2>2, <2>3, <2>4 DEF Matched, LanePlaces
<1>9. CASE Request(h)
  <2>1. PICK o \in Ops, a \in {None} \cup Starts \cup Calls :
          /\ call' = [call EXCEPT ![h] = [op |-> o, arg |-> a, seen |-> None]]
          /\ pc' = [pc EXCEPT ![h] = IF o \in {"blocker", "warning"} THEN "insert" ELSE "read"]
          /\ paused' = (paused /\ o # "resume")
    BY <1>9 DEF Request, Goto
  <2>2. Op(h)' = o /\ \A g \in Calls \ {h} : Op(g)' = Op(g)
    BY <1>1, <2>1 DEF Op
  <2>3. o # "resume"
    BY <2>2 DEF Heeding
  <2>4. paused' = paused
    BY <1>1, <2>1, <2>3
  <2>5. pc'[h] \notin {"stop", "row"} /\ pc[h] \notin {"stop", "row"}
    BY <1>1, <1>9, <2>1 DEF Request, At
  <2>6. UNCHANGED <<status, cancelling>>
    BY <1>9 DEF Request, task_vars
  <2> QED
    BY <1>7, <2>2, <2>4, <2>5, <2>6
<1> USE DEF At, Goto, task_vars
<1>10. CASE Query(h) \/ ResolveBlocker(h) \/ Steer(h) \/ InsertBlocker(h)
  <2>1. /\ UNCHANGED <<paused, status, cancelling>> /\ pc[h] \notin {"stop", "row"}
        /\ pc'[h] \notin {"stop", "row"} /\ \A g \in Calls \ {h} : call'[g] = call[g]
    BY <1>1, <1>10 DEF Query, ResolveBlocker, Steer, InsertBlocker
  <2> QED
    BY <1>7, <2>1 DEF Op
<1>11. CASE Judge(h) \/ AnswerSession(h)
  <2>1. /\ UNCHANGED <<paused, status, cancelling>> /\ pc[h] \notin {"stop", "row"}
        /\ pc'[h] \notin {"stop", "row"} /\ \A g \in Calls \ {h} : call'[g] = call[g]
    BY <1>1, <1>4, <1>11 DEF Judge, AnswerSession, WriteSession
  <2> QED
    BY <1>7, <2>1 DEF Op
<1>12. CASE Pause(h)
  <2>1. Op(h)' = Op(h) /\ Op(h) \in Pauses /\ MayRun(h)
    BY <1>12 DEF Pause, Op, Pauses
  <2>2. CASE pc'[h] = "ended"
    <3>1. UNCHANGED <<paused, status, cancelling, call>> /\ pc[h] = "read"
      BY <1>1, <1>12, <2>2 DEF Pause
    <3> QED
      BY <1>7, <2>2, <3>1 DEF Op
  <2>3. CASE pc'[h] \in {"stop", "row"}
    BY <1>8, <2>1, <2>3
  <2>4. pc'[h] \in {"ended", "stop", "row"}
    BY <1>1, <1>12 DEF Pause
  <2> QED
    BY <2>2, <2>3, <2>4
<1>13. CASE WorkersStopped(h)
  <2>1. Op(h)' = Op(h) /\ Op(h) \in Pauses /\ MayRun(h) /\ pc'[h] = "row"
    BY <1>1, <1>13 DEF WorkersStopped, Types, HandlerInv, Op
  <2> QED
    BY <1>8, <2>1
<1>14. CASE Resume(h)
  <2>1. Op(h)' = Op(h) /\ Op(h) = "mcp_resume" /\ MayRun(h) /\ pc'[h] = "row" /\ ~paused'
    BY <1>1, <1>4, <1>14 DEF Resume, Op
  <2> QED
    BY <1>8, <2>1
<1>15. CASE Cancel(h)
  <2>1. Op(h) \in Cancels /\ MayRun(h) /\ pc'[h] = "row"
    BY <1>1, <1>15 DEF Cancel, Cancels
  <2>2. Op(h)' = Op(h)
    BY <1>1, <1>15 DEF Cancel, Op, CallType
  <2>3. pc[s] \in Held => cancelling'[s]
    <3>1. pc[s] \in Held => s = task /\ pc[s] \in Live
      BY DEF Tasks, LiveInv, Held, Live, Trying
    <3> QED
      BY <1>15, <3>1 DEF Cancel
  <2> QED
    BY <1>8, <2>1, <2>2, <2>3
<1>16. CASE Answer(h)
  <2>1. Op(h)' = Op(h) /\ Op(h) = "answer" /\ MayRun(h) /\ pc[h] = "read" /\ call' = call
        /\ UNCHANGED <<status, cancelling>>
    BY <1>16 DEF Answer, Op
  <2>2. \/ pc'[h] = "ended" /\ paused' = paused
        \/ pc'[h] = "row" /\ ~paused'
    BY <1>1, <1>16 DEF Answer
  <2>3. CASE pc'[h] = "ended" /\ paused' = paused
    BY <1>7, <2>1, <2>3 DEF Op
  <2>4. CASE pc'[h] = "row" /\ ~paused'
    BY <1>8, <2>1, <2>4
  <2> QED
    BY <2>2, <2>3, <2>4
\* and one that writes.
<1>17. CASE WriteCallRow(h)
  <2>1. /\ pc[h] = "row" /\ MayRun(h) /\ status' = Outcome(h)
        /\ UNCHANGED <<paused, cancelling, call>> /\ pc'[h] \notin {"stop", "row"}
    BY <1>1, <1>17 DEF WriteCallRow, WriteRow
  <2>2. pc[s] \in Held /\ ~cancelling[s] /\ paused => status' = "paused"
    <3>1. pc[s] \in Held /\ ~cancelling[s] /\ paused => Op(h) \in Pauses
      BY <2>1 DEF Matched, Informed
    <3> QED
      BY <2>1, <3>1 DEF Outcome, Pauses
  <2>3. \A g \in Calls : pc'[g] # "row"
    BY <1>2, <2>1, OthersOut DEF LanePlaces
  <2>4. pc[s] \notin LanePlaces
    BY <2>1, OthersOut, ActorsAssumption
  <2>5. Informed(s)'
    BY <2>3 DEF Informed
  <2> QED
    BY <1>3, <1>6, <2>1, <2>2, <2>4, <2>5 DEF Matched, LanePlaces
<1>18. ~CallRaises(h)
  BY DEF CallRaises
<1> QED
  BY <1>9, <1>10, <1>11, <1>12, <1>13, <1>14, <1>15, <1>16, <1>17, <1>18 DEF Handle

LEMMA StepMatch ==
  ~LaneBusy /\ Types /\ Tasks /\ FreshInv /\ MatchInv /\ [Next]_vars => MatchInv'
<1> SUFFICES ASSUME ~LaneBusy, Types, Tasks, FreshInv, MatchInv, [Next]_vars, Heeding',
                    NEW s \in Starts, Alone(s)'
             PROVE  Matched(s)'
  BY DEF MatchInv
<1>1. Heeding
  <2> SUFFICES ASSUME NEW h \in Calls, Op(h) # None
               PROVE  Op(h) \notin {"resume", "blocker", "resolve"}
    BY DEF Heeding, None
  <2>1. Op(h)' = Op(h)
    BY OpsStay
  <2> QED
    BY <2>1 DEF Heeding
<1>2. Matched(s) /\ \A r \in Starts : Start(r) \/ Run(r) => r = s
  BY <1>1, StaysAlone DEF MatchInv
<1>3. CASE Start(s)
  BY <1>2, <1>3, StartMatch
<1>4. CASE Run(s)
  BY <1>2, <1>4, RunMatch
<1>5. ASSUME NEW h \in Calls, Request(h) \/ Handle(h) PROVE Matched(s)'
  BY <1>1, <1>2, <1>5, CallMatch
<1>6. CASE UNCHANGED vars
  BY <1>2, <1>6 DEF vars, Matched, Informed, Op
<1> QED
  BY <1>2, <1>3, <1>4, <1>5, <1>6 DEF Next

\* With a free lane, the row of a live run that was started once is paused when the pause
\* flag is set, whatever calls but POST /pipeline/resume and blockers came and wherever
\* they stand, for any number of calls, stages and questions, with workers to stop or none.
THEOREM HeldRunsSaySo == ~LaneBusy => (Spec => []HeldIsPaused)
<1> SUFFICES ASSUME ~LaneBusy PROVE Spec => []HeldIsPaused
  OBVIOUS
<1>1. Init => Types /\ Tasks /\ FreshInv /\ MatchInv
  BY InitTypes, InitTasks, InitHold, InitMatch
<1>2. Types /\ Tasks /\ FreshInv /\ MatchInv /\ [Next]_vars => (Types /\ Tasks /\ FreshInv /\ MatchInv)'
  BY StepTypes, StepTasks, StepFresh, StepMatch DEF Exclusive
<1>3. MatchInv => HeldIsPaused
  BY DEF MatchInv, HeldIsPaused, Settled, Heeding, Held, Alone, Matched
<1> QED
  BY <1>1, <1>2, <1>3, PTL DEF Spec
=============================================================================
