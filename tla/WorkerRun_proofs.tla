-------------------------- MODULE WorkerRun_proofs --------------------------
(***************************************************************************)
(* Proofs about WorkerRun, for any number of processes, turns, injected    *)
(* messages and calls of the handlers.                                     *)
(***************************************************************************)
EXTENDS WorkerRun, SequenceTheorems, TLAPS

-----------------------------------------------------------------------------
(* The steps of a process *)

\* A process keeps its type when it reads, calls tools, or writes a line.
LEMMA ProcessFields ==
  ASSUME NEW p \in Process
  PROVE  /\ \A q \in Seq(Messages) : [p EXCEPT !.stdin = q] \in Process
         /\ [p EXCEPT !.agent = "model", !.turn = 0, !.prompt = Prompt(p)] \in Process
         /\ [p EXCEPT !.injected = p.injected + 1] \in Process
         /\ \A runs \in BOOLEAN : p.turn < MaxTurns =>
              [p EXCEPT !.agent = "tool", !.turn = @ + 1, !.command = runs] \in Process
         /\ \A line \in Lines : Write(p, line) \in Process
         /\ [p EXCEPT !.agent = "model", !.command = FALSE] \in Process
         /\ [p EXCEPT !.agent = "idle"] \in Process
         /\ \A a \in {"ok", "error"} : [p EXCEPT !.said = a] \in Process
<1> USE SpawnsAssumption DEF Process
<1>1. \A q \in Seq(Messages) : [p EXCEPT !.stdin = q] \in Process
  OBVIOUS
<1>2. [p EXCEPT !.agent = "model", !.turn = 0, !.prompt = Prompt(p)] \in Process
  <2>1. p.injected \in Nat /\ 0 \in 0..MaxTurns
    OBVIOUS
  <2> QED
    BY <2>1 DEF Prompt
<1>3. [p EXCEPT !.injected = p.injected + 1] \in Process
  <2>1. p.injected + 1 \in Nat
    OBVIOUS
  <2> QED
    BY <2>1
<1>4. ASSUME NEW runs \in BOOLEAN, p.turn < MaxTurns
      PROVE  [p EXCEPT !.agent = "tool", !.turn = @ + 1, !.command = runs] \in Process
  <2>1. p.turn + 1 \in 0..MaxTurns
    BY <1>4
  <2> QED
    BY <2>1, Zenon
<1>5. ASSUME NEW line \in Lines PROVE Write(p, line) \in Process
  <2>1. Append(p.stdout, line) \in Seq(Lines)
    OBVIOUS
  <2> QED
    BY <2>1 DEF Write
<1>6. [p EXCEPT !.agent = "model", !.command = FALSE] \in Process
  OBVIOUS
<1>7. [p EXCEPT !.agent = "idle"] \in Process
  OBVIOUS
<1>8. \A a \in {"ok", "error"} : [p EXCEPT !.said = a] \in Process
  OBVIOUS
<1> QED
  BY <1>1, <1>2, <1>3, <1>4, <1>5, <1>6, <1>7, <1>8

\* The line of an answer is appended to the output; a readable one is remembered.
LEMMA AnswerFacts ==
  ASSUME proc \in [Procs -> Process], NEW k \in Procs, Answer(k)
  PROVE  /\ proc' \in [Procs -> Process]
         /\ \A j \in Procs : /\ proc'[j].up = proc[j].up
                             /\ proc'[j].drain = proc[j].drain
                             /\ proc'[j].answer = proc[j].answer
                             /\ j # k => proc'[j] = proc[j]
         /\ \E line \in Lines :
              /\ proc'[k].stdout = Append(proc[k].stdout, line)
              /\ proc'[k].said = proc[k].said \/ line \in {"ok", "error"}
<1> DEFINE p == [proc[k] EXCEPT !.agent = "idle"]
           q(a) == [p EXCEPT !.said = a]
<1>1. proc[k] \in Process
  OBVIOUS
<1>2. p \in Process /\ \A a \in {"ok", "error"} : q(a) \in Process
  BY <1>1, ProcessFields
<1>3. PICK r \in Process, line \in Lines :
        /\ proc' = [proc EXCEPT ![k] = Write(r, line)]
        /\ r = p \/ \E a \in {"ok", "error"} : r = q(a) /\ line = a
  BY <1>2 DEF Answer, Lines
<1>4. /\ r.up = proc[k].up /\ r.drain = proc[k].drain /\ r.answer = proc[k].answer
      /\ r.stdout = proc[k].stdout /\ (r.said = proc[k].said \/ line \in {"ok", "error"})
  BY <1>1, <1>3 DEF Process
<1>5. Write(r, line) \in Process
  BY <1>3, ProcessFields
<1>6. /\ Write(r, line).up = r.up /\ Write(r, line).drain = r.drain
      /\ Write(r, line).answer = r.answer /\ Write(r, line).said = r.said
      /\ Write(r, line).stdout = Append(r.stdout, line)
  BY <1>3 DEF Write, Process
<1> HIDE DEF p, q
<1> QED
  BY <1>3, <1>4, <1>5, <1>6

\* A process keeps its type whatever it, or its reader, does.
LEMMA ProcStepType ==
  ASSUME proc \in [Procs -> Process], NEW k \in Procs, ProcStep(k)
  PROVE  proc' \in [Procs -> Process]
<1>1. proc[k] \in Process
  OBVIOUS
<1>2. CASE ReadMessage(k)
  <2> DEFINE p == [proc[k] EXCEPT !.stdin = Tail(@)]
  <2>1. proc[k].stdin # <<>> /\ proc[k].stdin \in Seq(Messages)
    BY <1>1, <1>2 DEF ReadMessage, Process
  <2>2. Head(proc[k].stdin) \in Messages /\ Tail(proc[k].stdin) \in Seq(Messages)
    BY <2>1, HeadTailProperties
  <2>3. p \in Process
    BY <1>1, <2>2, ProcessFields
  <2>4. CASE Head(proc[k].stdin) \in Runs
    <3>1. proc' = [proc EXCEPT ![k] =
                     [p EXCEPT !.agent = "model", !.turn = 0, !.prompt = Prompt(p)]]
      BY <1>2, <2>4 DEF ReadMessage, Runs, Injects
    <3>2. [p EXCEPT !.agent = "model", !.turn = 0, !.prompt = Prompt(p)] \in Process
      BY <2>3, ProcessFields
    <3> QED
      BY <3>1, <3>2
  <2>5. CASE Head(proc[k].stdin) \in Injects
    <3>1. proc' = [proc EXCEPT ![k] = [p EXCEPT !.injected = p.injected + 1]]
      BY <1>2, <2>5 DEF ReadMessage, Runs, Injects
    <3>2. [p EXCEPT !.injected = p.injected + 1] \in Process
      BY <2>3, ProcessFields
    <3> QED
      BY <3>1, <3>2
  <2> QED
    BY <2>2, <2>4, <2>5 DEF Messages
<1>3. CASE CallTools(k)
  <2> DEFINE p(runs) == [proc[k] EXCEPT !.agent = "tool", !.turn = @ + 1, !.command = runs]
  <2>1. proc[k].turn < MaxTurns
    BY <1>3 DEF CallTools, Outcomes
  <2>2. PICK runs \in BOOLEAN : proc' = [proc EXCEPT ![k] = p(runs)]
    BY <1>3 DEF CallTools
  <2>3. p(runs) \in Process
    BY <1>1, <2>1, ProcessFields
  <2> HIDE DEF p
  <2> QED
    BY <2>2, <2>3
<1>4. CASE ToolDone(k)
  <2> DEFINE p == [proc[k] EXCEPT !.agent = "model", !.command = FALSE]
  <2>1. PICK line \in {"event", "too long"} : proc' = [proc EXCEPT ![k] = Write(p, line)]
    BY <1>4 DEF ToolDone
  <2>2. p \in Process /\ line \in Lines
    BY <1>1, ProcessFields DEF Lines
  <2>3. Write(p, line) \in Process
    BY <2>2, ProcessFields
  <2> QED
    BY <2>1, <2>3
<1>5. CASE Answer(k)
  BY <1>1, <1>5, AnswerFacts
<1>6. CASE CommandEnds(k)
  <2> DEFINE p == [proc[k] EXCEPT !.command = FALSE, !.stdin = <<>>]
  <2>1. p \in Process
    <3>1. <<>> \in Seq(Messages)
      OBVIOUS
    <3> QED
      BY <1>1, <3>1 DEF Process
  <2>2. proc' = [proc EXCEPT ![k] = p]
    BY <1>6 DEF CommandEnds
  <2> HIDE DEF p
  <2> QED
    BY <2>1, <2>2
<1>7. CASE DrainLine(k)
  <2>1. proc[k].stdout # <<>> /\ proc[k].stdout \in Seq(Lines)
    BY <1>1, <1>7 DEF DrainLine, Process
  <2>2. Head(proc[k].stdout) \in Lines /\ Tail(proc[k].stdout) \in Seq(Lines)
    BY <2>1, HeadTailProperties
  <2>3. CASE Head(proc[k].stdout) \in {"event", "spoilt"}
    BY <1>1, <1>7, <2>2, <2>3 DEF DrainLine, Process
  <2>4. CASE Head(proc[k].stdout) = "too long"
    BY <1>1, <1>7, <2>2, <2>4 DEF DrainLine, Process
  <2>5. CASE Head(proc[k].stdout) \in {"ok", "error"}
    BY <1>1, <1>7, <2>2, <2>5 DEF DrainLine, Process
  <2> QED
    BY <2>2, <2>3, <2>4, <2>5 DEF Lines
<1>8. CASE DrainEnd(k)
  BY <1>1, <1>8 DEF DrainEnd, Process
<1> QED
  BY <1>2, <1>3, <1>4, <1>5, <1>6, <1>7, <1>8 DEF ProcStep

\* A process stays up, or down, in all steps but its launch and its end.
LEMMA ProcStepUp ==
  ASSUME proc \in [Procs -> Process], NEW k \in Procs, ProcStep(k), NEW j \in Procs
  PROVE  proc'[j].up = proc[j].up
<1>1. proc[k] \in Process
  OBVIOUS
<1> USE DEF Process
<1>2. CASE ReadMessage(k)
  <2>1. Head(proc[k].stdin) \in Messages
    BY <1>1, <1>2, HeadTailProperties DEF ReadMessage
  <2>2. CASE Head(proc[k].stdin) \in Runs
    BY <1>1, <1>2, <2>2 DEF ReadMessage
  <2>3. CASE Head(proc[k].stdin) \in Injects
    BY <1>1, <1>2, <2>3 DEF ReadMessage
  <2> QED
    BY <2>1, <2>2, <2>3 DEF Messages
<1>3. CASE CallTools(k)
  <2> DEFINE p(runs) == [proc[k] EXCEPT !.agent = "tool", !.turn = @ + 1, !.command = runs]
  <2>1. PICK runs \in BOOLEAN : proc' = [proc EXCEPT ![k] = p(runs)]
    BY <1>3 DEF CallTools
  <2>2. /\ p(runs).up = proc[k].up /\ p(runs).drain = proc[k].drain
        /\ p(runs).answer = proc[k].answer /\ p(runs).stdout = proc[k].stdout
    BY <1>1
  <2> HIDE DEF p
  <2> QED
    BY <1>3, <2>1, <2>2 DEF CallTools
<1>4. CASE ToolDone(k)
  <2> DEFINE p == [proc[k] EXCEPT !.agent = "model", !.command = FALSE]
  <2>1. PICK line \in {"event", "too long"} : proc' = [proc EXCEPT ![k] = Write(p, line)]
    BY <1>4 DEF ToolDone
  <2>2. /\ Write(p, line).up = proc[k].up /\ Write(p, line).drain = proc[k].drain
        /\ Write(p, line).answer = proc[k].answer
    BY <1>1 DEF Write
  <2> HIDE DEF p
  <2> QED
    BY <1>4, <2>1, <2>2 DEF ToolDone
<1>7. CASE Answer(k)
  BY <1>7, AnswerFacts DEF Answer, Up
<1>5. CASE CommandEnds(k)
  BY <1>1, <1>5 DEF CommandEnds
<1>8. CASE DrainEnd(k)
  BY <1>1, <1>8 DEF DrainEnd
<1>6. CASE DrainLine(k)
  <2>1. Head(proc[k].stdout) \in Lines
    BY <1>1, <1>6, HeadTailProperties DEF DrainLine
  <2>2. CASE Head(proc[k].stdout) \in {"event", "spoilt"}
    BY <1>1, <1>6, <2>2 DEF DrainLine
  <2>3. CASE Head(proc[k].stdout) = "too long"
    BY <1>1, <1>6, <2>3 DEF DrainLine
  <2>4. CASE Head(proc[k].stdout) \in {"ok", "error"}
    BY <1>1, <1>6, <2>4 DEF DrainLine
  <2> QED
    BY <2>1, <2>2, <2>3, <2>4 DEF Lines
<1> QED
  BY <1>2, <1>3, <1>4, <1>5, <1>6, <1>7, <1>8 DEF ProcStep

\* What is known of a process that has been read to the end of its output.
ReadOut(p) == p.drain = "eof" => p.up = "dead" /\ p.stdout = <<>>

\* A process that has been read out stays so, and no drain is taken up again; nothing
\* reads an answer after the end of the output.
LEMMA ProcStepRead ==
  ASSUME proc \in [Procs -> Process], NEW k \in Procs, ProcStep(k),
         NEW j \in Procs, ReadOut(proc[j])
  PROVE  /\ ReadOut(proc'[j])
         /\ proc[j].drain # "on" => /\ proc'[j].drain = proc[j].drain
                                    /\ proc'[j].answer = proc[j].answer
<1>1. proc[k] \in Process
  OBVIOUS
<1> USE DEF Process, ReadOut, Up
<1>2. CASE ReadMessage(k)
  <2>1. Head(proc[k].stdin) \in Messages
    BY <1>1, <1>2, HeadTailProperties DEF ReadMessage
  <2>2. CASE Head(proc[k].stdin) \in Runs
    BY <1>1, <1>2, <2>2 DEF ReadMessage
  <2>3. CASE Head(proc[k].stdin) \in Injects
    BY <1>1, <1>2, <2>3 DEF ReadMessage
  <2> QED
    BY <2>1, <2>2, <2>3 DEF Messages
<1>3. CASE CallTools(k)
  <2> DEFINE p(runs) == [proc[k] EXCEPT !.agent = "tool", !.turn = @ + 1, !.command = runs]
  <2>1. PICK runs \in BOOLEAN : proc' = [proc EXCEPT ![k] = p(runs)]
    BY <1>3 DEF CallTools
  <2>2. /\ p(runs).up = proc[k].up /\ p(runs).drain = proc[k].drain
        /\ p(runs).answer = proc[k].answer /\ p(runs).stdout = proc[k].stdout
    BY <1>1
  <2> HIDE DEF p
  <2> QED
    BY <1>3, <2>1, <2>2 DEF CallTools
<1>4. CASE ToolDone(k)
  <2> DEFINE p == [proc[k] EXCEPT !.agent = "model", !.command = FALSE]
  <2>1. PICK line \in {"event", "too long"} : proc' = [proc EXCEPT ![k] = Write(p, line)]
    BY <1>4 DEF ToolDone
  <2>2. /\ Write(p, line).up = proc[k].up /\ Write(p, line).drain = proc[k].drain
        /\ Write(p, line).answer = proc[k].answer
    BY <1>1 DEF Write
  <2> HIDE DEF p
  <2> QED
    BY <1>4, <2>1, <2>2 DEF ToolDone
<1>7. CASE Answer(k)
  BY <1>7, AnswerFacts DEF Answer, Up
<1>5. CASE CommandEnds(k)
  BY <1>1, <1>5 DEF CommandEnds
<1>8. CASE DrainEnd(k)
  BY <1>1, <1>8 DEF DrainEnd
<1>6. CASE DrainLine(k)
  <2>1. Head(proc[k].stdout) \in Lines
    BY <1>1, <1>6, HeadTailProperties DEF DrainLine
  <2>2. CASE Head(proc[k].stdout) \in {"event", "spoilt"}
    BY <1>1, <1>6, <2>2 DEF DrainLine
  <2>3. CASE Head(proc[k].stdout) = "too long"
    BY <1>1, <1>6, <2>3 DEF DrainLine
  <2>4. CASE Head(proc[k].stdout) \in {"ok", "error"}
    BY <1>1, <1>6, <2>4 DEF DrainLine
  <2> QED
    BY <2>1, <2>2, <2>3, <2>4 DEF Lines
<1> QED
  BY <1>2, <1>3, <1>4, <1>5, <1>6, <1>7, <1>8 DEF ProcStep

\* A readable answer is in the pipe, or in the responses, or behind a line at which the
\* drain broke off.
IsAnswer(line) == line \in {"ok", "error"}
Accounted(p) ==
  p.said # "none" =>
    p.drain = "broken" \/ p.answer # "none" \/ \E i \in DOMAIN p.stdout : IsAnswer(p.stdout[i])

\* A line that is appended hides no answer, and may be one; of the lines that remain when
\* the first is read only that one is gone.
LEMMA AppendKeeps ==
  ASSUME NEW s \in Seq(Lines), NEW line \in Lines
  PROVE  /\ (\E i \in DOMAIN s : IsAnswer(s[i])) =>
              \E i \in DOMAIN Append(s, line) : IsAnswer(Append(s, line)[i])
         /\ IsAnswer(line) => \E i \in DOMAIN Append(s, line) : IsAnswer(Append(s, line)[i])
<1>1. Append(s, line) \in Seq(Lines) /\ Len(Append(s, line)) = Len(s) + 1
  OBVIOUS
<1>2. Append(s, line)[Len(s) + 1] = line /\ \A i \in 1..Len(s) : Append(s, line)[i] = s[i]
  OBVIOUS
<1> QED
  BY <1>1, <1>2

LEMMA TailKeeps ==
  ASSUME NEW s \in Seq(Lines), s # <<>>, ~IsAnswer(Head(s)),
         NEW i \in DOMAIN s, IsAnswer(s[i])
  PROVE  \E j \in DOMAIN Tail(s) : IsAnswer(Tail(s)[j])
<1>1. i \in 1..Len(s) /\ i # 1
  BY DEF IsAnswer
<1>2. i - 1 \in 1..Len(Tail(s)) /\ Tail(s)[i - 1] = s[i]
  BY <1>1, HeadTailProperties
<1>3. Tail(s) \in Seq(Lines)
  BY HeadTailProperties
<1> QED
  BY <1>2, <1>3

\* No step of a process or its reader lets an answer go astray.
LEMMA ProcStepAccounts ==
  ASSUME proc \in [Procs -> Process], NEW k \in Procs, ProcStep(k),
         NEW j \in Procs, Accounted(proc[j])
  PROVE  Accounted(proc'[j])
<1>1. proc[k] \in Process /\ proc[k].stdout \in Seq(Lines)
  BY DEF Process
<1>2. CASE j # k
  <2>1. proc'[j] = proc[j]
    BY <1>2, AnswerFacts DEF ProcStep, ReadMessage, CallTools, ToolDone, CommandEnds, DrainLine,
       DrainEnd
  <2> QED
    BY <2>1
<1>3. CASE j = k /\ (ReadMessage(k) \/ CallTools(k) \/ CommandEnds(k))
  <2>1. /\ proc'[k].said = proc[k].said /\ proc'[k].stdout = proc[k].stdout
        /\ proc'[k].drain = proc[k].drain /\ proc'[k].answer = proc[k].answer
    <3>1. CASE ReadMessage(k)
      <4>1. Head(proc[k].stdin) \in Messages
        BY <3>1, HeadTailProperties DEF ReadMessage, Process
      <4>2. CASE Head(proc[k].stdin) \in Runs
        BY <1>1, <3>1, <4>2 DEF ReadMessage, Process
      <4>3. CASE Head(proc[k].stdin) \in Injects
        BY <1>1, <3>1, <4>3 DEF ReadMessage, Process, Runs, Injects
      <4> QED
        BY <4>1, <4>2, <4>3 DEF Messages
    <3>2. CASE CallTools(k)
      BY <1>1, <3>2 DEF CallTools, Process
    <3>3. CASE CommandEnds(k)
      BY <1>1, <3>3 DEF CommandEnds, Process
    <3> QED
      BY <1>3, <3>1, <3>2, <3>3
  <2> QED
    BY <1>3, <2>1 DEF Accounted
<1>4. CASE j = k /\ ToolDone(k)
  <2> DEFINE p == [proc[k] EXCEPT !.agent = "model", !.command = FALSE]
  <2>1. PICK line \in Lines : proc' = [proc EXCEPT ![k] = Write(p, line)]
    BY <1>4 DEF ToolDone, Lines
  <2>2. /\ Write(p, line).said = proc[k].said /\ Write(p, line).drain = proc[k].drain
        /\ Write(p, line).answer = proc[k].answer
        /\ Write(p, line).stdout = Append(proc[k].stdout, line)
    BY <1>1 DEF Write, Process
  <2> HIDE DEF p
  <2> QED
    BY <1>1, <1>4, <2>1, <2>2, AppendKeeps DEF Accounted
<1>5. CASE j = k /\ Answer(k)
  BY <1>1, <1>5, AnswerFacts, AppendKeeps DEF Accounted, IsAnswer
<1>6. CASE j = k /\ DrainLine(k)
  <2>1. proc[k].stdout # <<>> /\ Head(proc[k].stdout) \in Lines
    BY <1>1, <1>6, HeadTailProperties DEF DrainLine
  <2>2. CASE Head(proc[k].stdout) \in {"event", "spoilt"}
    <3>1. /\ proc'[k].said = proc[k].said /\ proc'[k].stdout = Tail(proc[k].stdout)
          /\ proc'[k].drain = proc[k].drain /\ proc'[k].answer = proc[k].answer
      BY <1>1, <1>6, <2>2 DEF DrainLine, Process
    <3>2. ~IsAnswer(Head(proc[k].stdout))
      BY <2>2 DEF IsAnswer
    <3> QED
      BY <1>1, <1>6, <2>1, <3>1, <3>2, TailKeeps DEF Accounted
  <2>3. CASE Head(proc[k].stdout) = "too long"
    BY <1>1, <1>6, <2>3 DEF DrainLine, Process, Accounted
  <2>4. CASE Head(proc[k].stdout) \in {"ok", "error"}
    BY <1>1, <1>6, <2>4 DEF DrainLine, Process, Accounted
  <2> QED
    BY <2>1, <2>2, <2>3, <2>4 DEF Lines
<1>7. CASE j = k /\ DrainEnd(k)
  BY <1>1, <1>7 DEF DrainEnd, Process, Accounted
<1> QED
  BY <1>2, <1>3, <1>4, <1>5, <1>6, <1>7 DEF ProcStep

\* A message, a signal and the end of a process change what they are meant to change.
LEMMA SendToFacts ==
  ASSUME proc \in [Procs -> Process], NEW k \in Procs, NEW m \in Messages, SendTo(k, m)
  PROVE  /\ proc' \in [Procs -> Process]
         /\ \A j \in Procs : /\ proc'[j].up = proc[j].up
                             /\ proc'[j].drain = proc[j].drain
                             /\ proc'[j].answer = proc[j].answer
                             /\ proc'[j].stdout = proc[j].stdout
                             /\ proc'[j].said = proc[j].said
<1> DEFINE q == IF Up(k) THEN Append(proc[k].stdin, m) ELSE proc[k].stdin
<1>1. proc[k] \in Process
  OBVIOUS
<1>2. q \in Seq(Messages)
  BY <1>1 DEF Process
<1>3. proc' = [proc EXCEPT ![k].stdin = q]
  BY DEF SendTo
<1> HIDE DEF q
<1> QED
  BY <1>1, <1>2, <1>3 DEF Process

LEMMA SignalFacts ==
  ASSUME proc \in [Procs -> Process], NEW k \in Procs, Signal(k)
  PROVE  /\ proc' \in [Procs -> Process]
         /\ \A j \in Procs : /\ proc'[j].up = IF j = k /\ proc[j].up = "yes" THEN "term"
                                              ELSE proc[j].up
                             /\ proc'[j].drain = proc[j].drain
                             /\ proc'[j].answer = proc[j].answer
                             /\ proc'[j].stdout = proc[j].stdout
                             /\ proc'[j].said = proc[j].said
<1>1. proc[k] \in Process
  OBVIOUS
<1> QED
  BY <1>1 DEF Process, Signal

LEMMA DieFacts ==
  ASSUME proc \in [Procs -> Process], NEW k \in Procs, Die(k)
  PROVE  /\ proc' \in [Procs -> Process]
         /\ \A j \in Procs : /\ proc'[j].up = IF j = k THEN "dead" ELSE proc[j].up
                             /\ proc'[j].drain = proc[j].drain
                             /\ proc'[j].answer = proc[j].answer
                             /\ proc'[j].stdout = proc[j].stdout
                             /\ proc'[j].said = proc[j].said
<1> DEFINE p == Dead(proc[k])
<1>1. proc[k] \in Process /\ <<>> \in Seq(Messages) /\ proc[k].stdin \in Seq(Messages)
  BY DEF Process
<1>2. proc' = [proc EXCEPT ![k] = p]
  BY DEF Die
<1>3. /\ p \in Process /\ p.up = "dead" /\ p.drain = proc[k].drain
      /\ p.answer = proc[k].answer /\ p.stdout = proc[k].stdout /\ p.said = proc[k].said
  BY <1>1 DEF Dead, Process
<1> HIDE DEF p
<1> QED
  BY <1>1, <1>2, <1>3

LEMMA LaunchFacts ==
  ASSUME proc \in [Procs -> Process], NEW k \in Procs, Launch(k)
  PROVE  /\ proc' \in [Procs -> Process]
         /\ \A j \in Procs : /\ proc'[j].up = IF j = k THEN "yes" ELSE proc[j].up
                             /\ proc'[j].drain = proc[j].drain
                             /\ proc'[j].answer = proc[j].answer
                             /\ proc'[j].stdout = proc[j].stdout
                             /\ proc'[j].said = proc[j].said
<1>1. proc[k] \in Process
  OBVIOUS
<1> QED
  BY <1>1 DEF Process, Launch

-----------------------------------------------------------------------------
(* Types *)

\* Where the coroutine has a process, and its number.
AtWork == {"pipes", "send", "wait", "gather", "finally", "stop"}

\* The types, and what they need of the place of the coroutine.
Types ==
  /\ TypeOK
  /\ pc \in AtWork \cup {"paused"} => depth \in Procs
  /\ pc = "spawn" => depth < MaxSpawns
  /\ pc \in {"finally", "stop"} => outcome # "none"

LEMMA InitTypes == Init => Types
<1> SUFFICES ASSUME Init PROVE Types
  OBVIOUS
<1>1. NoProcess \in Process
  BY SpawnsAssumption DEF NoProcess, Process
<1>2. proc \in [Procs -> Process]
  BY <1>1 DEF Init, ProcInit
<1>3. killer \in [Procs -> {"none", "end", "pause", "stop"}]
  BY DEF Init
<1>4. depth \in 0..MaxSpawns /\ depth < MaxSpawns /\ stops \in 0..MaxStops
      /\ injects \in 0..MaxInjects
  BY SpawnsAssumption, CallsAssumption DEF Init
<1>5. TypeOK
  BY <1>2, <1>3, <1>4 DEF Init, TypeOK, Ended
<1> QED
  BY <1>4, <1>5 DEF Init, Types, AtWork

\* The steps of the coroutine preserve the types.
LEMMA RunningTypes == Types /\ (Running \/ Cancel \/ CutOff) => Types'
<1> SUFFICES ASSUME Types, Running \/ Cancel \/ CutOff PROVE Types'
  OBVIOUS
<1> USE SpawnsAssumption DEF Types, TypeOK, AtWork, Ended, handler_vars
<1>1. CASE Spawn
  <2>1. CASE /\ depth' = depth + 1 /\ Launch(depth') /\ pc' = "pipes"
    <3>1. depth' \in Procs
      BY <1>1, <2>1 DEF Spawn, Procs
    <3>2. proc' \in [Procs -> Process]
      BY <2>1, <3>1, LaunchFacts
    <3> QED
      BY <1>1, <2>1, <3>1, <3>2 DEF Spawn, Procs
  <2>2. CASE /\ pc' = "raised" /\ UNCHANGED <<proc, depth>>
    BY <1>1, <2>2 DEF Spawn
  <2> QED
    BY <1>1, <2>1, <2>2 DEF Spawn
<1>2. CASE Register
  <2>1. PICK m \in Messages : depth \in Procs /\ SendTo(depth, m) /\ pc' \in {"send", "wait"}
    BY <1>2 DEF Register, Messages
  <2>2. proc' \in [Procs -> Process]
    BY <2>1, SendToFacts
  <2> QED
    BY <1>2, <2>1, <2>2 DEF Register
<1>13. CASE Sent
  BY <1>13 DEF Sent
<1>3. CASE RequestRaises
  BY <1>3 DEF RequestRaises
<1>4. CASE GotAnswer
  <2>1. proc[depth] \in Process
    BY <1>4 DEF GotAnswer
  <2> QED
    BY <1>4, <2>1 DEF GotAnswer, Process
<1>5. CASE NoticeDeath
  BY <1>5 DEF NoticeDeath
<1>6. CASE DiedWithoutAnswer
  BY <1>6 DEF DiedWithoutAnswer, GiveUpWait
<1>7. CASE Deadline
  BY <1>7 DEF Deadline, GiveUpWait
<1>8. CASE StopProcess
  <2>1. depth \in Procs
    BY <1>8 DEF StopProcess
  <2>2. proc' \in [Procs -> Process]
    BY <1>8, <2>1, SignalFacts DEF StopProcess
  <2> QED
    BY <1>8, <2>2 DEF StopProcess
<1>9. CASE LeaveFinally
  <2>1. /\ pc' \in {"done", "failed", "raised", "paused", "cancelled"}
        /\ row' \in {"running", "paused", "failed", "stopped"}
    BY <1>9 DEF LeaveFinally
  <2> QED
    BY <1>9, <2>1 DEF LeaveFinally
<1>10. CASE Requeue
  BY <1>10 DEF Requeue
<1>11. CASE Cancel
  <2>1. CASE pc = "pipes" /\ Up(depth)
    <3>1. proc' \in [Procs -> Process]
      BY <1>11, <2>1, DieFacts DEF Cancel
    <3> QED
      BY <1>11, <2>1, <3>1 DEF Cancel
  <2>2. CASE ~(pc = "pipes" /\ Up(depth))
    BY <1>11, <2>2 DEF Cancel
  <2> QED
    BY <2>1, <2>2
<1>12. CASE CutOff
  BY <1>12 DEF CutOff
<1> QED
  BY <1>1, <1>2, <1>3, <1>4, <1>5, <1>6, <1>7, <1>8, <1>9, <1>10, <1>11, <1>12, <1>13 DEF Running

\* So do the handlers and the processes.
LEMMA OthersTypes ==
  Types /\ (Handling \/ Pause \/ StopWorker \/ Resume \/ Inject \/ SignalledEnds \/ Crash
            \/ ProcessStep \/ UNCHANGED vars) => Types'
<1> SUFFICES ASSUME Types, Handling \/ Pause \/ StopWorker \/ Resume \/ Inject
                           \/ SignalledEnds \/ Crash \/ ProcessStep \/ UNCHANGED vars
             PROVE  Types'
  OBVIOUS
<1> USE SpawnsAssumption, CallsAssumption DEF Types, TypeOK, AtWork, Ended, handler_vars
<1>1. CASE SignalTarget
  <2>1. PICK k \in targets : /\ Signal(k) /\ killer' = [killer EXCEPT ![k] = stopping]
                             /\ proc[k].up = "yes"
    BY <1>1 DEF SignalTarget
  <2>2. proc' \in [Procs -> Process]
    BY <2>1, SignalFacts
  <2>3. stopping \in {"none", "pause", "stop"} /\ killer' \in [Procs -> {"none", "end", "pause", "stop"}]
    BY <2>1
  <2> QED
    BY <1>1, <2>2, <2>3 DEF SignalTarget
<1>2. CASE TargetStopped
  BY <1>2 DEF TargetStopped
<1>3. CASE EndStop
  BY <1>3 DEF EndStop
<1>4. CASE Pause
  BY <1>4 DEF Pause, BeginStop
<1>5. CASE StopWorker
  BY <1>5 DEF StopWorker, BeginStop
<1>6. CASE Resume
  <2>1. paused' \in BOOLEAN
    BY <1>6 DEF Resume
  <2>2. UNCHANGED <<proc, pc, depth, outcome, why, row, registered, handler_vars, killer>>
    BY <1>6 DEF Resume
  <2> QED
    BY <2>1, <2>2
<1>7. CASE Inject
  <2>1. PICK m \in Messages : depth \in Procs /\ SendTo(depth, m)
    BY <1>7 DEF Inject, Messages
  <2>2. proc' \in [Procs -> Process]
    BY <2>1, SendToFacts
  <2> QED
    BY <1>7, <2>2 DEF Inject
<1>8. CASE SignalledEnds \/ Crash
  <2>1. PICK k \in Procs : Die(k)
    BY <1>8 DEF SignalledEnds, Crash
  <2>2. proc' \in [Procs -> Process]
    BY <2>1, DieFacts
  <2> QED
    BY <1>8, <2>2 DEF SignalledEnds, Crash
<1>9. CASE ProcessStep
  <2>1. PICK k \in Procs : ProcStep(k)
    BY <1>9 DEF ProcessStep
  <2>2. proc' \in [Procs -> Process]
    BY <2>1, ProcStepType
  <2> QED
    BY <1>9, <2>2 DEF ProcessStep
<1>10. CASE UNCHANGED vars
  BY <1>10 DEF vars
<1> QED
  BY <1>1, <1>2, <1>3, <1>4, <1>5, <1>6, <1>7, <1>8, <1>9, <1>10 DEF Handling

LEMMA StepTypes == Types /\ [Next]_vars => Types'
  BY RunningTypes, OthersTypes DEF Next

\* The types hold in every state.
THEOREM TypeCorrect == Spec => []TypeOK
<1>1. Types => TypeOK
  BY DEF Types
<1> QED
  BY <1>1, InitTypes, StepTypes, PTL DEF Spec

-----------------------------------------------------------------------------
(* One process at a time, none left, no answer lost *)

\* A process is up only while the coroutine has it: it is the last one, and was not
\* given up but by a cut.  The later ones have not been launched.
UpInv ==
  /\ \A k \in Procs : Up(k) => k = depth /\ pc \in AtWork \cup {"cut"}
  /\ \A k \in Procs : k > depth => proc[k].up = "no"

\* A wait that was given up for the end of the process had read its output, and no
\* readable answer goes astray on its way.
ReadInv ==
  /\ \A k \in Procs : ReadOut(proc[k]) /\ Accounted(proc[k])
  /\ pc = "spawn" => why = "none"
  /\ why = "death" => /\ depth \in Procs /\ proc[depth].drain \in {"broken", "eof"}
                      /\ proc[depth].drain = "eof" => proc[depth].answer = "none"

Inv == Types /\ UpInv /\ ReadInv

LEMMA InitInv == Init => Inv
<1> SUFFICES ASSUME Init PROVE Inv
  OBVIOUS
<1>1. \A k \in Procs : proc[k] = NoProcess
  BY DEF Init, ProcInit
<1>2. NoProcess.up = "no" /\ NoProcess.drain = "on" /\ NoProcess.said = "none"
  BY DEF NoProcess
<1>3. \A k \in Procs : proc[k].up = "no" /\ proc[k].drain = "on" /\ proc[k].said = "none"
  BY <1>1, <1>2
<1> QED
  BY <1>3, InitTypes DEF Inv, UpInv, ReadInv, ReadOut, Accounted, Up, Init

\* In a step that leaves the processes and their number alone the place of the
\* coroutine counts.
LEMMA PlaceStep ==
  ASSUME Inv, proc' = proc, depth' = depth,
         \/ pc' \in AtWork \cup {"cut"}
         \/ pc \notin AtWork \cup {"cut"}
         \/ depth \in Procs => ~Up(depth),
         pc' = "spawn" => why' = "none",
         why' = why \/ why' \in {"none", "deadline"}
  PROVE  UpInv' /\ ReadInv'
  BY DEF Inv, UpInv, ReadInv, Up, ReadOut, Accounted, Procs

\* In a step of the processes at most one goes up or down, and nothing is read but
\* from a drain that is on.
LEMMA ProcsStep ==
  ASSUME Inv, depth' = depth, pc' = pc, why' = why,
         \A k \in Procs : /\ proc'[k].up \in {"yes", "term"} => Up(k)
                          /\ proc[k].up = "no" => proc'[k].up = "no"
                          /\ ReadOut(proc'[k]) /\ Accounted(proc'[k])
                          /\ proc[k].drain # "on" => /\ proc'[k].drain = proc[k].drain
                                                     /\ proc'[k].answer = proc[k].answer
  PROVE  UpInv' /\ ReadInv'
  BY DEF Inv, UpInv, ReadInv, Up, Procs

\* The steps of the coroutine preserve the invariant.
LEMMA RunningInv == Inv /\ (Running \/ Cancel \/ CutOff) => UpInv' /\ ReadInv'
<1> SUFFICES ASSUME Inv, Running \/ Cancel \/ CutOff PROVE UpInv' /\ ReadInv'
  OBVIOUS
<1> USE DEF AtWork
<1>0. proc \in [Procs -> Process] /\ depth \in 0..MaxSpawns /\ MaxSpawns \in Nat
  BY SpawnsAssumption DEF Inv, Types, TypeOK
<1>1. CASE Spawn
  <2>1. CASE /\ depth' = depth + 1 /\ Launch(depth') /\ pc' = "pipes"
    <3>1. depth' \in Procs /\ depth' > depth /\ pc = "spawn" /\ why' = why /\ why = "none"
      BY <1>0, <1>1, <2>1 DEF Spawn, Inv, Types, ReadInv, Procs
    <3>2. \A j \in Procs : /\ proc'[j].up = IF j = depth' THEN "yes" ELSE proc[j].up
                           /\ proc'[j].drain = proc[j].drain
                           /\ proc'[j].answer = proc[j].answer
                           /\ proc'[j].stdout = proc[j].stdout
                           /\ proc'[j].said = proc[j].said
      BY <1>0, <2>1, <3>1, LaunchFacts
    <3>3. proc[depth'].up = "no"
      BY <3>1 DEF Inv, UpInv
    <3>4. UpInv'
      BY <1>0, <2>1, <3>1, <3>2, <3>3 DEF Inv, UpInv, Up, Procs
    <3>5. ReadInv'
      BY <2>1, <3>1, <3>2, <3>3 DEF Inv, ReadInv, ReadOut, Accounted
    <3> QED
      BY <3>4, <3>5
  <2>2. CASE /\ pc' = "raised" /\ UNCHANGED <<proc, depth>>
    <3>1. pc = "spawn" /\ why' = why
      BY <1>1 DEF Spawn
    <3> QED
      BY <2>2, <3>1, PlaceStep
  <2> QED
    BY <1>1, <2>1, <2>2 DEF Spawn
<1>2. CASE Register
  <2>1. PICK m \in Messages :
          /\ depth \in Procs /\ pc = "pipes" /\ pc' \in {"send", "wait"} /\ SendTo(depth, m)
          /\ depth' = depth /\ why' = why
    BY <1>2 DEF Register, Inv, Types, Messages
  <2>2. \A j \in Procs : /\ proc'[j].up = proc[j].up
                         /\ proc'[j].drain = proc[j].drain
                         /\ proc'[j].answer = proc[j].answer
                         /\ proc'[j].stdout = proc[j].stdout
                         /\ proc'[j].said = proc[j].said
    BY <1>0, <2>1, SendToFacts
  <2> QED
    BY <1>0, <2>1, <2>2 DEF Inv, UpInv, ReadInv, Up, ReadOut, Accounted
<1>3. CASE RequestRaises
  <2>1. proc' = proc /\ depth' = depth /\ why' = why /\ ~Up(depth) /\ pc' = "raised"
    BY <1>3 DEF RequestRaises
  <2> QED
    BY <2>1, PlaceStep
<1>4. CASE GotAnswer \/ NoticeDeath \/ Sent
  <2>1. proc' = proc /\ depth' = depth /\ why' = why /\ pc' \in {"finally", "gather", "wait"}
    BY <1>4 DEF GotAnswer, NoticeDeath, Sent
  <2> QED
    BY <2>1, PlaceStep
<1>5. CASE DiedWithoutAnswer
  <2>1. /\ proc' = proc /\ depth' = depth /\ why' = "death" /\ pc = "gather"
        /\ pc' = "finally" /\ Drained(depth) /\ proc[depth].answer = "none"
    BY <1>5 DEF DiedWithoutAnswer, GiveUpWait
  <2>2. depth \in Procs
    BY <2>1 DEF Inv, Types
  <2>3. proc[depth].drain \in {"broken", "eof"}
    BY <1>0, <2>1, <2>2 DEF Drained, Process
  <2> QED
    BY <2>1, <2>2, <2>3 DEF Inv, UpInv, ReadInv, Up, ReadOut, Accounted
<1>6. CASE Deadline
  <2>1. proc' = proc /\ depth' = depth /\ why' = "deadline" /\ pc' = "finally"
    BY <1>6 DEF Deadline, GiveUpWait
  <2> QED
    BY <2>1, PlaceStep
<1>7. CASE StopProcess
  <2>1. depth \in Procs /\ pc' = "stop" /\ depth' = depth /\ why' = why
    BY <1>7 DEF StopProcess, Inv, Types
  <2>2. \A j \in Procs : /\ proc'[j].up = IF j = depth /\ proc[j].up = "yes" THEN "term"
                                          ELSE proc[j].up
                         /\ proc'[j].drain = proc[j].drain
                         /\ proc'[j].answer = proc[j].answer
                         /\ proc'[j].stdout = proc[j].stdout
                         /\ proc'[j].said = proc[j].said
    BY <1>0, <1>7, <2>1, SignalFacts DEF StopProcess
  <2> QED
    BY <1>0, <2>1, <2>2 DEF Inv, UpInv, ReadInv, Up, ReadOut, Accounted
<1>8. CASE LeaveFinally
  <2>1. proc' = proc /\ depth' = depth /\ why' = why /\ pc = "stop" /\ ~Up(depth)
    BY <1>8 DEF LeaveFinally
  <2>2. pc' # "spawn"
    BY <1>8 DEF LeaveFinally, Inv, Types, TypeOK
  <2> QED
    BY <2>1, <2>2, PlaceStep
<1>9. CASE Requeue
  <2>1. /\ proc' = proc /\ depth' = depth /\ why' = "none" /\ pc = "paused"
    BY <1>9 DEF Requeue
  <2> QED
    BY <2>1, PlaceStep
<1>10. CASE Cancel
  <2>1. depth' = depth /\ why' = why /\ pc \in {"pipes", "wait", "gather", "paused"}
    BY <1>10 DEF Cancel
  <2>2. CASE pc = "pipes" /\ Up(depth)
    <3>1. depth \in Procs /\ Die(depth) /\ pc' = "cancelled"
      BY <1>10, <2>2 DEF Cancel, Inv, Types
    <3>2. \A j \in Procs : /\ proc'[j].up = IF j = depth THEN "dead" ELSE proc[j].up
                           /\ proc'[j].drain = proc[j].drain
                           /\ proc'[j].answer = proc[j].answer
                           /\ proc'[j].stdout = proc[j].stdout
                           /\ proc'[j].said = proc[j].said
      BY <1>0, <3>1, DieFacts
    <3>3. \A j \in Procs : ~Up(j)'
      BY <1>0, <2>2, <3>1, <3>2 DEF Inv, UpInv, Up
    <3>4. UpInv'
      BY <1>0, <2>1, <3>2, <3>3 DEF Inv, UpInv, Procs
    <3>5. ReadInv'
      BY <1>0, <2>1, <2>2, <3>1, <3>2 DEF Inv, ReadInv, Up, ReadOut, Accounted
    <3> QED
      BY <3>4, <3>5
  <2>3. CASE ~(pc = "pipes" /\ Up(depth))
    <3>1. proc' = proc /\ pc' \in {"finally", "cancelled"}
          /\ (pc' = "cancelled" => pc = "paused" \/ ~Up(depth))
      BY <1>10, <2>1, <2>3 DEF Cancel
    <3> QED
      BY <2>1, <3>1, PlaceStep
  <2> QED
    BY <2>2, <2>3
<1>11. CASE CutOff
  <2>1. proc' = proc /\ depth' = depth /\ why' = why /\ pc' = "cut"
    BY <1>11 DEF CutOff
  <2> QED
    BY <2>1, PlaceStep
<1> QED
  BY <1>1, <1>2, <1>3, <1>4, <1>5, <1>6, <1>7, <1>8, <1>9, <1>10, <1>11 DEF Running

\* So do the handlers and the processes.
LEMMA OthersInv ==
  Inv /\ (Handling \/ Pause \/ StopWorker \/ Resume \/ Inject \/ SignalledEnds \/ Crash
          \/ ProcessStep \/ UNCHANGED vars) => UpInv' /\ ReadInv'
<1> SUFFICES ASSUME Inv, Handling \/ Pause \/ StopWorker \/ Resume \/ Inject
                         \/ SignalledEnds \/ Crash \/ ProcessStep \/ UNCHANGED vars
             PROVE  UpInv' /\ ReadInv'
  OBVIOUS
<1>0. proc \in [Procs -> Process] /\ targets \subseteq Procs /\ registered \subseteq Procs
      /\ \A k \in Procs : ReadOut(proc[k]) /\ Accounted(proc[k])
  BY DEF Inv, Types, TypeOK, ReadInv
<1>1. CASE SignalTarget
  <2>1. PICK k \in targets : Signal(k) /\ proc[k].up = "yes"
    BY <1>1 DEF SignalTarget
  <2>2. depth' = depth /\ pc' = pc /\ why' = why
    BY <1>1 DEF SignalTarget
  <2>3. \A j \in Procs : /\ proc'[j].up = IF j = k /\ proc[j].up = "yes" THEN "term"
                                          ELSE proc[j].up
                         /\ proc'[j].drain = proc[j].drain
                         /\ proc'[j].answer = proc[j].answer
                         /\ proc'[j].stdout = proc[j].stdout
                         /\ proc'[j].said = proc[j].said
    BY <1>0, <2>1, SignalFacts
  <2>4. \A j \in Procs : /\ proc'[j].up \in {"yes", "term"} => Up(j)
                         /\ proc[j].up = "no" => proc'[j].up = "no"
                         /\ ReadOut(proc'[j]) /\ Accounted(proc'[j])
    BY <1>0, <2>3 DEF Up, ReadOut, Accounted
  <2> QED
    BY <2>2, <2>3, <2>4, ProcsStep
<1>2. CASE TargetStopped \/ EndStop \/ Pause \/ StopWorker \/ Resume \/ UNCHANGED vars
  <2>1. proc' = proc /\ depth' = depth /\ pc' = pc /\ why' = why
    BY <1>2 DEF TargetStopped, EndStop, Pause, StopWorker, Resume, vars
  <2> QED
    BY <2>1 DEF Inv, UpInv, ReadInv, Up, ReadOut, Accounted
<1>3. CASE Inject
  <2>1. PICK m \in Messages : /\ depth \in Procs /\ SendTo(depth, m)
                              /\ depth' = depth /\ pc' = pc /\ why' = why
    BY <1>0, <1>3 DEF Inject, Messages
  <2>2. \A j \in Procs : /\ proc'[j].up = proc[j].up
                         /\ proc'[j].drain = proc[j].drain
                         /\ proc'[j].answer = proc[j].answer
                         /\ proc'[j].stdout = proc[j].stdout
                         /\ proc'[j].said = proc[j].said
    BY <1>0, <2>1, SendToFacts
  <2>3. \A j \in Procs : (proc'[j].up \in {"yes", "term"} => Up(j)) /\ ReadOut(proc'[j]) /\ Accounted(proc'[j])
    BY <1>0, <2>2 DEF Up, ReadOut, Accounted
  <2> QED
    BY <2>1, <2>2, <2>3, ProcsStep
<1>4. CASE SignalledEnds \/ Crash
  <2>1. PICK k \in Procs : Die(k) /\ proc[k].up \in {"yes", "term"}
    BY <1>4 DEF SignalledEnds, Crash
  <2>2. depth' = depth /\ pc' = pc /\ why' = why
    BY <1>4 DEF SignalledEnds, Crash
  <2>3. \A j \in Procs : /\ proc'[j].up = IF j = k THEN "dead" ELSE proc[j].up
                         /\ proc'[j].drain = proc[j].drain
                         /\ proc'[j].answer = proc[j].answer
                         /\ proc'[j].stdout = proc[j].stdout
                         /\ proc'[j].said = proc[j].said
    BY <1>0, <2>1, DieFacts
  <2>4. \A j \in Procs : /\ proc'[j].up \in {"yes", "term"} => Up(j)
                         /\ proc[j].up = "no" => proc'[j].up = "no"
                         /\ ReadOut(proc'[j]) /\ Accounted(proc'[j])
    BY <1>0, <2>1, <2>3 DEF Up, ReadOut, Accounted
  <2> QED
    BY <2>2, <2>3, <2>4, ProcsStep
<1>5. CASE ProcessStep
  <2>1. PICK k \in Procs : ProcStep(k)
    BY <1>5 DEF ProcessStep
  <2>2. depth' = depth /\ pc' = pc /\ why' = why
    BY <1>5 DEF ProcessStep
  <2>3. \A j \in Procs : /\ proc'[j].up = proc[j].up
                         /\ ReadOut(proc'[j]) /\ Accounted(proc'[j])
                         /\ proc[j].drain # "on" => /\ proc'[j].drain = proc[j].drain
                                                    /\ proc'[j].answer = proc[j].answer
    BY <1>0, <2>1, ProcStepUp, ProcStepRead, ProcStepAccounts
  <2>4. \A j \in Procs : proc'[j].up \in {"yes", "term"} => Up(j)
    BY <2>3 DEF Up
  <2> QED
    BY <2>2, <2>3, <2>4, ProcsStep
<1> QED
  BY <1>1, <1>2, <1>3, <1>4, <1>5 DEF Handling

LEMMA StepInv == Inv /\ [Next]_vars => Inv'
<1>1. Inv /\ [Next]_vars => UpInv' /\ ReadInv'
  BY RunningInv, OthersInv DEF Next
<1>2. Inv /\ [Next]_vars => Types'
  BY StepTypes DEF Inv
<1> QED
  BY <1>1, <1>2 DEF Inv

\* A worker has one process at most, however the coroutine, a pause, a stop, crashes
\* and the runs after a pause interleave.
THEOREM OneProcessAlways == Spec => []OneProcess
<1>1. Inv => OneProcess
  BY DEF Inv, UpInv, OneProcess
<1> QED
  BY <1>1, InitInv, StepInv, PTL DEF Spec

\* A coroutine that is over, or waits in a pause, has left no process, unless it was
\* cut off: in its finally, or as it sent the request.
THEOREM NoneLeftBehind == Spec => []NoneLeft
<1>1. Inv => NoneLeft
  BY DEF Inv, UpInv, NoneLeft, AtWork, Ended
<1> QED
  BY <1>1, InitInv, StepInv, PTL DEF Spec

\* An answer the worker wrote, and that can be read, counts, though the worker has ended
\* since: the wait is given up for the end of the process only if there is none.
THEOREM NoAnswerLost == Spec => []AnswerCounts
<1>1. Inv => AnswerCounts
  <2> SUFFICES ASSUME Inv, why = "death", proc[depth].drain # "broken"
               PROVE  proc[depth].said = "none"
    BY DEF AnswerCounts
  <2>1. depth \in Procs /\ proc[depth].drain = "eof" /\ proc[depth].answer = "none"
    BY DEF Inv, ReadInv
  <2>2. proc[depth].stdout = <<>>
    BY <2>1 DEF Inv, ReadInv, ReadOut
  <2> QED
    BY <2>1, <2>2 DEF Inv, ReadInv, Accounted
<1> QED
  BY <1>1, InitInv, StepInv, PTL DEF Spec

-----------------------------------------------------------------------------
(* The coroutine is finite.  What WF_vars(Running) adds is only that the   *)
(* steps are taken, but for the one that waits for the end of a pause.     *)

\* How many steps the coroutine takes at most from a place in which it has spawned d
\* processes, if it does not end: nine for each that is still to be spawned.
Way(at, d) ==
  9 * (MaxSpawns - d) +
    CASE at = "pipes" -> 9
      [] at = "send" -> 8
      [] at = "wait" -> 7
      [] at = "gather" -> 6
      [] at = "finally" -> 5
      [] at = "stop" -> 4
      [] at = "paused" -> 3
      [] OTHER -> 2

StepsLeft == IF pc \in Ended THEN 0 ELSE Way(pc, depth)
MostSteps == 9 * MaxSpawns + 2

LEMMA WayIs ==
  ASSUME NEW d \in 0..MaxSpawns
  PROVE  /\ MaxSpawns \in Nat
         /\ Way("pipes", d) = 9 * (MaxSpawns - d) + 9
         /\ Way("send", d) = 9 * (MaxSpawns - d) + 8
         /\ Way("wait", d) = 9 * (MaxSpawns - d) + 7
         /\ Way("gather", d) = 9 * (MaxSpawns - d) + 6
         /\ Way("finally", d) = 9 * (MaxSpawns - d) + 5
         /\ Way("stop", d) = 9 * (MaxSpawns - d) + 4
         /\ Way("paused", d) = 9 * (MaxSpawns - d) + 3
         /\ Way("spawn", d) = 9 * (MaxSpawns - d) + 2
  BY SpawnsAssumption DEF Way

LEMMA StepsBounded == Types => StepsLeft \in 0..MostSteps /\ (StepsLeft = 0 <=> pc \in Ended)
<1> SUFFICES ASSUME Types PROVE StepsLeft \in 0..MostSteps /\ (StepsLeft = 0 <=> pc \in Ended)
  OBVIOUS
<1>1. PICK d \in 0..MaxSpawns : d = depth
  BY DEF Types, TypeOK
<1>2. MaxSpawns \in Nat \ {0}
  BY SpawnsAssumption
<1>3. CASE pc \in Ended
  BY <1>2, <1>3 DEF StepsLeft, MostSteps
<1>4. CASE pc \notin Ended
  <2>1. PICK at \in AtWork \cup {"spawn", "paused"} : at = pc
    BY <1>4 DEF Types, TypeOK, AtWork
  <2>2. at # "spawn" => d >= 1
    BY <1>1, <2>1 DEF Types, Procs
  <2>3. Way(at, d) \in 1..MostSteps
    BY <1>2, <2>2 DEF Way, AtWork, MostSteps
  <2> QED
    BY <1>1, <1>4, <2>1, <2>3 DEF StepsLeft
<1> QED
  BY <1>3, <1>4

LEMMA NextBounded == (Types => StepsLeft \in Int)'
<1>1. Types => StepsLeft \in Int
  BY SpawnsAssumption, StepsBounded DEF MostSteps
<1> QED
  BY <1>1, PTL

\* The end of the coroutine, and a step to a place that is less far.
LEMMA Counts ==
  ASSUME Types, Types', pc \notin Ended,
         \/ pc' \in Ended
         \/ /\ depth' \in 0..MaxSpawns
            /\ pc' \notin Ended => Way(pc', depth') < Way(pc, depth)
  PROVE  StepsLeft' < StepsLeft
<1>1. StepsLeft \in Nat /\ StepsLeft # 0 /\ StepsLeft' \in Int
  BY SpawnsAssumption, StepsBounded, NextBounded DEF MostSteps
<1>2. CASE pc' \in Ended
  BY <1>1, <1>2 DEF StepsLeft, Ended
<1>3. CASE pc' \notin Ended
  BY <1>3 DEF StepsLeft, Ended, Way
<1> QED
  BY <1>2, <1>3

LEMMA StepCounts == ASSUME Types, Running \/ Cancel \/ CutOff PROVE StepsLeft' < StepsLeft
<1>1. PICK d \in 0..MaxSpawns : d = depth
  BY DEF Types, TypeOK
<1>2. Types' /\ MaxSpawns \in Nat
  BY RunningTypes, SpawnsAssumption
<1> USE DEF Ended
<1>3. CASE Spawn
  <2>1. pc = "spawn"
    BY <1>3 DEF Spawn
  <2>2. CASE pc' = "pipes" /\ depth' = d + 1
    <3>1. d + 1 \in 0..MaxSpawns
      BY <1>1, <1>2, <2>1 DEF Types
    <3>2. Way("pipes", d + 1) < Way("spawn", d)
      BY <1>2 DEF Way
    <3> QED
      BY <1>1, <1>2, <2>1, <2>2, <3>1, <3>2, Counts
  <2>3. CASE pc' = "raised"
    BY <1>2, <2>1, <2>3, Counts
  <2> QED
    BY <1>1, <1>3, <2>2, <2>3 DEF Spawn
<1>4. ASSUME NEW at, NEW to,
             \/ at = "pipes" /\ to \in {"send", "wait"}
             \/ at = "send" /\ to \in {"wait"}
             \/ at = "wait" /\ to \in {"gather", "finally"}
             \/ at = "gather" /\ to \in {"finally"}
             \/ at = "finally" /\ to \in {"stop"}
             \/ at = "stop" /\ to \in {"paused"}
             \/ at = "paused" /\ to \in {"spawn"},
             pc = at, pc' = to, depth' = depth
      PROVE  StepsLeft' < StepsLeft
  <2>1. Way(to, d) < Way(at, d)
    BY <1>2, <1>4 DEF Way
  <2> QED
    BY <1>1, <1>2, <1>4, <2>1, Counts
<1>5. ASSUME pc \notin Ended, pc' \in Ended PROVE StepsLeft' < StepsLeft
  BY <1>2, <1>5, Counts
<1>6. CASE Register \/ Sent \/ RequestRaises \/ GotAnswer \/ NoticeDeath \/ DiedWithoutAnswer \/ Deadline
  BY <1>4, <1>5, <1>6 DEF Register, Sent, RequestRaises, GotAnswer, NoticeDeath, DiedWithoutAnswer,
     Deadline, GiveUpWait
<1>7. CASE StopProcess \/ LeaveFinally \/ Requeue
  <2>1. LeaveFinally => pc' \in Ended \cup {"paused"}
    BY DEF LeaveFinally, Types, TypeOK
  <2> QED
    BY <1>4, <1>5, <1>7, <2>1 DEF StopProcess, LeaveFinally, Requeue
<1>8. CASE Cancel \/ CutOff
  BY <1>4, <1>5, <1>8 DEF Cancel, CutOff
<1> QED
  BY <1>3, <1>6, <1>7, <1>8 DEF Running

\* run_worker_rpc comes to its end after at most MostSteps steps, through answers, ends
\* of its processes, deadlines, pauses and runs anew: each of its steps leaves it fewer,
\* a cancellation too, and no handler and no process gives it more.
THEOREM WorkerIsFinite ==
  Spec => /\ [](StepsLeft \in 0..MostSteps /\ (StepsLeft = 0 <=> pc \in Ended))
          /\ [][/\ Running => StepsLeft' < StepsLeft
                /\ StepsLeft' <= StepsLeft]_vars
<1>1. Types /\ [Next]_vars =>
        [/\ Running => StepsLeft' < StepsLeft
         /\ StepsLeft' <= StepsLeft]_vars
  <2> SUFFICES ASSUME Types, [Next]_vars
               PROVE  /\ Running => StepsLeft' < StepsLeft
                      /\ StepsLeft' <= StepsLeft
    OBVIOUS
  <2>1. StepsLeft \in Int /\ StepsLeft' \in Int
    BY StepTypes, NextBounded, StepsBounded, SpawnsAssumption DEF MostSteps
  <2>2. CASE Running \/ Cancel \/ CutOff
    BY <2>1, <2>2, StepCounts
  <2>3. CASE ~(Running \/ Cancel \/ CutOff)
    <3>1. pc' = pc /\ depth' = depth
      BY <2>3 DEF Next, Handling, SignalTarget, TargetStopped, EndStop, ProcessStep, SignalledEnds,
         Crash, Pause, StopWorker, Resume, Inject, vars
    <3> QED
      BY <2>1, <2>3, <3>1 DEF StepsLeft, Way
  <2> QED
    BY <2>2, <2>3
<1>2. Types => StepsLeft \in 0..MostSteps /\ (StepsLeft = 0 <=> pc \in Ended)
  BY StepsBounded
<1> QED
  BY <1>1, <1>2, InitTypes, StepTypes, PTL DEF Spec
=============================================================================
