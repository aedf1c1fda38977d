-------------------------- MODULE StageFlow_proofs --------------------------
(***************************************************************************)
(* Proofs about StageFlow, for any requests, starts, limits of the loops,  *)
(* stages that may be skipped, with and without browser validation.        *)
(***************************************************************************)
EXTENDS StageFlow, FiniteSetTheorems, TLAPS

-----------------------------------------------------------------------------
(* The start stage and fresh numbers *)

\* Where some element of a set is the least, Min is that; so is Max the greatest.
LEMMA LeastIsMin ==
  ASSUME NEW S \in SUBSET Int, NEW m \in S, \A y \in S : m <= y
  PROVE  Min(S) = m
<1>1. \E x \in S : \A y \in S : x =< y
  OBVIOUS
<1>2. Min(S) \in S /\ \A y \in S : Min(S) =< y
  BY <1>1, Zenon DEF Min
<1>3. Min(S) \in Int /\ m \in Int /\ Min(S) <= m /\ m <= Min(S)
  BY <1>2
<1> QED
  BY <1>3

LEMMA GreatestIsMax ==
  ASSUME NEW S \in SUBSET Int, NEW m \in S, \A y \in S : m >= y
  PROVE  Max(S) = m
<1>1. \E x \in S : \A y \in S : x >= y
  OBVIOUS
<1>2. Max(S) \in S /\ \A y \in S : Max(S) >= y
  BY <1>1, Zenon DEF Max
<1>3. Max(S) \in Int /\ m \in Int /\ Max(S) >= m /\ m >= Max(S)
  BY <1>2
<1> QED
  BY <1>3

\* A small set of numbers has a least and a greatest one.
LEMMA SmallSets ==
  ASSUME NEW S \in SUBSET (0 .. 6), S # {}
  PROVE  /\ Min(S) \in S /\ \A y \in S : Min(S) <= y
         /\ Max(S) \in S /\ \A y \in S : Max(S) >= y
<1>1. \E m \in S : \A y \in S : m <= y
  <2>1. \/ 0 \in S \/ 1 \in S \/ 2 \in S \/ 3 \in S \/ 4 \in S \/ 5 \in S \/ 6 \in S
    <3>1. PICK x \in S : x \in 0 .. 6
      OBVIOUS
    <3>2. x = 0 \/ x = 1 \/ x = 2 \/ x = 3 \/ x = 4 \/ x = 5 \/ x = 6
      BY <3>1
    <3> QED
      BY <3>2
  <2>2. \A y \in S : y = 0 \/ y = 1 \/ y = 2 \/ y = 3 \/ y = 4 \/ y = 5 \/ y = 6
    OBVIOUS
  <2> QED
    BY <2>1, <2>2
<1>2. \E m \in S : \A y \in S : m >= y
  <2>1. \/ 0 \in S \/ 1 \in S \/ 2 \in S \/ 3 \in S \/ 4 \in S \/ 5 \in S \/ 6 \in S
    <3>1. PICK x \in S : x \in 0 .. 6
      OBVIOUS
    <3>2. x = 0 \/ x = 1 \/ x = 2 \/ x = 3 \/ x = 4 \/ x = 5 \/ x = 6
      BY <3>1
    <3> QED
      BY <3>2
  <2>2. \A y \in S : y = 0 \/ y = 1 \/ y = 2 \/ y = 3 \/ y = 4 \/ y = 5 \/ y = 6
    OBVIOUS
  <2> QED
    BY <2>1, <2>2
<1>3. Min(S) \in S /\ \A y \in S : Min(S) <= y
  BY <1>1, Zenon DEF Min
<1>4. Max(S) \in S /\ \A y \in S : Max(S) >= y
  BY <1>2, Zenon DEF Max
<1> QED
  BY <1>3, <1>4

\* Where a start begins: not before the stage asked for, behind all checkpoints, and
\* if it is later than what was asked for, behind the checkpoint of the one before.
LEMMA FirstFacts ==
  ASSUME checkpoints \in SUBSET (0 .. 6), NEW from \in 1 .. 6
  PROVE  /\ FirstStage(from) \in 1 .. 6 /\ FirstStage(from) >= from
         /\ \A c \in checkpoints : c < FirstStage(from) \/ FirstStage(from) = DEVELOP
         /\ FirstStage(from) > from =>
              {FirstStage(from) - 1, FirstStage(from)} \cap checkpoints # {}
<1> USE DEF INTERVIEW, DEVELOP, QUESTIONS
<1>1. PICK far : far = Furthest
  OBVIOUS
<1>2. /\ far \in checkpoints \cup {1} /\ far \in 1 .. 6 /\ \A c \in checkpoints : c <= far
  <2>1. checkpoints \cup {1} \in SUBSET (0 .. 6)
    OBVIOUS
  <2>2. far \in checkpoints \cup {1} /\ \A y \in checkpoints \cup {1} : far >= y
    BY <1>1, <2>1, SmallSets DEF Furthest
  <2> QED
    BY <2>1, <2>2
<1>3. CASE checkpoints = {} \/ far < from
  <2>1. FirstStage(from) = from
    BY <1>1, <1>3 DEF FirstStage
  <2> QED
    BY <1>2, <1>3, <2>1
<1>4. CASE checkpoints # {} /\ far >= from
  <2>0. checkpoints # {} /\ ~(Furthest < from)
    <3>1. ~(far < from)
      BY <1>2, <1>4
    <3> QED
      BY <1>1, <1>4, <3>1
  <2>1. PICK next : next = IF checkpoints = {0} THEN 1 ELSE IF far < 6 THEN far + 1 ELSE 6
    OBVIOUS
  <2>2. Min({far + 1, 6}) = IF far < 6 THEN far + 1 ELSE 6
    <3>1. CASE far < 6
      BY <1>2, <3>1, LeastIsMin
    <3>2. CASE far = 6
      BY <1>2, <3>2, LeastIsMin
    <3> QED
      BY <1>2, <3>1, <3>2
  <2>3. next >= from
    BY <1>2, <1>4, <2>1
  <2>4. Max({from, next}) = next
    BY <1>2, <2>1, <2>3, GreatestIsMax
  <2>5. FirstStage(from) = next
    <3>1. CASE checkpoints = {0}
      <4>1. ~(checkpoints = {} \/ Furthest < from)
        BY <2>0
      <4>2. FirstStage(from) = Max({from, 1})
        BY <3>1, <4>1 DEF FirstStage
      <4> QED
        BY <2>1, <2>4, <3>1, <4>2
    <3>2. CASE checkpoints # {0}
      <4>1. ~(checkpoints = {} \/ Furthest < from)
        BY <2>0
      <4>2. FirstStage(from) = Max({from, Min({far + 1, 6})})
        BY <1>1, <3>2, <4>1 DEF FirstStage
      <4> QED
        BY <2>1, <2>2, <2>4, <3>2, <4>2
    <3> QED
      BY <3>1, <3>2
  <2>6. next > from => {next - 1, next} \cap checkpoints # {}
    <3>1. CASE far \in checkpoints
      BY <1>2, <2>1, <3>1
    <3>2. CASE far \notin checkpoints
      <4>1. far = 1 /\ \A c \in checkpoints : c = 0
        BY <1>2, <3>2
      <4>2. checkpoints = {0}
        BY <1>4, <4>1
      <4> QED
        BY <1>2, <1>4, <2>1, <4>1, <4>2
    <3> QED
      BY <3>1, <3>2
  <2> QED
    BY <1>2, <1>4, <2>1, <2>3, <2>5, <2>6
<1> QED
  BY <1>2, <1>3, <1>4

\* Of more numbers than are in use one is fresh.
LEMMA FreshFits ==
  ASSUME NEW a, NEW b, NEW c, NEW d, NEW e
  PROVE  Fresh({a, b, c, d, e}) \in Nat /\ Fresh({a, b}) \in Nat
<1>1. ASSUME NEW used, IsFiniteSet(used), Cardinality(used) \in 0 .. 5
      PROVE  Fresh(used) \in Nat
  <2>1. PICK size : size = Cardinality(used)
    OBVIOUS
  <2>2. PICK S : S = 1 .. size + 1
    OBVIOUS
  <2>3. IsFiniteSet(S) /\ Cardinality(S) = size + 1 /\ S \in SUBSET (0 .. 6)
    <3>1. size + 1 \in Int /\ size \in 0 .. 5 /\ 1 \in Int
      BY <1>1, <2>1
    <3>2. IsFiniteSet(1 .. size + 1) /\ Cardinality(1 .. size + 1) = size + 1
      BY <3>1, FS_Interval
    <3>3. 1 .. size + 1 \in SUBSET (0 .. 6)
      BY <3>1
    <3> QED
      BY <2>2, <3>2, <3>3
  <2>4. ~(S \subseteq used)
    <3>1. S \in SUBSET used => Cardinality(S) <= Cardinality(used)
      BY <1>1, FS_Subset
    <3> QED
      BY <1>1, <2>1, <2>3, <3>1
  <2>5. S \ used \in SUBSET (0 .. 6) /\ S \ used # {}
    BY <2>3, <2>4
  <2>6. Min(S \ used) \in S
    BY <2>5, SmallSets
  <2> QED
    BY <2>1, <2>2, <2>3, <2>6 DEF Fresh
<1>2. IsFiniteSet({a}) /\ Cardinality({a}) = 1
  BY FS_Singleton
<1>3. IsFiniteSet({a, b}) /\ Cardinality({a, b}) \in 0 .. 2
  <2>1. {a, b} = {a} \cup {b}
    OBVIOUS
  <2> QED
    BY <1>2, <2>1, FS_AddElement
<1>4. IsFiniteSet({a, b, c}) /\ Cardinality({a, b, c}) \in 0 .. 3
  <2>1. {a, b, c} = {a, b} \cup {c}
    OBVIOUS
  <2> QED
    BY <1>3, <2>1, FS_AddElement
<1>5. IsFiniteSet({a, b, c, d}) /\ Cardinality({a, b, c, d}) \in 0 .. 4
  <2>1. {a, b, c, d} = {a, b, c} \cup {d}
    OBVIOUS
  <2> QED
    BY <1>4, <2>1, FS_AddElement
<1>6. IsFiniteSet({a, b, c, d, e}) /\ Cardinality({a, b, c, d, e}) \in 0 .. 5
  <2>1. {a, b, c, d, e} = {a, b, c, d} \cup {e}
    OBVIOUS
  <2> QED
    BY <1>5, <2>1, FS_AddElement
<1> QED
  BY <1>1, <1>3, <1>6

-----------------------------------------------------------------------------
(* Types *)

\* What a stage may have to save.
Saves ==
  {<<>>} \cup {<< <<"design_draft", n>> >> : n \in Nat}
    \cup {<< <<"validation_report", r>> >> : r \in Report}
    \cup {<< <<"devplan", n>>, <<"devplan_tasks", n>> >> : n \in Nat}
    \cup {<< <<"devplan_tasks", n>> >> : n \in Nat}
    \cup {<< <<"review_report", r>> >> : r \in Report}

Tasks == [at : Places, from : 1 .. 6, first : 1 .. 6, to : 0 .. 6, stage : 1 .. 7, prev : 0 .. 7,
          validations : 0 .. MaxValidate, reviews : 0 .. MaxReview, saving : Saves]

Kept ==
  /\ up \in BOOLEAN /\ starts \in 0 .. MaxStarts /\ current \in 0 .. 7
  /\ status \in {"absent", "running", "passed", "failed", "cancelled"}
  /\ rows \in [1 .. 7 -> StageStatus] /\ checkpoints \in SUBSET (0 .. 6)
  /\ artifacts \in Artifacts /\ files \in Artifacts

\* A stage that is at work is one of the stages; only validate and review are retried;
\* and a loop may be entered only with an attempt left.
Standing ==
  /\ task.at \in {"work", "save", "record", "retry", "passed"} => task.stage \in 1 .. 6
  /\ task.at = "retry" => task.stage \in {VALIDATE, REVIEW}
  /\ task.at \in {"row", "reset"} =>
       task.validations = 0 /\ task.reviews = 0 /\ task.stage <= DEVELOP
  /\ task.at \in {"save", "record"} => task.saving = <<>> \/ task.stage # INTERVIEW
  /\ task.at = "record" => task.saving # <<>>
  /\ \/ task.at \in {"loop", "work", "save", "record"} /\ task.stage <= VALIDATE
     \/ task.at = "passed" /\ task.stage < VALIDATE
     => task.validations < MaxValidate
  /\ \/ task.at \in {"loop", "work", "save", "record"} /\ task.stage <= REVIEW
     \/ task.at \in {"retry", "passed"} /\ task.stage < REVIEW
     => task.reviews < MaxReview

Types == Kept /\ task \in Tasks /\ Standing

Numbers == /\ INTERVIEW = 1 /\ DESIGN = 2 /\ VALIDATE = 3 /\ PLAN = 4 /\ REVIEW = 5
           /\ DEVELOP = 6 /\ BROWSER = 7 /\ QUESTIONS = 0 /\ Stage = 1 .. 6

LEMMA NumbersAre == Numbers
BY DEF Numbers, INTERVIEW, DESIGN, VALIDATE, PLAN, REVIEW, DEVELOP, BROWSER, QUESTIONS, Stage, STAGES

LEMMA TypesFit == Types => TypeOK
<1> SUFFICES ASSUME Types PROVE TypeOK
  OBVIOUS
<1>1. Numbers
  BY NumbersAre
<1>2. \A k \in 1 .. Len(task.saving) : task.saving[k][1] \in DOMAIN Nothing
  <2>1. task.saving \in Saves
    BY DEF Types, Tasks
  <2>2. {"design_draft", "validation_report", "devplan", "devplan_tasks", "review_report"}
          \subseteq DOMAIN Nothing
    BY DEF Nothing
  <2> SUFFICES ASSUME NEW k \in 1 .. Len(task.saving)
               PROVE  task.saving[k][1] \in {"design_draft", "validation_report", "devplan",
                                             "devplan_tasks", "review_report"}
    BY <2>2
  <2>3. CASE task.saving = <<>>
    BY <2>3
  <2>4. CASE \E n : task.saving = << <<"design_draft", n>> >>
    BY <2>4
  <2>5. CASE \E n : task.saving = << <<"validation_report", n>> >>
    BY <2>5
  <2>6. CASE \E n : task.saving = << <<"devplan", n>>, <<"devplan_tasks", n>> >>
    BY <2>6
  <2>7. CASE \E n : task.saving = << <<"devplan_tasks", n>> >>
    BY <2>7
  <2>8. CASE \E n : task.saving = << <<"review_report", n>> >>
    BY <2>8
  <2> QED
    BY <2>1, <2>3, <2>4, <2>5, <2>6, <2>7, <2>8 DEF Saves
<1> QED
  BY <1>1, <1>2 DEF Types, Kept, Tasks, TypeOK, Numbers

LEMMA InitTypes == Init => Types
<1> SUFFICES ASSUME Init PROVE Types
  OBVIOUS
<1>1. Nothing \in Artifacts
  BY DEF Nothing, NoReport, Artifacts, Report, Versions
<1>2. Idle \in Tasks
  BY BoundsAssumption DEF Idle, Tasks, Places, Saves
<1>3. rows \in [1 .. 7 -> StageStatus]
  BY NumbersAre DEF Init, Numbers, StageStatus
<1> QED
  BY <1>1, <1>2, <1>3, BoundsAssumption DEF Init, Types, Kept, Standing, Idle

\* What a stage makes can be saved.
LEMMA OutputsFit ==
  ASSUME Types, NEW verdict \in BOOLEAN
  PROVE  /\ Outputs(task.stage, verdict) \in Saves
         /\ task.stage = INTERVIEW => Outputs(task.stage, verdict) = <<>>
<1>1. Numbers
  BY NumbersAre
<1>2. artifacts.design_draft \in Versions /\ artifacts.devplan \in Versions
  BY DEF Types, Kept, Artifacts
<1>3. NewDraft \in Nat /\ NewPlan \in Nat
  <2>1. NewDraft \in Nat
    BY FreshFits DEF NewDraft
  <2>2. NewPlan \in Nat
    BY FreshFits DEF NewPlan
  <2> QED
    BY <2>1, <2>2
<1>4. \A d \in Versions : [of |-> d, passed |-> verdict] \in Report
  BY DEF Report
<1>5. CASE task.stage = DESIGN
  BY <1>1, <1>3, <1>5 DEF Outputs, Saves, Numbers
<1>6. CASE task.stage = VALIDATE
  <2>1. PICK r : r = [of |-> artifacts.design_draft, passed |-> verdict]
    OBVIOUS
  <2>2. r \in Report
    BY <1>2, <1>4, <2>1
  <2>3. Outputs(task.stage, verdict) = << <<"validation_report", r>> >>
    BY <1>1, <1>6, <2>1 DEF Outputs, Numbers
  <2>4. Outputs(task.stage, verdict) \in Saves
    BY <2>2, <2>3 DEF Saves
  <2> QED
    BY <1>1, <1>6, <2>4 DEF Numbers
<1>7. CASE task.stage = PLAN
  BY <1>1, <1>3, <1>7 DEF Outputs, Saves, Numbers
<1>8. CASE task.stage = REVIEW
  <2>1. PICK r : r = [of |-> artifacts.devplan, passed |-> verdict]
    OBVIOUS
  <2>2. r \in Report
    BY <1>2, <1>4, <2>1
  <2>3. Outputs(task.stage, verdict) = << <<"review_report", r>> >>
    BY <1>1, <1>8, <2>1 DEF Outputs, Numbers
  <2>4. Outputs(task.stage, verdict) \in Saves
    BY <2>2, <2>3 DEF Saves
  <2> QED
    BY <1>1, <1>8, <2>4 DEF Numbers
<1>9. CASE task.stage \notin {DESIGN, VALIDATE, PLAN, REVIEW}
  <2>1. Outputs(task.stage, verdict) = <<>>
    BY <1>9 DEF Outputs
  <2> QED
    BY <2>1 DEF Saves
<1> QED
  BY <1>1, <1>5, <1>6, <1>7, <1>8, <1>9 DEF Numbers

LEMMA SavesFit ==
  ASSUME NEW s \in Saves, s # <<>>, NEW x \in Artifacts
  PROVE  /\ Tail(s) \in Saves
         /\ [x EXCEPT ![Head(s)[1]] = Head(s)[2]] \in Artifacts
<1>1. ASSUME NEW n \in Nat, NEW name \in {"design_draft", "devplan", "devplan_tasks"}
      PROVE  [x EXCEPT ![name] = n] \in Artifacts
  BY DEF Artifacts, Versions
<1>2. ASSUME NEW r \in Report, NEW name \in {"validation_report", "review_report"}
      PROVE  [x EXCEPT ![name] = r] \in Artifacts
  BY DEF Artifacts
<1>3. ASSUME NEW n \in Nat, NEW name \in {"design_draft", "devplan_tasks"}, s = << <<name, n>> >>
      PROVE  /\ Tail(s) \in Saves
             /\ [x EXCEPT ![Head(s)[1]] = Head(s)[2]] \in Artifacts
  <2>1. Tail(s) = <<>> /\ Head(s)[1] = name /\ Head(s)[2] = n
    BY <1>3
  <2> QED
    BY <1>1, <2>1 DEF Saves
<1>4. ASSUME NEW r \in Report, NEW name \in {"validation_report", "review_report"},
             s = << <<name, r>> >>
      PROVE  /\ Tail(s) \in Saves
             /\ [x EXCEPT ![Head(s)[1]] = Head(s)[2]] \in Artifacts
  <2>1. Tail(s) = <<>> /\ Head(s)[1] = name /\ Head(s)[2] = r
    BY <1>4
  <2> QED
    BY <1>2, <2>1 DEF Saves
<1>5. ASSUME NEW n \in Nat, s = << <<"devplan", n>>, <<"devplan_tasks", n>> >>
      PROVE  /\ Tail(s) \in Saves
             /\ [x EXCEPT ![Head(s)[1]] = Head(s)[2]] \in Artifacts
  <2>1. Tail(s) = << <<"devplan_tasks", n>> >> /\ Head(s)[1] = "devplan" /\ Head(s)[2] = n
    BY <1>5
  <2> QED
    BY <1>1, <2>1 DEF Saves
<1> QED
  BY <1>3, <1>4, <1>5 DEF Saves

\* A directory, as it is given to a start, holds no plan of any start.
LEMMA FoundFits ==
  ASSUME NEW r, StartRequest(r)
  PROVE  files' \in Artifacts /\ ~HasPlan'
<1>1. PICK found \in Found :
        files' = [Nothing EXCEPT !.devplan = found.plan, !.devplan_tasks = found.tasks]
  BY DEF StartRequest
<1>2. PICK p, t : p = found.plan /\ t = found.tasks
  OBVIOUS
<1>3. files' = [Nothing EXCEPT !.devplan = p, !.devplan_tasks = t]
  BY <1>1, <1>2
<1>4. p \in {0, FOUND} /\ t \in {0, FOUND}
  BY <1>2, FoundAssumption
<1>5. 0 \in Versions /\ p \in Versions /\ t \in Versions
  BY <1>4 DEF Versions
<1>6. NoReport \in Report
  BY <1>5 DEF NoReport, Report
<1>7. Nothing \in Artifacts
  BY <1>5, <1>6 DEF Nothing, Artifacts
<1>8. files' \in Artifacts /\ files'.devplan = p /\ files'.devplan_tasks = t
  BY <1>3, <1>5, <1>7 DEF Artifacts
<1> QED
  BY <1>4, <1>8 DEF HasPlan

\* The types are kept by a start,
LEMMA StartTypes ==
  ASSUME Types, (\E r \in Requests : StartRequest(r)) \/ StartRow \/ ResetStage
  PROVE  Types'
<1>1. Numbers
  BY NumbersAre
<1>2. ASSUME NEW r \in Requests, StartRequest(r) PROVE Types'
  <2>1. r.from \in 1 .. 6 /\ r.to \in 1 .. 6
    BY <1>1, RequestsAssumption DEF Numbers
  <2>2. FirstStage(r.from) \in 1 .. 6
    BY <2>1, FirstFacts DEF Types, Kept
  <2>3. task' \in Tasks
    <3>1. PICK f : f = FirstStage(r.from)
      OBVIOUS
    <3>2. task' = [at |-> "row", from |-> r.from, first |-> f, to |-> r.to, stage |-> 1, prev |-> 0,
                   validations |-> 0, reviews |-> 0, saving |-> <<>>]
      BY <1>2, <3>1 DEF StartRequest, Idle
    <3>3. 0 \in 0 .. MaxValidate /\ 0 \in 0 .. MaxReview /\ <<>> \in Saves
      BY BoundsAssumption DEF Saves
    <3> QED
      BY <2>1, <2>2, <3>1, <3>2, <3>3 DEF Tasks, Places
  <2>4. Kept'
    <3>1. files' \in Artifacts
      BY <1>2, FoundFits
    <3>2. starts' \in 0 .. MaxStarts
      <4>1. starts \in 0 .. MaxStarts /\ starts < MaxStarts /\ starts' = starts + 1 /\ MaxStarts \in Nat
        BY <1>2, BoundsAssumption DEF StartRequest, Types, Kept
      <4> QED
        BY <4>1
    <3> QED
      BY <1>2, <3>1, <3>2 DEF StartRequest, Types, Kept
  <2>5. Standing'
    <3>1. /\ task'.at = "row" /\ task'.stage = 1
          /\ task'.validations = 0 /\ task'.reviews = 0
      BY <1>2 DEF StartRequest, Idle
    <3> QED
      BY <1>1, <3>1, BoundsAssumption DEF Standing, Numbers
  <2> QED
    BY <2>3, <2>4, <2>5 DEF Types
<1>3. CASE StartRow
  <2>1. task' = [task EXCEPT !.at = "reset"] /\ task.at = "row"
    BY <1>3 DEF StartRow
  <2>2. task' \in Tasks
    BY <2>1 DEF Types, Tasks, Places
  <2>3. Kept'
    BY <1>3 DEF StartRow, Types, Kept, Tasks
  <2>4. Standing'
    BY <2>1 DEF Types, Standing, Tasks
  <2> QED
    BY <2>2, <2>3, <2>4 DEF Types
<1>4. CASE ResetStage
  <2>1. Len(STAGES) = 6
    BY DEF STAGES
  <2>2. \/ task' = [task EXCEPT !.stage = task.stage + 1] /\ task.stage < 6
        \/ task' = [task EXCEPT !.at = "loop", !.stage = task.first]
    BY <1>4, <2>1 DEF ResetStage
  <2>3. task \in Tasks /\ task.at = "reset" /\ task.validations = 0 /\ task.reviews = 0
    BY <1>4 DEF ResetStage, Types, Standing
  <2>6. task' \in Tasks
    <3>1. CASE task' = [task EXCEPT !.stage = task.stage + 1] /\ task.stage < 6
      <4>1. task.stage + 1 \in 1 .. 7
        BY <2>3, <3>1 DEF Tasks
      <4> QED
        BY <2>3, <3>1, <4>1 DEF Tasks
    <3>2. CASE task' = [task EXCEPT !.at = "loop", !.stage = task.first]
      <4>1. task.first \in 1 .. 7 /\ "loop" \in Places
        BY <2>3 DEF Tasks, Places
      <4> QED
        BY <2>3, <3>2, <4>1 DEF Tasks
    <3> QED
      BY <2>2, <3>1, <3>2
  <2>4. Kept'
    BY <1>4 DEF ResetStage, Types, Kept, StageStatus
  <2>5. Standing'
    <3>1. /\ task'.validations = 0 /\ task'.reviews = 0 /\ task'.at \in {"reset", "loop"}
          /\ 0 < MaxValidate /\ 0 < MaxReview /\ (task'.at = "reset" => task'.stage <= 6)
      <4>1. CASE task' = [task EXCEPT !.stage = task.stage + 1] /\ task.stage < 6
        BY <2>3, <4>1, BoundsAssumption DEF Tasks
      <4>2. CASE task' = [task EXCEPT !.at = "loop", !.stage = task.first]
        BY <2>3, <4>2, BoundsAssumption DEF Tasks
      <4> QED
        BY <2>2, <4>1, <4>2
    <3> QED
      BY <1>1, <3>1 DEF Standing, Numbers
  <2> QED
    BY <2>4, <2>5, <2>6 DEF Types
<1> QED
  BY <1>2, <1>3, <1>4

\* by the work of a stage,
LEMMA WorkTypes ==
  ASSUME Types,
         \/ BeginStage \/ SaveQuestions \/ SaveWorkerPaused
         \/ (\E v \in BOOLEAN : Work(v)) \/ SaveFile \/ SaveRow
  PROVE  Types'
<1>1. Numbers
  BY NumbersAre
<1>2. CASE BeginStage
  <2>1. /\ task' = [task EXCEPT !.at = "work"] /\ task.at = "loop" /\ task.stage <= task.to
        /\ rows' = [rows EXCEPT ![task.stage] = "running"]
        /\ UNCHANGED <<up, starts, status, current, checkpoints, artifacts, files>>
    BY <1>2 DEF BeginStage, SetRow, AtEnd, Types, Tasks
  <2>2. task' \in Tasks
    BY <2>1 DEF Types, Tasks, Places
  <2>3. Kept'
    BY <2>1 DEF Types, Kept, StageStatus
  <2>4. Standing'
    BY <2>1 DEF Types, Standing, Tasks
  <2> QED
    BY <2>2, <2>3, <2>4 DEF Types
<1>3. CASE SaveQuestions \/ SaveWorkerPaused
  <2>1. \E c \in {0, 6} : checkpoints' = checkpoints \cup {c}
    BY <1>1, <1>3 DEF SaveQuestions, SaveWorkerPaused, AddCheckpoint, Numbers
  <2>2. UNCHANGED <<up, starts, status, current, rows, artifacts, files, task>>
    BY <1>3 DEF SaveQuestions, SaveWorkerPaused
  <2>3. Kept'
    BY <2>1, <2>2 DEF Types, Kept
  <2>4. Standing' /\ task' \in Tasks
    BY <2>2 DEF Types, Standing
  <2> QED
    BY <2>3, <2>4 DEF Types
<1>4. ASSUME NEW v \in BOOLEAN, Work(v) PROVE Types'
  <2>1. PICK s : s = Outputs(task.stage, v)
    OBVIOUS
  <2>2. s \in Saves /\ (task.stage = INTERVIEW => s = <<>>)
    BY <2>1, OutputsFit
  <2>3. task' = [task EXCEPT !.at = "save", !.saving = s] /\ task.at = "work"
    BY <1>4, <2>1 DEF Work
  <2>4. task' \in Tasks
    BY <2>2, <2>3 DEF Types, Tasks, Places
  <2>5. Kept'
    BY <1>4 DEF Work, Types, Kept
  <2>6. Standing'
    BY <2>2, <2>3 DEF Types, Standing, Tasks
  <2> QED
    BY <2>4, <2>5, <2>6 DEF Types
<1>5. CASE SaveFile
  <2>1. /\ task' = [task EXCEPT !.at = "record"] /\ task.at = "save" /\ task.saving # <<>>
        /\ task.saving \in Saves /\ files \in Artifacts
        /\ files' = [files EXCEPT ![Head(task.saving)[1]] = Head(task.saving)[2]]
    BY <1>5 DEF SaveFile, Types, Tasks, Kept
  <2>2. files' \in Artifacts
    BY <2>1, SavesFit
  <2>3. task' \in Tasks
    BY <2>1 DEF Types, Tasks, Places
  <2>4. Kept'
    BY <1>5, <2>2 DEF SaveFile, Types, Kept
  <2>5. Standing'
    BY <2>1 DEF Types, Standing, Tasks
  <2> QED
    BY <2>3, <2>4, <2>5 DEF Types
<1>6. CASE SaveRow
  <2>1. /\ task' = [task EXCEPT !.at = "save", !.saving = Tail(task.saving)] /\ task.at = "record"
        /\ task.saving \in Saves /\ artifacts \in Artifacts
        /\ artifacts' = [artifacts EXCEPT ![Head(task.saving)[1]] = Head(task.saving)[2]]
    BY <1>6 DEF SaveRow, Types, Tasks, Kept
  <2>2. task.saving # <<>>
    BY <2>1 DEF Types, Standing
  <2>3. artifacts' \in Artifacts /\ Tail(task.saving) \in Saves
    BY <2>1, <2>2, SavesFit
  <2>4. task' \in Tasks
    BY <2>1, <2>3 DEF Types, Tasks, Places
  <2>5. Kept'
    BY <1>6, <2>3 DEF SaveRow, Types, Kept
  <2>6. Standing'
    BY <2>1, <2>2 DEF Types, Standing, Tasks
  <2> QED
    BY <2>4, <2>5, <2>6 DEF Types
<1> QED
  BY <1>2, <1>3, <1>4, <1>5, <1>6

\* by its end and what follows,
LEMMA EndTypes ==
  ASSUME Types, Judge \/ Retry \/ SaveCheckpoint
  PROVE  Types'
<1>1. Numbers
  BY NumbersAre
<1>2. /\ task \in Tasks /\ task.validations \in Nat /\ task.reviews \in Nat
      /\ task.stage \in 1 .. 7 /\ MaxValidate \in Nat /\ MaxReview \in Nat
  BY BoundsAssumption DEF Types, Tasks
<1>3. CASE Judge
  <2>1. /\ task.at = "save"
        /\ rows' = [rows EXCEPT ![task.stage] = IF Rejected THEN "retrying" ELSE "passed"]
        /\ UNCHANGED <<up, starts, status, current, checkpoints, artifacts, files>>
    BY <1>3 DEF Judge, SetRow
  <2>2. PICK at : at = IF Rejected THEN "retry" ELSE "passed"
    OBVIOUS
  <2>3. PICK v : v = IF task.stage = VALIDATE THEN task.validations + 1 ELSE task.validations
    OBVIOUS
  <2>4. PICK w : w = IF task.stage = REVIEW /\ Rejected THEN task.reviews + 1 ELSE task.reviews
    OBVIOUS
  <2>5. task' = [task EXCEPT !.at = at, !.validations = v, !.reviews = w]
    BY <1>3, <2>2, <2>3, <2>4 DEF Judge
  <2>6. /\ at \in {"retry", "passed"} /\ task.stage \in 1 .. 6
        /\ at = "retry" => task.stage \in {3, 5}
    BY <1>1, <1>2, <2>1, <2>2 DEF Rejected, Numbers, Types, Standing
  <2>7. /\ task.stage <= 3 => task.validations < MaxValidate
        /\ task.stage <= 5 => task.reviews < MaxReview
    BY <1>1, <2>1 DEF Types, Standing, Numbers
  <2>8. /\ v \in 0 .. MaxValidate /\ w \in 0 .. MaxReview
        /\ task.stage < 3 => v < MaxValidate
        /\ task.stage < 5 => w < MaxReview
    <3>1. v \in 0 .. MaxValidate /\ (task.stage < 3 => v < MaxValidate)
      BY <1>1, <1>2, <2>3, <2>7 DEF Numbers, Tasks
    <3>2. w \in 0 .. MaxReview /\ (task.stage < 5 => w < MaxReview)
      BY <1>1, <1>2, <2>4, <2>7 DEF Numbers, Tasks
    <3> QED
      BY <3>1, <3>2
  <2>9. /\ task' \in Tasks /\ task'.at = at /\ task'.stage = task.stage
        /\ task'.validations = v /\ task'.reviews = w
    BY <1>2, <2>5, <2>6, <2>8 DEF Tasks, Places
  <2>10. Standing'
    BY <1>1, <2>6, <2>8, <2>9 DEF Standing, Numbers
  <2>11. Kept'
    BY <2>1 DEF Types, Kept, StageStatus
  <2> QED
    BY <2>9, <2>10, <2>11 DEF Types
<1>4. CASE Retry
  <2>1. /\ task.at = "retry" /\ task.stage \in {3, 5}
        /\ UNCHANGED <<up, starts, status, current, rows, checkpoints, artifacts, files>>
    BY <1>1, <1>4 DEF Retry, Types, Standing, Numbers
  <2>2. Kept'
    BY <2>1 DEF Types, Kept
  <2>3. CASE ~MayRetry
    <3>1. task' = [task EXCEPT !.at = "failing"]
      BY <1>4, <2>3 DEF Retry
    <3>2. task' \in Tasks /\ task'.at = "failing"
      BY <1>2, <3>1 DEF Tasks, Places
    <3> QED
      BY <2>2, <3>2 DEF Types, Standing
  <2>4. CASE MayRetry
    <3>1. PICK s : s = IF task.stage = VALIDATE THEN DESIGN ELSE PLAN
      OBVIOUS
    <3>2. task' = [task EXCEPT !.at = "loop", !.prev = task.stage, !.stage = s]
      BY <1>4, <2>4, <3>1 DEF Retry
    <3>3. (task.stage = 3 /\ s = 2) \/ (task.stage = 5 /\ s = 4)
      BY <1>1, <2>1, <3>1 DEF Numbers
    <3>4. /\ task' \in Tasks /\ task'.at = "loop" /\ task'.stage = s
          /\ task'.validations = task.validations /\ task'.reviews = task.reviews
      <4>1. task.stage \in 0 .. 7 /\ s \in 1 .. 7 /\ "loop" \in Places
        BY <3>3 DEF Places
      <4> QED
        BY <1>2, <3>2, <4>1 DEF Tasks
    <3>5. /\ task.stage = 3 => task.validations < MaxValidate /\ task.reviews < MaxReview
          /\ task.stage = 5 => task.reviews < MaxReview
      BY <1>1, <2>1, <2>4 DEF Numbers, MayRetry, Types, Standing
    <3>6. Standing'
      BY <1>1, <3>3, <3>4, <3>5 DEF Standing, Numbers
    <3> QED
      BY <2>2, <3>4, <3>6 DEF Types
  <2> QED
    BY <2>3, <2>4
<1>5. CASE SaveCheckpoint
  <2>1. /\ task.at = "passed" /\ task.stage \in 1 .. 6 /\ checkpoints' = checkpoints \cup {task.stage}
        /\ task' = [task EXCEPT !.at = "loop", !.prev = task.stage, !.stage = task.stage + 1]
        /\ UNCHANGED <<up, starts, status, current, rows, artifacts, files>>
    BY <1>5 DEF SaveCheckpoint, AddCheckpoint, Types, Standing
  <2>2. /\ task' \in Tasks /\ task'.at = "loop" /\ task'.stage = task.stage + 1
        /\ task'.validations = task.validations /\ task'.reviews = task.reviews
    <3>1. task.stage + 1 \in 1 .. 7 /\ task.stage \in 0 .. 7 /\ "loop" \in Places
      BY <2>1 DEF Places
    <3> QED
      BY <1>2, <2>1, <3>1 DEF Tasks
  <2>3. Kept'
    BY <2>1 DEF Types, Kept
  <2>4. Standing'
    BY <1>1, <2>1, <2>2 DEF Types, Standing, Numbers
  <2> QED
    BY <2>2, <2>3, <2>4 DEF Types
<1> QED
  BY <1>3, <1>4, <1>5

\* by the end of the run, by a crash and by the requests to skip a stage.
LEMMA OtherTypes ==
  ASSUME Types,
         \/ BeginBrowser \/ (\E v \in {"passed", "skipped", "failed"} : EndBrowser(v))
         \/ Finish \/ (\E o \in {"failed", "cancelled"} : Stop(o))
         \/ (\E i \in Skippable : SkipStage(i)) \/ Crash \/ Restore
  PROVE  Types'
<1>1. Numbers
  BY NumbersAre
<1>2. task \in Tasks
  BY DEF Types
<1>3. CASE BeginBrowser
  <2>1. /\ task' = [task EXCEPT !.at = "browse"] /\ rows' = [rows EXCEPT ![7] = "running"]
        /\ UNCHANGED <<up, starts, status, current, checkpoints, artifacts, files>>
    BY <1>1, <1>3 DEF BeginBrowser, SetRow, Numbers
  <2>2. task' \in Tasks /\ task'.at = "browse"
    BY <1>2, <2>1 DEF Tasks, Places
  <2>3. Kept'
    BY <2>1 DEF Types, Kept, StageStatus
  <2> QED
    BY <2>2, <2>3 DEF Types, Standing
<1>4. ASSUME NEW v \in {"passed", "skipped", "failed"}, EndBrowser(v) PROVE Types'
  <2>1. /\ rows' = [rows EXCEPT ![7] = v]
        /\ \/ task' = [task EXCEPT !.at = "failing"]
           \/ task' = [task EXCEPT !.at = "finish", !.prev = 7]
        /\ UNCHANGED <<up, starts, status, current, checkpoints, artifacts, files>>
    BY <1>1, <1>4 DEF EndBrowser, SetRow, Numbers
  <2>2. task' \in Tasks /\ task'.at \in {"failing", "finish"}
    <3>1. CASE task' = [task EXCEPT !.at = "failing"]
      BY <1>2, <3>1 DEF Tasks, Places
    <3>2. CASE task' = [task EXCEPT !.at = "finish", !.prev = 7]
      <4>1. 7 \in 0 .. 7 /\ "finish" \in Places
        BY DEF Places
      <4> QED
        BY <1>2, <3>2, <4>1 DEF Tasks
    <3> QED
      BY <2>1, <3>1, <3>2
  <2>3. Kept'
    BY <2>1 DEF Types, Kept, StageStatus
  <2> QED
    BY <2>2, <2>3 DEF Types, Standing
<1>5. CASE Finish
  <2>1. /\ task' = [task EXCEPT !.at = "none"] /\ status' = "passed" /\ current' = task.prev
        /\ UNCHANGED <<up, starts, rows, checkpoints, artifacts, files>>
    BY <1>5 DEF Finish
  <2>2. task' \in Tasks /\ task'.at = "none"
    BY <1>2, <2>1 DEF Tasks, Places
  <2>3. Kept'
    BY <1>2, <2>1 DEF Types, Kept, Tasks
  <2> QED
    BY <2>2, <2>3 DEF Types, Standing
<1>6. ASSUME NEW o \in {"failed", "cancelled"}, Stop(o) PROVE Types'
  <2>1. /\ task' = [task EXCEPT !.at = "none"] /\ status' = o
        /\ UNCHANGED <<up, starts, current, rows, checkpoints, artifacts, files>>
    BY <1>6 DEF Stop
  <2>2. task' \in Tasks /\ task'.at = "none"
    BY <1>2, <2>1 DEF Tasks, Places
  <2>3. Kept'
    BY <2>1 DEF Types, Kept
  <2> QED
    BY <2>2, <2>3 DEF Types, Standing
<1>7. ASSUME NEW i \in Skippable, SkipStage(i) PROVE Types'
  <2>1. /\ rows' = [rows EXCEPT ![i] = IF rows[i] = "absent" THEN rows[i] ELSE "skipped"]
        /\ UNCHANGED <<up, starts, status, current, checkpoints, artifacts, files, task>>
    BY <1>7 DEF SkipStage
  <2>2. rows' \in [1 .. 7 -> StageStatus]
    BY <2>1 DEF Types, Kept, StageStatus
  <2> QED
    BY <2>1, <2>2 DEF Types, Kept, Standing
<1>8. CASE Crash
  <2>1. Idle \in Tasks /\ Idle.at = "none"
    BY BoundsAssumption DEF Idle, Tasks, Places, Saves
  <2> QED
    BY <1>8, <2>1 DEF Crash, Types, Kept, Standing
<1>9. CASE Restore
  BY <1>9 DEF Restore, Types, Kept, Standing
<1> QED
  BY <1>3, <1>4, <1>5, <1>6, <1>7, <1>8, <1>9

LEMMA StepTypes == Types /\ [Next]_vars => Types'
<1> SUFFICES ASSUME Types, [Next]_vars PROVE Types'
  OBVIOUS
<1>1. CASE UNCHANGED vars
  BY <1>1 DEF vars, Types, Kept, Standing
<1>2. CASE Next
  BY <1>2, StartTypes, WorkTypes, EndTypes, OtherTypes DEF Next, TaskStep
<1> QED
  BY <1>1, <1>2

\* The rows, the artifacts and the task have their types; in particular a start has no
\* more than the attempts its limits allow.
THEOREM TypeCorrect == Spec => []TypeOK
BY InitTypes, StepTypes, TypesFit, PTL DEF Spec

-----------------------------------------------------------------------------
(* The order of the stages *)

\* The task is at a stage.
Under == task.at \in {"loop", "work", "save", "record", "retry", "passed"}

\* A start begins behind the checkpoints, and so is the task always, but for a stage
\* that is done once more: develop, and one that a report sent it back to.
Ahead ==
  /\ task.at \in {"row", "reset"} =>
       \A c \in checkpoints : c < task.first \/ task.first = DEVELOP
  /\ Under => \A c \in checkpoints :
       \/ c < task.stage
       \/ c = task.stage /\ (c = DEVELOP \/ (c \in {DESIGN, PLAN} /\ task.prev > c))

\* What stands before the task has passed, if the start did not ask for its stage.
Entered ==
  /\ task.at \in {"row", "reset"} /\ task.first > task.from =>
       {task.first - 1, task.first} \cap checkpoints # {}
  /\ Under /\ task.stage > task.from =>
       {task.stage - 1, task.stage} \cap checkpoints # {}

Order == Ahead /\ Entered

\* What the task has left behind is done, and stays so when the run has passed.
Did(i) == i \in checkpoints /\ rows[i] \in {"passed", "skipped"}

Behind ==
  /\ Under => \A i \in task.first .. task.stage - 1 : Did(i)
  /\ task.at = "passed" => rows[task.stage] \in {"passed", "skipped"}
  /\ task.at \in {"browse", "finish"} \/ (task.at = "none" /\ status = "passed") =>
       \A i \in task.first .. task.to : Did(i)

-----------------------------------------------------------------------------
(* Reports, drafts and plans *)

Accepts(report, n) == report = [of |-> n, passed |-> TRUE]

\* What a stage has still to save, and what it has saved: a report is about the latest
\* draft or plan, and a plan is whole, in rows and files, when all of it is saved.
Saving ==
  task.at \in {"save", "record"} =>
    \/ /\ task.saving = <<>> /\ task.at = "save"
       /\ task.stage = VALIDATE => artifacts.validation_report.of = artifacts.design_draft
       /\ task.stage = PLAN => /\ files.devplan = artifacts.devplan
                               /\ files.devplan_tasks = artifacts.devplan
       /\ task.stage = REVIEW => artifacts.review_report.of = artifacts.devplan
    \/ task.stage = DESIGN /\ \E n \in Nat : task.saving = << <<"design_draft", n>> >>
    \/ task.stage = VALIDATE /\ \E r \in Report :
         r.of = artifacts.design_draft /\ task.saving = << <<"validation_report", r>> >>
    \/ task.stage = PLAN /\ \E n \in Nat :
         \/ /\ task.saving = << <<"devplan", n>>, <<"devplan_tasks", n>> >>
            /\ task.at = "record" => files.devplan = n
         \/ /\ task.saving = << <<"devplan_tasks", n>> >>
            /\ files.devplan = n /\ artifacts.devplan = n
            /\ task.at = "record" => files.devplan_tasks = n
    \/ task.stage = REVIEW /\ \E r \in Report :
         r.of = artifacts.devplan /\ task.saving = << <<"review_report", r>> >>

\* A checkpoint of validate or review, or the end of its loop, comes with a report that
\* passed the latest draft or plan.
Judged ==
  /\ VALIDATE \in checkpoints \/ (task.at = "passed" /\ task.stage = VALIDATE) =>
       Accepts(artifacts.validation_report, artifacts.design_draft)
  /\ REVIEW \in checkpoints \/ (task.at = "passed" /\ task.stage = REVIEW) =>
       Accepts(artifacts.review_report, artifacts.devplan)

\* A start that began before the plan was made, or has made one since, has its own.
Own == task.first <= PLAN \/ HasPlan

\* The directory of a start has a plan of a start only if this one made it, and then it is
\* the one of the rows, and review comes between it and develop.
Planned ==
  /\ task.at \in {"row", "reset"} \/ (Under /\ task.stage < PLAN) => ~HasPlan
  /\ Own /\ Under /\ (task.stage > PLAN \/ (task.stage = PLAN /\ task.at = "passed")) =>
       files.devplan = artifacts.devplan /\ files.devplan_tasks = artifacts.devplan
  /\ Own /\ Under /\ task.stage > REVIEW => REVIEW \in checkpoints

Made == Saving /\ Judged /\ Planned

\* Most of what the task does leaves it at its stage,
LEMMA Stays ==
  ASSUME Types, BeginStage \/ (\E v \in BOOLEAN : Work(v)) \/ SaveFile \/ SaveRow \/ Judge
  PROVE  /\ Under /\ Under' /\ checkpoints' = checkpoints /\ status' = status
         /\ task'.stage = task.stage /\ task'.prev = task.prev /\ task'.from = task.from
         /\ task'.first = task.first /\ task'.to = task.to
<1>1. task \in Tasks
  BY DEF Types
<1>2. CASE BeginStage
  BY <1>1, <1>2 DEF BeginStage, Under, Tasks
<1>3. ASSUME NEW v \in BOOLEAN, Work(v)
      PROVE  /\ Under /\ Under' /\ checkpoints' = checkpoints /\ status' = status
             /\ task'.stage = task.stage /\ task'.prev = task.prev /\ task'.from = task.from
             /\ task'.first = task.first /\ task'.to = task.to
  BY <1>1, <1>3 DEF Work, Under, Tasks
<1>4. CASE SaveFile
  BY <1>1, <1>4 DEF SaveFile, Under, Tasks
<1>5. CASE SaveRow
  BY <1>1, <1>5 DEF SaveRow, Under, Tasks
<1>6. CASE Judge
  BY <1>1, <1>6 DEF Judge, Under, Tasks
<1> QED
  BY <1>2, <1>3, <1>4, <1>5, <1>6

\* or ends it.
Over == task.at \in {"browse", "finish", "failing", "none"}

LEMMA Leaves ==
  ASSUME Types,
         \/ BeginBrowser \/ (\E v \in {"passed", "skipped", "failed"} : EndBrowser(v))
         \/ Finish \/ (\E o \in {"failed", "cancelled"} : Stop(o)) \/ Crash
         \/ (Retry /\ ~MayRetry)
  PROVE  Over' /\ UNCHANGED <<checkpoints, artifacts, files>>
<1>1. task \in Tasks
  BY DEF Types
<1>2. CASE BeginBrowser
  BY <1>1, <1>2 DEF BeginBrowser, Over, Tasks
<1>3. ASSUME NEW v \in {"passed", "skipped", "failed"}, EndBrowser(v)
      PROVE  Over' /\ UNCHANGED <<checkpoints, artifacts, files>>
  BY <1>1, <1>3 DEF EndBrowser, Over, Tasks
<1>4. CASE Finish
  BY <1>1, <1>4 DEF Finish, Over, Tasks
<1>5. ASSUME NEW o \in {"failed", "cancelled"}, Stop(o)
      PROVE  Over' /\ UNCHANGED <<checkpoints, artifacts, files>>
  BY <1>1, <1>5 DEF Stop, Over, Tasks
<1>6. CASE Crash
  BY <1>6 DEF Crash, Over, Idle
<1>7. CASE Retry /\ ~MayRetry
  BY <1>1, <1>7 DEF Retry, Over, Tasks
<1> QED
  BY <1>2, <1>3, <1>4, <1>5, <1>6, <1>7

\* What a retry and a checkpoint do to the task.
LEMMA Moves ==
  ASSUME Types
  PROVE  /\ Retry /\ MayRetry =>
              /\ Under /\ task'.at = "loop" /\ task'.prev = task.stage
              /\ \/ task.stage = VALIDATE /\ task'.stage = DESIGN
                 \/ task.stage = REVIEW /\ task'.stage = PLAN
              /\ task'.first = task.first /\ task'.to = task.to /\ task'.from = task.from
              /\ UNCHANGED <<status, rows, checkpoints, artifacts, files>>
         /\ SaveCheckpoint =>
              /\ Under /\ task.at = "passed" /\ task'.at = "loop" /\ task'.stage = task.stage + 1
              /\ task'.first = task.first /\ task'.to = task.to /\ task'.from = task.from
              /\ checkpoints' = checkpoints \cup {task.stage} /\ task.stage \in 1 .. 6
              /\ UNCHANGED <<status, rows, artifacts, files>>
<1>1. task \in Tasks /\ Standing
  BY DEF Types
<1>2. ASSUME Retry, MayRetry
      PROVE  /\ Under /\ task'.at = "loop" /\ task'.prev = task.stage
             /\ \/ task.stage = VALIDATE /\ task'.stage = DESIGN
                \/ task.stage = REVIEW /\ task'.stage = PLAN
             /\ task'.first = task.first /\ task'.to = task.to /\ task'.from = task.from
             /\ UNCHANGED <<status, rows, checkpoints, artifacts, files>>
  <2>1. PICK s : s = IF task.stage = VALIDATE THEN DESIGN ELSE PLAN
    OBVIOUS
  <2>2. task' = [task EXCEPT !.at = "loop", !.prev = task.stage, !.stage = s]
    BY <1>2, <2>1 DEF Retry
  <2>3. task.at = "retry" /\ task.stage \in {VALIDATE, REVIEW}
    BY <1>1, <1>2 DEF Retry, Standing
  <2> QED
    BY <1>1, <1>2, <2>1, <2>2, <2>3 DEF Retry, Under, Tasks
<1>3. ASSUME SaveCheckpoint
      PROVE  /\ Under /\ task.at = "passed" /\ task'.at = "loop" /\ task'.stage = task.stage + 1
             /\ task'.first = task.first /\ task'.to = task.to /\ task'.from = task.from
             /\ checkpoints' = checkpoints \cup {task.stage} /\ task.stage \in 1 .. 6
             /\ UNCHANGED <<status, rows, artifacts, files>>
  BY <1>1, <1>3 DEF SaveCheckpoint, AddCheckpoint, Under, Tasks, Standing
<1> QED
  BY <1>2, <1>3

\* What a start does to the task.
LEMMA Starts ==
  ASSUME Types
  PROVE  /\ \A r \in Requests : StartRequest(r) =>
              /\ task'.at = "row" /\ task'.from = r.from /\ task'.first = FirstStage(r.from)
              /\ r.from \in 1 .. 6 /\ ~HasPlan' /\ UNCHANGED <<rows, checkpoints, artifacts>>
         /\ StartRow =>
              /\ task.at = "row" /\ task'.at = "reset" /\ task'.from = task.from
              /\ task'.first = task.first /\ UNCHANGED <<rows, checkpoints, artifacts, files>>
         /\ ResetStage =>
              /\ task.at = "reset" /\ task'.from = task.from /\ task'.first = task.first
              /\ \/ task'.at = "reset"
                 \/ task'.at = "loop" /\ task'.stage = task.first
              /\ UNCHANGED <<checkpoints, artifacts, files>>
<1>1. task \in Tasks /\ \A r \in Requests : r.from \in 1 .. 6
  BY NumbersAre, RequestsAssumption DEF Types, Numbers
<1>2. ASSUME NEW r \in Requests, StartRequest(r)
      PROVE  /\ task'.at = "row" /\ task'.from = r.from /\ task'.first = FirstStage(r.from)
             /\ r.from \in 1 .. 6 /\ ~HasPlan' /\ UNCHANGED <<rows, checkpoints, artifacts>>
  <2>1. ~HasPlan'
    BY <1>2, FoundFits
  <2> QED
    BY <1>1, <1>2, <2>1 DEF StartRequest, Idle
<1>3. ASSUME StartRow
      PROVE  /\ task.at = "row" /\ task'.at = "reset" /\ task'.from = task.from
             /\ task'.first = task.first /\ UNCHANGED <<rows, checkpoints, artifacts, files>>
  BY <1>1, <1>3 DEF StartRow, Tasks
<1>4. ASSUME ResetStage
      PROVE  /\ task.at = "reset" /\ task'.from = task.from /\ task'.first = task.first
             /\ \/ task'.at = "reset"
                \/ task'.at = "loop" /\ task'.stage = task.first
             /\ UNCHANGED <<checkpoints, artifacts, files>>
  <2>1. \/ task' = [task EXCEPT !.stage = task.stage + 1]
        \/ task' = [task EXCEPT !.at = "loop", !.stage = task.first]
    BY <1>4 DEF ResetStage
  <2>2. CASE task' = [task EXCEPT !.stage = task.stage + 1]
    BY <1>1, <1>4, <2>2 DEF ResetStage, Tasks
  <2>3. CASE task' = [task EXCEPT !.at = "loop", !.stage = task.first]
    BY <1>1, <1>4, <2>3 DEF ResetStage, Tasks
  <2> QED
    BY <2>1, <2>2, <2>3
<1> QED
  BY <1>2, <1>3, <1>4

LEMMA InitOrder == Init => Order
BY DEF Init, Idle, Order, Ahead, Entered, Under

LEMMA StepOrder == Types /\ Order /\ [Next]_vars => Order'
<1> SUFFICES ASSUME Types, Order, [Next]_vars PROVE Order'
  OBVIOUS
<1>1. Numbers /\ checkpoints \in SUBSET (0 .. 6) /\ task.stage \in 1 .. 7 /\ task.first \in 1 .. 6
      /\ task.from \in 1 .. 6
  BY NumbersAre DEF Types, Kept, Tasks
<1>2. ASSUME NEW r \in Requests, StartRequest(r) PROVE Order'
  <2>1. PICK f : f = FirstStage(r.from)
    OBVIOUS
  <2>2. /\ task'.at = "row" /\ task'.from = r.from /\ task'.first = f
        /\ r.from \in 1 .. 6 /\ checkpoints' = checkpoints
    BY <1>2, <2>1, Starts
  <2>3. /\ \A c \in checkpoints : c < f \/ f = DEVELOP
        /\ f > r.from => {f - 1, f} \cap checkpoints # {}
    BY <1>1, <2>1, <2>2, FirstFacts
  <2> QED
    BY <2>2, <2>3 DEF Order, Ahead, Entered, Under
<1>3. CASE StartRow
  <2>1. /\ task.at = "row" /\ task'.at = "reset" /\ task'.from = task.from
        /\ task'.first = task.first /\ checkpoints' = checkpoints
    BY <1>3, Starts
  <2> QED
    BY <2>1 DEF Order, Ahead, Entered, Under
<1>4. CASE ResetStage
  <2>1. /\ task.at = "reset" /\ task'.from = task.from /\ task'.first = task.first
        /\ \/ task'.at = "reset"
           \/ task'.at = "loop" /\ task'.stage = task.first
        /\ checkpoints' = checkpoints
    BY <1>4, Starts
  <2>2. \A c \in checkpoints : c < task.first \/ (c = task.first /\ c = DEVELOP)
    BY <1>1, <2>1 DEF Numbers, Order, Ahead
  <2>3. task.first > task.from => {task.first - 1, task.first} \cap checkpoints # {}
    BY <2>1 DEF Order, Entered
  <2>4. CASE task'.at = "reset"
    BY <2>1, <2>4 DEF Order, Ahead, Entered, Under
  <2>5. CASE task'.at = "loop" /\ task'.stage = task.first
    BY <2>1, <2>2, <2>3, <2>5 DEF Order, Ahead, Entered, Under
  <2> QED
    BY <2>1, <2>4, <2>5
<1>5. CASE BeginStage \/ (\E v \in BOOLEAN : Work(v)) \/ SaveFile \/ SaveRow \/ Judge
  <2>1. /\ Under /\ Under' /\ checkpoints' = checkpoints
        /\ task'.stage = task.stage /\ task'.prev = task.prev /\ task'.from = task.from
    BY <1>5, Stays
  <2>2. task'.at \notin {"row", "reset"}
    BY <2>1 DEF Under
  <2> QED
    BY <2>1, <2>2 DEF Order, Ahead, Entered
<1>6. CASE SaveQuestions
  <2>1. Under /\ task' = task /\ task.stage = 1 /\ checkpoints' = checkpoints \cup {0}
    BY <1>1, <1>6 DEF SaveQuestions, AddCheckpoint, Under, Numbers
  <2>2. task.at \notin {"row", "reset"}
    BY <2>1 DEF Under
  <2> QED
    BY <1>1, <2>1, <2>2 DEF Order, Ahead, Entered, Under
<1>12. CASE SaveWorkerPaused
  <2>1. Under /\ task' = task /\ task.stage = 6 /\ checkpoints' = checkpoints \cup {6}
    BY <1>1, <1>12 DEF SaveWorkerPaused, AddCheckpoint, Under, Numbers
  <2>2. task.at \notin {"row", "reset"}
    BY <2>1 DEF Under
  <2>3. Ahead'
    BY <1>1, <2>1, <2>2 DEF Order, Ahead, Under, Numbers
  <2>4. Entered'
    BY <1>1, <2>1, <2>2 DEF Order, Entered, Under, Numbers
  <2> QED
    BY <2>3, <2>4 DEF Order
<1>7. CASE Retry /\ MayRetry
  <2>1. /\ Under /\ task'.at = "loop" /\ task'.prev = task.stage /\ task'.from = task.from
        /\ \/ task.stage = 3 /\ task'.stage = 2
           \/ task.stage = 5 /\ task'.stage = 4
        /\ checkpoints' = checkpoints
    BY <1>1, <1>7, Moves DEF Numbers
  <2>2. \A c \in checkpoints : c < task.stage
    BY <1>1, <2>1 DEF Order, Ahead, Numbers
  <2>3. \A c \in checkpoints : c < task'.stage \/ (c = task'.stage /\ c \in {DESIGN, PLAN} /\ task'.prev > c)
    BY <1>1, <2>1, <2>2 DEF Numbers
  <2>4. task'.stage > task.from => {task'.stage - 1, task'.stage} \cap checkpoints # {}
    <3>1. task.stage > task.from => {task.stage - 1, task.stage} \cap checkpoints # {}
      BY <2>1 DEF Order, Entered
    <3>2. task.stage \notin checkpoints
      BY <1>1, <2>2
    <3>3. task.stage > task.from => task.stage - 1 \in checkpoints
      BY <3>1, <3>2
    <3> QED
      BY <1>1, <2>1, <3>3
  <2> QED
    BY <2>1, <2>3, <2>4 DEF Order, Ahead, Entered, Under
<1>8. CASE SaveCheckpoint
  <2>1. /\ Under /\ task'.at = "loop" /\ task'.stage = task.stage + 1 /\ task'.from = task.from
        /\ checkpoints' = checkpoints \cup {task.stage} /\ task.stage \in 1 .. 6
    BY <1>8, Moves
  <2>2. \A c \in checkpoints : c <= task.stage
    BY <1>1, <2>1 DEF Order, Ahead
  <2>3. \A c \in checkpoints' : c < task'.stage
    BY <1>1, <2>1, <2>2
  <2>4. task'.stage - 1 \in checkpoints'
    BY <2>1
  <2> QED
    BY <2>1, <2>3, <2>4 DEF Order, Ahead, Entered, Under
<1>9. CASE \/ BeginBrowser \/ (\E v \in {"passed", "skipped", "failed"} : EndBrowser(v))
           \/ Finish \/ (\E o \in {"failed", "cancelled"} : Stop(o)) \/ Crash
           \/ (Retry /\ ~MayRetry)
  <2>1. Over'
    BY <1>9, Leaves
  <2> QED
    BY <2>1 DEF Over, Order, Ahead, Entered, Under
<1>10. ASSUME NEW i \in Skippable, SkipStage(i) PROVE Order'
  BY <1>10 DEF SkipStage, Order, Ahead, Entered, Under
<1>11. CASE Restore \/ UNCHANGED vars
  BY <1>11 DEF Restore, vars, Order, Ahead, Entered, Under
<1> QED
  BY <1>2, <1>3, <1>4, <1>5, <1>6, <1>7, <1>8, <1>9, <1>10, <1>11, <1>12 DEF Next, TaskStep

\* However often a run crashes and is started anew, nothing that has a checkpoint is
\* done again but for a retry.
THEOREM NothingRepeated == Spec => NoStageRepeated
<1>1. Types /\ Order => (Begins /\ task.stage \in checkpoints /\ task.stage # DEVELOP => task.prev > task.stage)
  <2> SUFFICES ASSUME Types, Order, Begins, task.stage \in checkpoints, task.stage # DEVELOP
               PROVE  task.prev > task.stage
    OBVIOUS
  <2>1. Under
    BY DEF Begins, Under
  <2>2. task.stage \in 1 .. 7
    BY DEF Types, Tasks
  <2> QED
    BY <2>1, <2>2 DEF Order, Ahead
<1> QED
  BY <1>1, InitTypes, StepTypes, InitOrder, StepOrder, PTL DEF Spec, NoStageRepeated

-----------------------------------------------------------------------------
(* A run that passed is whole *)

LEMMA InitBehind == Init => Behind
BY DEF Init, Idle, Behind, Under

LEMMA StepBehind == Types /\ Behind /\ [Next]_vars => Behind'
<1> SUFFICES ASSUME Types, Behind, [Next]_vars PROVE Behind'
  OBVIOUS
<1>1. /\ Numbers /\ checkpoints \in SUBSET (0 .. 6) /\ task.stage \in 1 .. 7 /\ task.first \in 1 .. 6
      /\ task.to \in 0 .. 6 /\ rows \in [1 .. 7 -> StageStatus] /\ task \in Tasks
  BY NumbersAre DEF Types, Kept, Tasks
<1>2. ASSUME NEW r \in Requests, StartRequest(r) PROVE Behind'
  <2>1. task'.at = "row"
    BY <1>2, Starts
  <2> QED
    BY <2>1 DEF Behind, Under
<1>3. CASE StartRow
  <2>1. task'.at = "reset"
    BY <1>3, Starts
  <2> QED
    BY <2>1 DEF Behind, Under
<1>4. CASE ResetStage
  <2>1. /\ task'.first = task.first
        /\ \/ task'.at = "reset"
           \/ task'.at = "loop" /\ task'.stage = task.first
    BY <1>4, Starts
  <2>2. task.first .. task.first - 1 = {}
    BY <1>1
  <2>3. CASE task'.at = "reset"
    BY <2>3 DEF Behind, Under
  <2>4. CASE task'.at = "loop" /\ task'.stage = task.first
    BY <2>1, <2>2, <2>4 DEF Behind, Under
  <2> QED
    BY <2>1, <2>3, <2>4
\* The row of the stage the task is at is not one of those behind it.
<1>5. ASSUME Under, Under', checkpoints' = checkpoints, task'.stage = task.stage,
             task'.first = task.first,
             \A i \in 1 .. 7 \ {task.stage} : rows'[i] = rows[i],
             task'.at = "passed" => rows'[task.stage] \in {"passed", "skipped"}
      PROVE  Behind'
  <2>1. \A i \in task.first .. task.stage - 1 : Did(i)
    BY <1>5 DEF Behind
  <2>2. \A i \in task.first .. task.stage - 1 : i \in 1 .. 7 \ {task.stage}
    BY <1>1
  <2>3. \A i \in task'.first .. task'.stage - 1 : Did(i)'
    BY <1>5, <2>1, <2>2 DEF Did
  <2>4. task'.at \notin {"browse", "finish", "none"}
    BY <1>5 DEF Under
  <2> QED
    BY <1>5, <2>3, <2>4 DEF Behind
<1>6. CASE BeginStage \/ (\E v \in BOOLEAN : Work(v)) \/ SaveFile \/ SaveRow \/ Judge
  <2>1. /\ Under /\ Under' /\ checkpoints' = checkpoints
        /\ task'.stage = task.stage /\ task'.first = task.first
    BY <1>6, Stays
  <2>2. CASE BeginStage
    <3>1. rows' = [rows EXCEPT ![task.stage] = "running"] /\ task'.at = "work"
      BY <1>1, <2>2 DEF BeginStage, SetRow, Tasks
    <3> QED
      BY <1>1, <1>5, <2>1, <3>1
  <2>3. CASE (\E v \in BOOLEAN : Work(v)) \/ SaveFile \/ SaveRow
    <3>1. rows' = rows /\ task'.at # "passed"
      <4>1. ASSUME NEW v \in BOOLEAN, Work(v) PROVE rows' = rows /\ task'.at # "passed"
        BY <1>1, <4>1 DEF Work, Tasks
      <4>2. CASE SaveFile
        BY <1>1, <4>2 DEF SaveFile, Tasks
      <4>3. CASE SaveRow
        BY <1>1, <4>3 DEF SaveRow, Tasks
      <4> QED
        BY <2>3, <4>1, <4>2, <4>3
    <3> QED
      BY <1>5, <2>1, <3>1
  <2>4. CASE Judge
    <3>1. PICK value : value = IF Rejected THEN "retrying" ELSE "passed"
      OBVIOUS
    <3>2. /\ rows' = [rows EXCEPT ![task.stage] = value]
          /\ task'.at = "passed" => value = "passed"
      BY <1>1, <2>4, <3>1 DEF Judge, SetRow, Tasks
    <3> QED
      BY <1>1, <1>5, <2>1, <3>2
  <2> QED
    BY <1>6, <2>2, <2>3, <2>4
<1>7. CASE SaveQuestions \/ SaveWorkerPaused
  <2>1. task' = task /\ rows' = rows /\ status' = status /\ checkpoints \subseteq checkpoints'
    BY <1>7 DEF SaveQuestions, SaveWorkerPaused, AddCheckpoint
  <2> QED
    BY <2>1 DEF Behind, Under, Did
<1>8. CASE Retry /\ MayRetry
  <2>1. /\ Under /\ task'.at = "loop" /\ task'.first = task.first
        /\ \/ task.stage = 3 /\ task'.stage = 2
           \/ task.stage = 5 /\ task'.stage = 4
        /\ checkpoints' = checkpoints /\ rows' = rows
    BY <1>1, <1>8, Moves DEF Numbers
  <2>2. \A i \in task.first .. task'.stage - 1 : i \in task.first .. task.stage - 1
    BY <1>1, <2>1
  <2> QED
    BY <2>1, <2>2 DEF Behind, Under, Did
<1>9. CASE SaveCheckpoint
  <2>1. /\ Under /\ task.at = "passed" /\ task'.at = "loop" /\ task'.stage = task.stage + 1
        /\ task'.first = task.first /\ task.stage \in 1 .. 6
        /\ checkpoints' = checkpoints \cup {task.stage} /\ rows' = rows
    BY <1>9, Moves
  <2>2. \A i \in task.first .. task'.stage - 1 : i \in task.first .. task.stage - 1 \/ i = task.stage
    BY <1>1, <2>1
  <2> QED
    BY <2>1, <2>2 DEF Behind, Under, Did
\* The loop ends behind the last stage.
<1>10. ASSUME task.at = "loop", AtEnd PROVE \A i \in task.first .. task.to : Did(i)
  <2>1. \A i \in task.first .. task.to : i \in task.first .. task.stage - 1
    BY <1>1, <1>10 DEF AtEnd
  <2> QED
    BY <1>10, <2>1 DEF Behind, Under
<1>11. CASE BeginBrowser
  <2>1. /\ task' = [task EXCEPT !.at = "browse"] /\ rows' = [rows EXCEPT ![7] = "running"]
        /\ checkpoints' = checkpoints /\ task.at = "loop" /\ AtEnd
    BY <1>1, <1>11 DEF BeginBrowser, SetRow, Numbers
  <2>2. task'.at = "browse" /\ task'.first = task.first /\ task'.to = task.to
    BY <1>1, <2>1 DEF Tasks
  <2>3. \A i \in task.first .. task.to : Did(i) /\ i \in 1 .. 7 \ {7}
    BY <1>1, <1>10, <2>1
  <2>4. \A i \in task.first .. task.to : Did(i)'
    BY <1>1, <2>1, <2>3 DEF Did
  <2> QED
    BY <2>2, <2>4 DEF Behind, Under
<1>12. ASSUME NEW v \in {"passed", "skipped", "failed"}, EndBrowser(v) PROVE Behind'
  <2>1. /\ rows' = [rows EXCEPT ![7] = v] /\ checkpoints' = checkpoints /\ task.at = "browse"
        /\ \/ task' = [task EXCEPT !.at = "failing"]
           \/ task' = [task EXCEPT !.at = "finish", !.prev = 7]
    BY <1>1, <1>12 DEF EndBrowser, SetRow, Numbers
  <2>2. task'.at \in {"failing", "finish"} /\ task'.first = task.first /\ task'.to = task.to
    <3>1. CASE task' = [task EXCEPT !.at = "failing"]
      BY <1>1, <3>1 DEF Tasks
    <3>2. CASE task' = [task EXCEPT !.at = "finish", !.prev = 7]
      BY <1>1, <3>2 DEF Tasks
    <3> QED
      BY <2>1, <3>1, <3>2
  <2>3. \A i \in task.first .. task.to : Did(i) /\ i \in 1 .. 7 \ {7}
    BY <1>1, <2>1 DEF Behind
  <2>4. \A i \in task.first .. task.to : Did(i)'
    BY <1>1, <2>1, <2>3 DEF Did
  <2> QED
    BY <2>2, <2>4 DEF Behind, Under
<1>13. CASE Finish
  <2>1. /\ task' = [task EXCEPT !.at = "none"] /\ rows' = rows /\ checkpoints' = checkpoints
        /\ task.at = "finish" \/ (task.at = "loop" /\ AtEnd)
    BY <1>13 DEF Finish
  <2>2. task'.at = "none" /\ task'.first = task.first /\ task'.to = task.to
    BY <1>1, <2>1 DEF Tasks
  <2>3. \A i \in task.first .. task.to : Did(i)
    BY <1>10, <2>1 DEF Behind
  <2> QED
    BY <2>1, <2>2, <2>3 DEF Behind, Under, Did
<1>14. ASSUME NEW o \in {"failed", "cancelled"}, Stop(o) PROVE Behind'
  <2>1. task'.at = "none" /\ status' # "passed"
    BY <1>1, <1>14 DEF Stop, Tasks
  <2> QED
    BY <2>1 DEF Behind, Under
<1>15. CASE Crash
  <2>1. task'.at = "none" /\ task'.first = 1 /\ task'.to = 0
    BY <1>15 DEF Crash, Idle
  <2>2. 1 .. 0 = {}
    OBVIOUS
  <2> QED
    BY <2>1, <2>2 DEF Behind, Under
<1>16. CASE Retry /\ ~MayRetry
  <2>1. task'.at = "failing"
    BY <1>1, <1>16 DEF Retry, Tasks
  <2> QED
    BY <2>1 DEF Behind, Under
<1>17. ASSUME NEW i \in Skippable, SkipStage(i) PROVE Behind'
  <2>1. /\ rows' = [rows EXCEPT ![i] = IF rows[i] = "absent" THEN rows[i] ELSE "skipped"]
        /\ UNCHANGED <<status, checkpoints, task>>
    BY <1>17 DEF SkipStage
  <2>2. \A j \in 1 .. 7 : rows[j] \in {"passed", "skipped"} => rows'[j] \in {"passed", "skipped"}
    BY <1>1, <2>1
  <2>3. \A j \in 1 .. 7 : Did(j) => Did(j)'
    BY <2>1, <2>2 DEF Did
  <2>4. /\ \A j \in task.first .. task.stage - 1 : j \in 1 .. 7
        /\ \A j \in task.first .. task.to : j \in 1 .. 7
    BY <1>1
  <2> QED
    BY <1>1, <2>1, <2>2, <2>3, <2>4 DEF Behind, Under
<1>18. CASE Restore
  <2>1. UNCHANGED <<rows, checkpoints, task>> /\ (status' = "passed" => status = "passed")
    BY <1>18 DEF Restore
  <2> QED
    BY <2>1 DEF Behind, Under, Did
<1>19. CASE UNCHANGED vars
  BY <1>19 DEF vars, Behind, Under, Did
<1> QED
  BY <1>2, <1>3, <1>4, <1>6, <1>7, <1>8, <1>9, <1>11, <1>12, <1>13, <1>14, <1>15, <1>16, <1>17,
     <1>18, <1>19 DEF Next, TaskStep

\* Whatever was retried, crashed and resumed, a run that passed has done all it was
\* started for.
THEOREM PassedIsWhole == Spec => []PassedWhole
<1>1. Behind => PassedWhole
  BY DEF Behind, PassedWhole, Did
<1> QED
  BY <1>1, InitTypes, StepTypes, InitBehind, StepBehind, PTL DEF Spec

-----------------------------------------------------------------------------
(* Nothing is planned or built but what was passed *)

LEMMA InitMade == Init => Made
BY NumbersAre DEF Init, Idle, Nothing, Made, Saving, Judged, Planned, Own, HasPlan, Under, Numbers

\* A stage that is no one's to be judged has no report yet: it is ahead of the checkpoints.
LEMMA Unjudged ==
  ASSUME Types, Order, Under
  PROVE  /\ task.stage <= VALIDATE => VALIDATE \notin checkpoints
         /\ task.stage <= REVIEW => REVIEW \notin checkpoints
<1>1. Numbers /\ task.stage \in 1 .. 7
  BY NumbersAre DEF Types, Tasks
<1> QED
  BY <1>1 DEF Numbers, Order, Ahead

\* The outputs of a stage are what Saving says.
LEMMA WorkSaving ==
  ASSUME Types, NEW v \in BOOLEAN, Work(v)
  PROVE  Saving'
<1>1. /\ Numbers /\ task \in Tasks /\ artifacts.design_draft \in Versions
      /\ artifacts.devplan \in Versions
  BY NumbersAre DEF Types, Kept, Artifacts
<1>2. PICK s : s = Outputs(task.stage, v)
  OBVIOUS
<1>3. /\ task'.at = "save" /\ task'.stage = task.stage /\ task'.saving = s
      /\ UNCHANGED <<artifacts, files>>
  BY <1>1, <1>2 DEF Work, Tasks
<1>4. CASE task.stage = DESIGN
  <2>1. NewDraft \in Nat
    BY FreshFits DEF NewDraft
  <2>2. s = << <<"design_draft", NewDraft>> >>
    BY <1>1, <1>2, <1>4 DEF Outputs, Numbers
  <2> QED
    BY <1>3, <1>4, <2>1, <2>2 DEF Saving
<1>5. CASE task.stage = VALIDATE
  <2>1. PICK r : r = [of |-> artifacts.design_draft, passed |-> v]
    OBVIOUS
  <2>2. r \in Report /\ r.of = artifacts.design_draft
    BY <1>1, <2>1 DEF Report
  <2>3. s = << <<"validation_report", r>> >>
    BY <1>1, <1>2, <1>5, <2>1 DEF Outputs, Numbers
  <2> QED
    BY <1>3, <1>5, <2>2, <2>3 DEF Saving
<1>6. CASE task.stage = PLAN
  <2>1. NewPlan \in Nat
    BY FreshFits DEF NewPlan
  <2>2. s = << <<"devplan", NewPlan>>, <<"devplan_tasks", NewPlan>> >>
    BY <1>1, <1>2, <1>6 DEF Outputs, Numbers
  <2> QED
    BY <1>3, <1>6, <2>1, <2>2 DEF Saving
<1>7. CASE task.stage = REVIEW
  <2>1. PICK r : r = [of |-> artifacts.devplan, passed |-> v]
    OBVIOUS
  <2>2. r \in Report /\ r.of = artifacts.devplan
    BY <1>1, <2>1 DEF Report
  <2>3. s = << <<"review_report", r>> >>
    BY <1>1, <1>2, <1>7, <2>1 DEF Outputs, Numbers
  <2> QED
    BY <1>3, <1>7, <2>2, <2>3 DEF Saving
<1>8. CASE task.stage \notin {DESIGN, VALIDATE, PLAN, REVIEW}
  <2>1. s = <<>>
    BY <1>2, <1>8 DEF Outputs
  <2> QED
    BY <1>3, <1>8, <2>1 DEF Saving
<1> QED
  BY <1>4, <1>5, <1>6, <1>7, <1>8

\* What is written to a file,
LEMMA FileMade ==
  ASSUME Types, Order, Made, SaveFile
  PROVE  Made'
<1>1. Numbers /\ task \in Tasks /\ files \in Artifacts
  BY NumbersAre DEF Types, Kept
<1>2. /\ task.at = "save" /\ task.saving # <<>> /\ artifacts' = artifacts
      /\ files' = [files EXCEPT ![Head(task.saving)[1]] = Head(task.saving)[2]]
      /\ checkpoints' = checkpoints
      /\ task'.at = "record" /\ task'.stage = task.stage /\ task'.saving = task.saving
      /\ task'.first = task.first
  BY <1>1 DEF SaveFile, Tasks
<1>3. Judged'
  BY <1>2 DEF Made, Judged
<1>4. ASSUME NEW name \in {"design_draft", "validation_report", "review_report"}, NEW x,
             task.saving = << <<name, x>> >>, task.stage # PLAN
      PROVE  Planned'
  <2>1. Head(task.saving)[1] = name
    BY <1>4
  <2>2. files'.devplan = files.devplan /\ files'.devplan_tasks = files.devplan_tasks
    BY <1>1, <1>2, <2>1 DEF Artifacts
  <2>3. HasPlan' = HasPlan
    BY <2>2 DEF HasPlan
  <2> QED
    BY <1>2, <1>4, <2>2, <2>3 DEF Made, Planned, Own, Under
<1>5. CASE task.stage = DESIGN /\ \E n \in Nat : task.saving = << <<"design_draft", n>> >>
  <2>1. Saving'
    BY <1>2, <1>5 DEF Saving
  <2> QED
    BY <1>1, <1>3, <1>4, <1>5, <2>1 DEF Made, Numbers
<1>6. CASE task.stage = VALIDATE /\ \E r \in Report :
             r.of = artifacts.design_draft /\ task.saving = << <<"validation_report", r>> >>
  <2>1. Saving'
    BY <1>2, <1>6 DEF Saving
  <2> QED
    BY <1>1, <1>3, <1>4, <1>6, <2>1 DEF Made, Numbers
<1>7. CASE task.stage = REVIEW /\ \E r \in Report :
             r.of = artifacts.devplan /\ task.saving = << <<"review_report", r>> >>
  <2>1. Saving'
    BY <1>2, <1>7 DEF Saving
  <2> QED
    BY <1>1, <1>3, <1>4, <1>7, <2>1 DEF Made, Numbers
<1>8. ASSUME task.stage = PLAN PROVE Planned'
  BY <1>1, <1>2, <1>8 DEF Planned, Under, Numbers
<1>9. ASSUME task.stage = PLAN, NEW n \in Nat,
             task.saving = << <<"devplan", n>>, <<"devplan_tasks", n>> >>
      PROVE  Saving'
  <2>1. Head(task.saving)[1] = "devplan" /\ Head(task.saving)[2] = n
    BY <1>9
  <2>2. files'.devplan = n
    BY <1>1, <1>2, <2>1 DEF Artifacts
  <2> QED
    BY <1>2, <1>9, <2>2 DEF Saving
<1>10. ASSUME task.stage = PLAN, NEW n \in Nat, task.saving = << <<"devplan_tasks", n>> >>,
              files.devplan = n, artifacts.devplan = n
       PROVE  Saving'
  <2>1. Head(task.saving)[1] = "devplan_tasks" /\ Head(task.saving)[2] = n
    BY <1>10
  <2>2. files'.devplan_tasks = n /\ files'.devplan = n
    BY <1>1, <1>2, <1>10, <2>1 DEF Artifacts
  <2> QED
    BY <1>2, <1>10, <2>2 DEF Saving
<1>11. \/ task.stage = DESIGN /\ \E n \in Nat : task.saving = << <<"design_draft", n>> >>
       \/ task.stage = VALIDATE /\ \E r \in Report :
             r.of = artifacts.design_draft /\ task.saving = << <<"validation_report", r>> >>
       \/ task.stage = REVIEW /\ \E r \in Report :
             r.of = artifacts.devplan /\ task.saving = << <<"review_report", r>> >>
       \/ task.stage = PLAN /\ \E n \in Nat :
            \/ task.saving = << <<"devplan", n>>, <<"devplan_tasks", n>> >>
            \/ /\ task.saving = << <<"devplan_tasks", n>> >>
               /\ files.devplan = n /\ artifacts.devplan = n
  BY <1>2 DEF Made, Saving
<1> QED
  BY <1>3, <1>5, <1>6, <1>7, <1>8, <1>9, <1>10, <1>11 DEF Made

\* and then to a row.
LEMMA RowMade ==
  ASSUME Types, Order, Made, SaveRow
  PROVE  Made'
<1>1. Numbers /\ task \in Tasks /\ artifacts \in Artifacts
  BY NumbersAre DEF Types, Kept
<1>2. /\ task.at = "record" /\ task.saving # <<>> /\ files' = files
      /\ artifacts' = [artifacts EXCEPT ![Head(task.saving)[1]] = Head(task.saving)[2]]
      /\ checkpoints' = checkpoints
      /\ task'.at = "save" /\ task'.stage = task.stage /\ task'.saving = Tail(task.saving)
      /\ task'.first = task.first
  BY <1>1 DEF SaveRow, Tasks, Types, Standing
<1>3. Under /\ Under' /\ HasPlan' = HasPlan /\ Own' = Own
  BY <1>2 DEF Under, HasPlan, Own
<1>4. /\ task.stage <= 3 => VALIDATE \notin checkpoints
      /\ task.stage <= 5 => REVIEW \notin checkpoints
  BY <1>1, <1>3, Unjudged DEF Numbers
<1>5. CASE task.stage = DESIGN /\ \E n \in Nat : task.saving = << <<"design_draft", n>> >>
  <2>1. PICK n \in Nat : task.saving = << <<"design_draft", n>> >>
    BY <1>5
  <2>2. Head(task.saving)[1] = "design_draft" /\ Tail(task.saving) = <<>>
    BY <2>1
  <2>3. artifacts'.devplan = artifacts.devplan
    BY <1>1, <1>2, <2>2 DEF Artifacts
  <2>4. Saving' /\ Judged' /\ Planned'
    BY <1>1, <1>2, <1>3, <1>4, <1>5, <2>2, <2>3 DEF Made, Saving, Judged, Planned, Numbers
  <2> QED
    BY <2>4 DEF Made
<1>6. CASE task.stage = VALIDATE /\ \E r \in Report :
             r.of = artifacts.design_draft /\ task.saving = << <<"validation_report", r>> >>
  <2>1. PICK r \in Report : r.of = artifacts.design_draft /\ task.saving = << <<"validation_report", r>> >>
    BY <1>6
  <2>2. Head(task.saving)[1] = "validation_report" /\ Head(task.saving)[2] = r /\ Tail(task.saving) = <<>>
    BY <2>1
  <2>3. /\ artifacts'.devplan = artifacts.devplan /\ artifacts'.design_draft = artifacts.design_draft
        /\ artifacts'.validation_report = r
    BY <1>1, <1>2, <2>2 DEF Artifacts
  <2>4. Saving' /\ Judged' /\ Planned'
    BY <1>1, <1>2, <1>3, <1>4, <1>6, <2>1, <2>2, <2>3 DEF Made, Saving, Judged, Planned, Numbers
  <2> QED
    BY <2>4 DEF Made
<1>7. CASE task.stage = REVIEW /\ \E r \in Report :
             r.of = artifacts.devplan /\ task.saving = << <<"review_report", r>> >>
  <2>1. PICK r \in Report : r.of = artifacts.devplan /\ task.saving = << <<"review_report", r>> >>
    BY <1>7
  <2>2. Head(task.saving)[1] = "review_report" /\ Head(task.saving)[2] = r /\ Tail(task.saving) = <<>>
    BY <2>1
  <2>3. /\ artifacts'.devplan = artifacts.devplan /\ artifacts'.design_draft = artifacts.design_draft
        /\ artifacts'.validation_report = artifacts.validation_report /\ artifacts'.review_report = r
    BY <1>1, <1>2, <2>2 DEF Artifacts
  <2>4. Saving' /\ Judged' /\ Planned'
    BY <1>1, <1>2, <1>3, <1>4, <1>7, <2>1, <2>2, <2>3 DEF Made, Saving, Judged, Planned, Numbers
  <2> QED
    BY <2>4 DEF Made
<1>8. ASSUME task.stage = PLAN, NEW n \in Nat,
             \/ /\ task.saving = << <<"devplan", n>>, <<"devplan_tasks", n>> >>
                /\ files.devplan = n
             \/ /\ task.saving = << <<"devplan_tasks", n>> >>
                /\ files.devplan = n /\ artifacts.devplan = n /\ files.devplan_tasks = n
      PROVE  Made'
  <2>1. Planned'
    BY <1>1, <1>2, <1>8 DEF Planned, Numbers
  <2>2. \/ Head(task.saving)[1] = "devplan" \/ Head(task.saving)[1] = "devplan_tasks"
    BY <1>8
  <2>3. /\ artifacts'.design_draft = artifacts.design_draft
        /\ artifacts'.validation_report = artifacts.validation_report
    BY <1>1, <1>2, <2>2 DEF Artifacts
  <2>4. Judged'
    BY <1>1, <1>2, <1>3, <1>4, <1>8, <2>3 DEF Made, Judged, Numbers
  <2>5. Saving'
    <3>1. CASE task.saving = << <<"devplan", n>>, <<"devplan_tasks", n>> >> /\ files.devplan = n
      <4>1. /\ Head(task.saving)[1] = "devplan" /\ Head(task.saving)[2] = n
            /\ Tail(task.saving) = << <<"devplan_tasks", n>> >>
        BY <3>1
      <4>2. artifacts'.devplan = n
        BY <1>1, <1>2, <4>1 DEF Artifacts
      <4> QED
        BY <1>2, <1>8, <3>1, <4>1, <4>2 DEF Saving
    <3>2. CASE /\ task.saving = << <<"devplan_tasks", n>> >>
               /\ files.devplan = n /\ artifacts.devplan = n /\ files.devplan_tasks = n
      <4>1. Head(task.saving)[1] = "devplan_tasks" /\ Tail(task.saving) = <<>>
        BY <3>2
      <4>2. artifacts'.devplan = n
        BY <1>1, <1>2, <3>2, <4>1 DEF Artifacts
      <4> QED
        BY <1>1, <1>2, <1>8, <3>2, <4>1, <4>2 DEF Saving, Numbers
    <3> QED
      BY <1>8, <3>1, <3>2
  <2> QED
    BY <2>1, <2>4, <2>5 DEF Made
<1>9. \/ task.stage = DESIGN /\ \E n \in Nat : task.saving = << <<"design_draft", n>> >>
      \/ task.stage = VALIDATE /\ \E r \in Report :
            r.of = artifacts.design_draft /\ task.saving = << <<"validation_report", r>> >>
      \/ task.stage = REVIEW /\ \E r \in Report :
            r.of = artifacts.devplan /\ task.saving = << <<"review_report", r>> >>
      \/ task.stage = PLAN /\ \E n \in Nat :
           \/ /\ task.saving = << <<"devplan", n>>, <<"devplan_tasks", n>> >>
              /\ files.devplan = n
           \/ /\ task.saving = << <<"devplan_tasks", n>> >>
              /\ files.devplan = n /\ artifacts.devplan = n /\ files.devplan_tasks = n
  BY <1>2 DEF Made, Saving
<1> QED
  BY <1>5, <1>6, <1>7, <1>8, <1>9

\* A stage that is over is passed only with a report that passed.
LEMMA JudgeMade ==
  ASSUME Types, Made, Judge
  PROVE  Made'
<1>1. Numbers /\ task \in Tasks /\ artifacts \in Artifacts
  BY NumbersAre DEF Types, Kept
<1>3. /\ task.at = "save" /\ task.saving = <<>> /\ task'.stage = task.stage
      /\ task'.first = task.first
      /\ task'.at \in {"retry", "passed"} /\ (task'.at = "passed" => ~Rejected)
      /\ UNCHANGED <<checkpoints, artifacts, files>>
  BY <1>1 DEF Judge, Tasks
<1>4. /\ task.stage = VALIDATE => artifacts.validation_report.of = artifacts.design_draft
      /\ task.stage = PLAN => /\ files.devplan = artifacts.devplan
                              /\ files.devplan_tasks = artifacts.devplan
      /\ task.stage = REVIEW => artifacts.review_report.of = artifacts.devplan
  BY <1>3 DEF Made, Saving
<1>5. artifacts.validation_report \in Report /\ artifacts.review_report \in Report
  BY <1>1 DEF Artifacts
<1>6. task'.at = "passed" /\ task.stage = VALIDATE =>
        Accepts(artifacts.validation_report, artifacts.design_draft)
  BY <1>1, <1>3, <1>4, <1>5 DEF Rejected, Report, Accepts
<1>7. task'.at = "passed" /\ task.stage = REVIEW => Accepts(artifacts.review_report, artifacts.devplan)
  BY <1>1, <1>3, <1>4, <1>5 DEF Rejected, Report, Accepts
<1>8. Saving'
  BY <1>3 DEF Saving
<1>9. Judged'
  BY <1>3, <1>6, <1>7 DEF Made, Judged, Accepts
<1>10. Planned'
  BY <1>1, <1>3, <1>4 DEF Made, Planned, Own, HasPlan, Under, Numbers
<1> QED
  BY <1>8, <1>9, <1>10 DEF Made

LEMMA StepMade == Types /\ Order /\ Made /\ [Next]_vars => Made'
<1> SUFFICES ASSUME Types, Order, Made, [Next]_vars PROVE Made'
  OBVIOUS
<1>1. Numbers /\ task \in Tasks /\ artifacts \in Artifacts /\ files \in Artifacts
      /\ task.stage \in 1 .. 7
  BY NumbersAre DEF Types, Kept, Tasks
<1>2. ASSUME NEW r \in Requests, StartRequest(r) PROVE Made'
  <2>1. task'.at = "row" /\ ~HasPlan' /\ UNCHANGED <<checkpoints, artifacts>>
    BY <1>2, Starts
  <2> QED
    BY <2>1 DEF Made, Saving, Judged, Planned, Under
<1>3. CASE StartRow
  <2>1. /\ task.at = "row" /\ task'.at = "reset" /\ UNCHANGED <<checkpoints, artifacts, files>>
    BY <1>3, Starts
  <2> QED
    BY <2>1 DEF Made, Saving, Judged, Planned, Own, Under, HasPlan
<1>4. CASE ResetStage
  <2>1. /\ task.at = "reset" /\ task'.first = task.first
        /\ \/ task'.at = "reset"
           \/ task'.at = "loop" /\ task'.stage = task.first
        /\ UNCHANGED <<checkpoints, artifacts, files>>
    BY <1>4, Starts
  <2>2. ~HasPlan /\ ~HasPlan'
    BY <2>1 DEF Made, Planned, HasPlan
  <2>3. CASE task'.at = "reset"
    BY <2>1, <2>2, <2>3 DEF Made, Saving, Judged, Planned, Under
  <2>4. CASE task'.at = "loop" /\ task'.stage = task.first
    <3>1. task.first \in 1 .. 6
      BY <1>1 DEF Tasks
    <3>2. Planned'
      BY <1>1, <2>1, <2>2, <2>4, <3>1 DEF Planned, Own, Numbers
    <3> QED
      BY <2>1, <2>4, <3>2 DEF Made, Saving, Judged
  <2> QED
    BY <2>1, <2>3, <2>4
<1>5. CASE BeginStage
  <2>1. /\ task.at = "loop" /\ task'.at = "work" /\ task'.stage = task.stage
        /\ task'.first = task.first /\ UNCHANGED <<checkpoints, artifacts, files>>
    BY <1>1, <1>5 DEF BeginStage, Tasks
  <2> QED
    BY <2>1 DEF Made, Saving, Judged, Planned, Own, Under, HasPlan
<1>6. ASSUME NEW v \in BOOLEAN, Work(v) PROVE Made'
  <2>1. /\ task.at = "work" /\ task'.at = "save" /\ task'.stage = task.stage
        /\ task'.first = task.first /\ UNCHANGED <<checkpoints, artifacts, files>>
    BY <1>1, <1>6 DEF Work, Tasks
  <2>2. Saving'
    BY <1>6, WorkSaving
  <2> QED
    BY <2>1, <2>2 DEF Made, Judged, Planned, Own, Under, HasPlan
<1>7. CASE SaveQuestions \/ SaveWorkerPaused
  <2>1. /\ task' = task /\ UNCHANGED <<artifacts, files>>
        /\ \E c \in {0, 6} : checkpoints' = checkpoints \cup {c}
    BY <1>1, <1>7 DEF SaveQuestions, SaveWorkerPaused, AddCheckpoint, Numbers
  <2> QED
    BY <1>1, <2>1 DEF Made, Saving, Judged, Planned, Own, Under, HasPlan, Numbers
<1>8. CASE Retry /\ MayRetry
  <2>1. /\ Under /\ task'.at = "loop"
        /\ \/ task.stage = 3 /\ task'.stage = 2
           \/ task.stage = 5 /\ task'.stage = 4
        /\ task'.first = task.first /\ UNCHANGED <<checkpoints, artifacts, files>>
    BY <1>1, <1>8, Moves DEF Numbers
  <2> QED
    BY <1>1, <2>1 DEF Made, Saving, Judged, Planned, Own, Under, HasPlan, Numbers
<1>9. CASE SaveCheckpoint
  <2>1. /\ Under /\ task.at = "passed" /\ task'.at = "loop" /\ task'.stage = task.stage + 1
        /\ task'.first = task.first /\ checkpoints' = checkpoints \cup {task.stage} /\ task.stage \in 1 .. 6
        /\ UNCHANGED <<artifacts, files>>
    BY <1>9, Moves
  <2>2. Judged'
    BY <1>1, <2>1 DEF Made, Judged, Numbers
  <2>3. Planned'
    BY <1>1, <2>1 DEF Made, Planned, Own, Under, HasPlan, Numbers
  <2> QED
    BY <2>1, <2>2, <2>3 DEF Made, Saving
<1>10. CASE \/ BeginBrowser \/ (\E v \in {"passed", "skipped", "failed"} : EndBrowser(v))
            \/ Finish \/ (\E o \in {"failed", "cancelled"} : Stop(o)) \/ Crash
            \/ (Retry /\ ~MayRetry)
  <2>1. Over' /\ UNCHANGED <<checkpoints, artifacts, files>>
    BY <1>10, Leaves
  <2> QED
    BY <2>1 DEF Over, Made, Saving, Judged, Planned, Under
<1>11. ASSUME NEW i \in Skippable, SkipStage(i) PROVE Made'
  BY <1>11 DEF SkipStage, Made, Saving, Judged, Planned, Own, Under, HasPlan
<1>12. CASE Restore \/ UNCHANGED vars
  BY <1>12 DEF Restore, vars, Made, Saving, Judged, Planned, Own, Under, HasPlan
<1> QED
  BY <1>2, <1>3, <1>4, <1>5, <1>6, <1>7, <1>8, <1>9, <1>10, <1>11, <1>12, FileMade, RowMade,
     JudgeMade DEF Next, TaskStep

\* Planning begins only with a draft that was passed, development only with a plan that
\* was, whatever was retried, crashed and resumed in between.
THEOREM GatesHold == Spec => []Gates
<1>1. Types /\ Order /\ Made => Gates
  <2> SUFFICES ASSUME Types, Order, Made PROVE Gates
    OBVIOUS
  <2>1. Numbers /\ task.from \in 1 .. 6
    BY NumbersAre DEF Types, Tasks
  <2>2. ASSUME At(PLAN), task.from < PLAN, PLAN \notin checkpoints
        PROVE  artifacts.validation_report = [of |-> artifacts.design_draft, passed |-> TRUE]
    <3>1. Under /\ task.stage = 4
      BY <2>1, <2>2 DEF At, Under, Numbers
    <3>2. VALIDATE \in checkpoints
      BY <2>1, <2>2, <3>1 DEF Order, Entered, Numbers
    <3> QED
      BY <3>2 DEF Made, Judged, Accepts
  <2>3. ASSUME At(DEVELOP), task.from < DEVELOP, DEVELOP \notin checkpoints
        PROVE  artifacts.review_report = [of |-> artifacts.devplan, passed |-> TRUE]
    <3>1. Under /\ task.stage = 6
      BY <2>1, <2>3 DEF At, Under, Numbers
    <3>2. REVIEW \in checkpoints
      BY <2>1, <2>3, <3>1 DEF Order, Entered, Numbers
    <3> QED
      BY <3>2 DEF Made, Judged, Accepts
  <2> QED
    BY <2>2, <2>3 DEF Gates
<1> QED
  BY <1>1, InitTypes, StepTypes, InitOrder, StepOrder, InitMade, StepMade, PTL DEF Spec

\* What develop finds in the directory, in a start that has planned, is the plan that the
\* review passed, whatever the directory held before.
THEOREM BuildsTheReviewed == Spec => []BuildsWhatWasReviewed
<1>1. Made => BuildsWhatWasReviewed
  <2> SUFFICES ASSUME Made, At(DEVELOP), Own
               PROVE  /\ artifacts.review_report = [of |-> files.devplan, passed |-> TRUE]
                      /\ files.devplan_tasks = files.devplan
    BY DEF BuildsWhatWasReviewed, Own
  <2>1. Numbers /\ Under /\ task.stage = 6
    BY NumbersAre DEF At, Under, Numbers
  <2>2. REVIEW \in checkpoints /\ files.devplan = artifacts.devplan
        /\ files.devplan_tasks = artifacts.devplan
    BY <2>1 DEF Made, Planned, Numbers
  <2> QED
    BY <2>2 DEF Made, Judged, Accepts
<1> QED
  BY <1>1, InitTypes, StepTypes, InitOrder, StepOrder, InitMade, StepMade, PTL DEF Spec
-----------------------------------------------------------------------------
(* Every start is finite.  What WF_vars(TaskStep) adds is only that the    *)
(* steps are taken.                                                        *)

\* The attempts a start has left, of both loops.
Attempts(t) == (MaxValidate - t.validations) + (MaxReview - t.reviews)

\* How many steps a start takes at most from a place of its task, with stage s and n
\* artifacts to save, if nothing is rejected any more: six to reset the rows, eight for
\* a stage, of which four save two artifacts, two for the browser and one for the end.
Straight(at, s, n) ==
  CASE at = "row" -> 58
    [] at = "reset" -> 51 + (7 - s)
    [] at = "loop" -> 3 + 8 * (7 - s)
    [] at = "work" -> 2 + 8 * (7 - s)
    [] at = "save" -> 5 + 8 * (6 - s) + 2 * n
    [] at = "record" -> 4 + 8 * (6 - s) + 2 * n
    [] at = "retry" -> 4 + 8 * (8 - s)
    [] at = "passed" -> 4 + 8 * (6 - s)
    [] at = "browse" -> 2
    [] OTHER -> 1

\* A report that rejects costs an attempt and two stages.
StepsOf(t) ==
  IF t.at = "none" THEN 0
  ELSE Straight(t.at, t.stage, Len(t.saving)) + 16 * Attempts(t)
StepsLeft == StepsOf(task)
MostSteps == 58 + 16 * (MaxValidate + MaxReview)

\* A stage saves at most two artifacts.
LEMMA FewSaves ==
  ASSUME NEW s \in Saves
  PROVE  /\ Len(s) \in 0 .. 2 /\ (s # <<>> => Len(s) >= 1 /\ Len(Tail(s)) = Len(s) - 1)
BY DEF Saves

\* What the proofs below need to know of a task.
LEMMA TaskFacts ==
  ASSUME Types
  PROVE  /\ task.at \in Places /\ task.stage \in 1 .. 7 /\ task.first \in 1 .. 6
         /\ Len(task.saving) \in 0 .. 2 /\ Attempts(task) \in Nat
         /\ Attempts(task) <= MaxValidate + MaxReview
         /\ task.at \in {"work", "save", "record", "retry", "passed"} => task.stage \in 1 .. 6
         /\ task.at \in {"row", "reset"} => task.stage \in 1 .. 6
         /\ task.at = "retry" => task.stage \in {3, 5}
         /\ task.at = "record" => Len(task.saving) >= 1
<1>1. Numbers
  BY NumbersAre
<1>2. Len(task.saving) \in 0 .. 2 /\ (task.saving # <<>> => Len(task.saving) >= 1)
  BY FewSaves DEF Types, Tasks
<1>3. Attempts(task) \in Nat /\ Attempts(task) <= MaxValidate + MaxReview
  <2>1. /\ task.validations \in 0 .. MaxValidate /\ task.reviews \in 0 .. MaxReview
        /\ MaxValidate \in Nat /\ MaxReview \in Nat
    BY BoundsAssumption DEF Types, Tasks
  <2> QED
    BY <2>1 DEF Attempts
<1> QED
  BY <1>1, <1>2, <1>3 DEF Types, Tasks, Standing, Numbers

LEMMA StepsBounded ==
  Types => StepsLeft \in 0 .. MostSteps /\ (StepsLeft = 0 <=> task.at = "none")
<1> SUFFICES ASSUME Types PROVE StepsLeft \in 0 .. MostSteps /\ (StepsLeft = 0 <=> task.at = "none")
  OBVIOUS
<1>1. PICK a \in Nat : a = Attempts(task) /\ a <= MaxValidate + MaxReview
  BY TaskFacts
<1>2. MaxValidate \in Nat /\ MaxReview \in Nat
  BY BoundsAssumption
<1>3. CASE task.at = "none"
  BY <1>2, <1>3 DEF StepsLeft, StepsOf, MostSteps
<1>4. CASE task.at # "none"
  <2>1. PICK s \in 1 .. 7, n \in 0 .. 2 : s = task.stage /\ n = Len(task.saving)
    BY TaskFacts
  <2>2. PICK at \in Places \ {"none"} : at = task.at
    BY <1>4, TaskFacts
  <2>3. Straight(at, s, n) \in 1 .. 58
    <3>1. /\ at \in {"save", "record", "retry", "passed"} => s \in 1 .. 6
          /\ at = "retry" => s \in {3, 5}
      BY <2>1, <2>2, TaskFacts
    <3>2. CASE at \in {"row", "reset", "loop", "work"}
      BY <3>2 DEF Straight
    <3>3. CASE at \in {"save", "record"}
      BY <3>1, <3>3 DEF Straight
    <3>4. CASE at \in {"retry", "passed", "browse", "finish", "failing"}
      BY <3>1, <3>4 DEF Straight
    <3> QED
      BY <3>2, <3>3, <3>4 DEF Places
  <2>4. StepsLeft = Straight(at, s, n) + 16 * a
    BY <1>1, <1>4, <2>1, <2>2 DEF StepsLeft, StepsOf
  <2> QED
    BY <1>1, <1>2, <1>4, <2>3, <2>4 DEF MostSteps
<1> QED
  BY <1>3, <1>4

\* A step of a task that goes on counts by what is left of the way and the attempts.
LEMMA Counts ==
  ASSUME task.at # "none", NEW at, at # "none", NEW s, NEW n, NEW b,
         task'.at = at, task'.stage = s, Len(task'.saving) = n, Attempts(task') = b,
         Straight(at, s, n) + 16 * b
           < Straight(task.at, task.stage, Len(task.saving)) + 16 * Attempts(task)
  PROVE  StepsLeft' < StepsLeft
BY DEF StepsLeft, StepsOf

LEMMA NextBounded == (Types => StepsLeft \in Int)'
<1>1. Types => StepsLeft \in Int
  <2>1. MaxValidate \in Nat /\ MaxReview \in Nat
    BY BoundsAssumption
  <2> QED
    BY <2>1, StepsBounded DEF MostSteps
<1> QED
  BY <1>1, PTL

LEMMA StepCounts == ASSUME Types, TaskStep PROVE StepsLeft' < StepsLeft
<1>1. Numbers
  BY NumbersAre
<1>2. PICK a \in Nat, s \in 1 .. 7, n \in 0 .. 2 :
        a = Attempts(task) /\ s = task.stage /\ n = Len(task.saving)
  BY TaskFacts
<1>3. /\ task \in Tasks /\ MaxValidate \in Nat /\ MaxReview \in Nat
      /\ task.validations \in Nat /\ task.reviews \in Nat
  BY BoundsAssumption DEF Types, Tasks
<1>4. CASE StartRow
  <2>1. task.at = "row" /\ task' = [task EXCEPT !.at = "reset"]
    BY <1>4 DEF StartRow
  <2>2. task'.at = "reset" /\ task'.stage = s /\ Len(task'.saving) = n /\ Attempts(task') = a
    BY <1>2, <1>3, <2>1 DEF Tasks, Attempts
  <2>3. Straight("reset", s, n) + 16 * a < Straight("row", s, n) + 16 * a
    BY DEF Straight
  <2> QED
    BY <1>2, <2>1, <2>2, <2>3, Counts
<1>5. CASE ResetStage
  <2>1. task.at = "reset" /\ Len(STAGES) = 6 /\ s \in 1 .. 6
    BY <1>2, <1>5, TaskFacts DEF ResetStage, STAGES
  <2>2. CASE s < 6
    <3>1. task' = [task EXCEPT !.stage = s + 1]
      BY <1>2, <1>5, <2>1, <2>2 DEF ResetStage
    <3>2. /\ task'.at = "reset" /\ task'.stage = s + 1 /\ Len(task'.saving) = n
          /\ Attempts(task') = a
      BY <1>2, <1>3, <2>1, <3>1 DEF Tasks, Attempts
    <3>3. Straight("reset", s + 1, n) + 16 * a < Straight("reset", s, n) + 16 * a
      BY <2>2 DEF Straight
    <3> QED
      BY <1>2, <2>1, <3>2, <3>3, Counts
  <2>3. CASE ~(s < 6)
    <3>1. task' = [task EXCEPT !.at = "loop", !.stage = task.first]
      BY <1>2, <1>5, <2>1, <2>3 DEF ResetStage
    <3>2. PICK f \in 1 .. 6 : f = task.first
      BY TaskFacts
    <3>3. task'.at = "loop" /\ task'.stage = f /\ Len(task'.saving) = n /\ Attempts(task') = a
      BY <1>2, <1>3, <2>1, <3>1, <3>2 DEF Tasks, Attempts
    <3>4. Straight("loop", f, n) + 16 * a < Straight("reset", s, n) + 16 * a
      BY <2>1, <2>3 DEF Straight
    <3> QED
      BY <1>2, <2>1, <3>3, <3>4, Counts
  <2> QED
    BY <2>2, <2>3
<1>6. CASE BeginStage
  <2>1. task.at = "loop" /\ s <= 6 /\ task' = [task EXCEPT !.at = "work"]
    BY <1>2, <1>3, <1>6 DEF BeginStage, AtEnd, Tasks
  <2>2. task'.at = "work" /\ task'.stage = s /\ Len(task'.saving) = n /\ Attempts(task') = a
    BY <1>2, <1>3, <2>1 DEF Tasks, Attempts
  <2>3. Straight("work", s, n) + 16 * a < Straight("loop", s, n) + 16 * a
    BY DEF Straight
  <2> QED
    BY <1>2, <2>1, <2>2, <2>3, Counts
<1>7. ASSUME NEW v \in BOOLEAN, Work(v) PROVE StepsLeft' < StepsLeft
  <2>1. PICK saving : saving = Outputs(task.stage, v)
    OBVIOUS
  <2>2. task.at = "work" /\ task' = [task EXCEPT !.at = "save", !.saving = saving]
    BY <1>7, <2>1 DEF Work
  <2>3. PICK m \in 0 .. 2 : m = Len(saving)
    BY <2>1, OutputsFit, FewSaves
  <2>4. task'.at = "save" /\ task'.stage = s /\ Len(task'.saving) = m /\ Attempts(task') = a
    BY <1>2, <1>3, <2>2, <2>3 DEF Tasks, Attempts
  <2>5. Straight("save", s, m) + 16 * a < Straight("work", s, n) + 16 * a
    BY DEF Straight
  <2> QED
    BY <1>2, <2>2, <2>4, <2>5, Counts
<1>8. CASE SaveFile
  <2>1. task.at = "save" /\ task' = [task EXCEPT !.at = "record"]
    BY <1>8 DEF SaveFile
  <2>2. task'.at = "record" /\ task'.stage = s /\ Len(task'.saving) = n /\ Attempts(task') = a
    BY <1>2, <1>3, <2>1 DEF Tasks, Attempts
  <2>3. Straight("record", s, n) + 16 * a < Straight("save", s, n) + 16 * a
    BY DEF Straight
  <2> QED
    BY <1>2, <2>1, <2>2, <2>3, Counts
<1>9. CASE SaveRow
  <2>1. task.at = "record" /\ task' = [task EXCEPT !.at = "save", !.saving = Tail(task.saving)]
    BY <1>9 DEF SaveRow
  <2>2. PICK m \in 0 .. 1 : n = m + 1 /\ Len(Tail(task.saving)) = m
    BY <1>2, <2>1, FewSaves DEF Types, Tasks, Standing
  <2>3. task'.at = "save" /\ task'.stage = s /\ Len(task'.saving) = m /\ Attempts(task') = a
    BY <1>2, <1>3, <2>1, <2>2 DEF Tasks, Attempts
  <2>4. Straight("save", s, m) + 16 * a < Straight("record", s, n) + 16 * a
    <3>1. CASE m = 0 /\ n = 1
      BY <3>1 DEF Straight
    <3>2. CASE m = 1 /\ n = 2
      BY <3>2 DEF Straight
    <3> QED
      BY <2>2, <3>1, <3>2
  <2> QED
    BY <1>2, <2>1, <2>3, <2>4, Counts
<1>10. CASE Judge
  <2>1. PICK at : at = IF Rejected THEN "retry" ELSE "passed"
    OBVIOUS
  <2>2. PICK v : v = IF task.stage = VALIDATE THEN task.validations + 1 ELSE task.validations
    OBVIOUS
  <2>3. PICK w : w = IF task.stage = REVIEW /\ Rejected THEN task.reviews + 1 ELSE task.reviews
    OBVIOUS
  <2>4. /\ task.at = "save" /\ task.saving = <<>>
        /\ task' = [task EXCEPT !.at = at, !.validations = v, !.reviews = w]
    BY <1>10, <2>1, <2>2, <2>3 DEF Judge
  <2>5. Types'
    BY <1>10, EndTypes
  <2>6. /\ task'.at = at /\ task'.stage = s /\ Len(task'.saving) = n
        /\ task'.validations = v /\ task'.reviews = w
    BY <1>2, <1>3, <2>4 DEF Tasks
  <2>7. PICK b \in Nat : b = Attempts(task')
    <3>1. v \in 0 .. MaxValidate /\ w \in 0 .. MaxReview
      BY <2>5, <2>6 DEF Types, Tasks
    <3> QED
      BY <1>3, <2>6, <3>1 DEF Attempts
  <2>8. b <= a /\ (Rejected => b <= a - 1)
    <3>1. /\ b = (MaxValidate - v) + (MaxReview - w)
          /\ a = (MaxValidate - task.validations) + (MaxReview - task.reviews)
      BY <1>2, <2>6, <2>7 DEF Attempts
    <3>2. Rejected => task.stage \in {VALIDATE, REVIEW}
      BY DEF Rejected
    <3>3. /\ v \in {task.validations, task.validations + 1}
          /\ w \in {task.reviews, task.reviews + 1}
          /\ Rejected => v = task.validations + 1 \/ w = task.reviews + 1
      BY <2>2, <2>3, <3>2
    <3> QED
      BY <1>3, <3>1, <3>3
  <2>9. n = 0 /\ s \in 1 .. 6
    BY <1>2, <2>4, TaskFacts
  <2>10. CASE Rejected
    <3>1. at = "retry" /\ b <= a - 1
      BY <2>1, <2>8, <2>10
    <3>2. Straight("retry", s, n) + 16 * b < Straight("save", s, n) + 16 * a
      BY <2>9, <3>1 DEF Straight
    <3> QED
      BY <1>2, <2>4, <2>6, <2>7, <3>1, <3>2, Counts
  <2>11. CASE ~Rejected
    <3>1. at = "passed"
      BY <2>1, <2>11
    <3>2. Straight("passed", s, n) + 16 * b < Straight("save", s, n) + 16 * a
      BY <2>8, <2>9 DEF Straight
    <3> QED
      BY <1>2, <2>4, <2>6, <2>7, <3>1, <3>2, Counts
  <2> QED
    BY <2>10, <2>11
<1>11. CASE Retry
  <2>1. task.at = "retry" /\ s \in {3, 5}
    BY <1>2, <1>11, TaskFacts DEF Retry
  <2>2. CASE ~MayRetry
    <3>1. task' = [task EXCEPT !.at = "failing"]
      BY <1>11, <2>2 DEF Retry
    <3>2. task'.at = "failing" /\ task'.stage = s /\ Len(task'.saving) = n /\ Attempts(task') = a
      BY <1>2, <1>3, <3>1 DEF Tasks, Attempts
    <3>3. Straight("failing", s, n) + 16 * a < Straight("retry", s, n) + 16 * a
      BY DEF Straight
    <3> QED
      BY <1>2, <2>1, <3>2, <3>3, Counts
  <2>3. CASE MayRetry
    <3>1. PICK t : t = IF task.stage = VALIDATE THEN DESIGN ELSE PLAN
      OBVIOUS
    <3>2. task' = [task EXCEPT !.at = "loop", !.prev = task.stage, !.stage = t]
      BY <1>11, <2>3, <3>1 DEF Retry
    <3>3. t = s - 1
      BY <1>1, <1>2, <2>1, <3>1 DEF Numbers
    <3>4. task'.at = "loop" /\ task'.stage = s - 1 /\ Len(task'.saving) = n /\ Attempts(task') = a
      BY <1>2, <1>3, <3>2, <3>3 DEF Tasks, Attempts
    <3>5. Straight("loop", s - 1, n) + 16 * a < Straight("retry", s, n) + 16 * a
      BY DEF Straight
    <3> QED
      BY <1>2, <2>1, <3>4, <3>5, Counts
  <2> QED
    BY <2>2, <2>3
<1>12. CASE SaveCheckpoint
  <2>1. /\ task.at = "passed"
        /\ task' = [task EXCEPT !.at = "loop", !.prev = task.stage, !.stage = task.stage + 1]
    BY <1>12 DEF SaveCheckpoint
  <2>2. task'.at = "loop" /\ task'.stage = s + 1 /\ Len(task'.saving) = n /\ Attempts(task') = a
    BY <1>2, <1>3, <2>1 DEF Tasks, Attempts
  <2>3. Straight("loop", s + 1, n) + 16 * a < Straight("passed", s, n) + 16 * a
    BY DEF Straight
  <2> QED
    BY <1>2, <2>1, <2>2, <2>3, Counts
<1>13. CASE BeginBrowser
  <2>1. task.at = "loop" /\ task' = [task EXCEPT !.at = "browse"]
    BY <1>13 DEF BeginBrowser
  <2>2. task'.at = "browse" /\ task'.stage = s /\ Len(task'.saving) = n /\ Attempts(task') = a
    BY <1>2, <1>3, <2>1 DEF Tasks, Attempts
  <2>3. Straight("browse", s, n) + 16 * a < Straight("loop", s, n) + 16 * a
    BY DEF Straight
  <2> QED
    BY <1>2, <2>1, <2>2, <2>3, Counts
<1>14. ASSUME NEW v \in {"passed", "skipped", "failed"}, EndBrowser(v)
       PROVE  StepsLeft' < StepsLeft
  <2>1. /\ task.at = "browse"
        /\ \/ task' = [task EXCEPT !.at = "failing"]
           \/ task' = [task EXCEPT !.at = "finish", !.prev = BROWSER]
    BY <1>14 DEF EndBrowser
  <2>2. PICK at \in {"finish", "failing"} : task'.at = at
    BY <1>3, <2>1 DEF Tasks
  <2>3. task'.stage = s /\ Len(task'.saving) = n /\ Attempts(task') = a
    BY <1>2, <1>3, <2>1 DEF Tasks, Attempts
  <2>4. Straight(at, s, n) + 16 * a < Straight("browse", s, n) + 16 * a
    BY DEF Straight
  <2> QED
    BY <1>2, <2>1, <2>2, <2>3, <2>4, Counts
<1>15. CASE Finish \/ (task.at = "failing" /\ Stop("failed"))
  <2>1. task.at # "none" /\ task' = [task EXCEPT !.at = "none"]
    BY <1>15 DEF Finish, Stop
  <2>2. StepsLeft' = 0 /\ StepsLeft # 0 /\ StepsLeft \in Nat
    <3>1. task'.at = "none"
      BY <1>3, <2>1 DEF Tasks
    <3>2. StepsLeft \in 0 .. MostSteps /\ StepsLeft # 0 /\ MostSteps \in Nat
      BY <1>3, <2>1, StepsBounded DEF MostSteps
    <3> QED
      BY <3>1, <3>2 DEF StepsLeft, StepsOf
  <2> QED
    BY <2>2
<1> QED
  BY <1>4, <1>5, <1>6, <1>7, <1>8, <1>9, <1>10, <1>11, <1>12, <1>13, <1>14, <1>15 DEF TaskStep

\* What else happens does not give a task more to do, but for the next start.
LEMMA OtherCounts ==
  ASSUME Types, [Next]_vars
  PROVE  StepsLeft' <= StepsLeft \/ (\E r \in Requests : StartRequest(r))
<1>1. StepsLeft \in Nat /\ task \in Tasks
  <2>1. MaxValidate \in Nat /\ MaxReview \in Nat
    BY BoundsAssumption
  <2> QED
    BY <2>1, StepsBounded DEF Types, MostSteps
<1>2. CASE TaskStep
  <2>1. Types'
    BY <1>2, StepTypes DEF Next
  <2>2. StepsLeft' \in Int
    BY <2>1, NextBounded
  <2> QED
    BY <1>1, <1>2, <2>2, StepCounts
<1>3. CASE \/ SaveQuestions \/ SaveWorkerPaused
           \/ (\E i \in Skippable : SkipStage(i)) \/ Restore \/ UNCHANGED vars
  <2>1. task' = task
    BY <1>3 DEF SaveQuestions, SaveWorkerPaused, SkipStage, Restore, vars
  <2> QED
    BY <1>1, <2>1 DEF StepsLeft
<1>4. CASE (\E o \in {"failed", "cancelled"} : Stop(o)) \/ Crash
  <2>1. task'.at = "none"
    BY <1>1, <1>4 DEF Stop, Crash, Idle, Tasks
  <2>2. StepsLeft' = 0
    BY <2>1 DEF StepsLeft, StepsOf
  <2> QED
    BY <1>1, <2>2
<1> QED
  BY <1>2, <1>3, <1>4 DEF Next

\* A start that was accepted comes to its end after at most MostSteps steps of its own,
\* in whatever order reports reject, the browser fails and stages are marked as skipped:
\* each of its steps leaves it fewer, and nothing but another start, which it excludes,
\* gives it more.
THEOREM StartsAreFinite ==
  Spec => /\ [](StepsLeft \in 0 .. MostSteps /\ (StepsLeft = 0 <=> task.at = "none"))
          /\ [][/\ TaskStep => StepsLeft' < StepsLeft
                /\ StepsLeft' > StepsLeft =>
                     StepsLeft = 0 /\ \E r \in Requests : StartRequest(r)]_vars
<1>1. Types /\ [Next]_vars =>
        [/\ TaskStep => StepsLeft' < StepsLeft
         /\ StepsLeft' > StepsLeft => StepsLeft = 0 /\ \E r \in Requests : StartRequest(r)]_vars
  <2> SUFFICES ASSUME Types, [Next]_vars
               PROVE  /\ TaskStep => StepsLeft' < StepsLeft
                      /\ StepsLeft' > StepsLeft =>
                           StepsLeft = 0 /\ \E r \in Requests : StartRequest(r)
    OBVIOUS
  <2>1. ASSUME NEW r \in Requests, StartRequest(r) PROVE StepsLeft = 0
    BY <2>1 DEF StartRequest, StepsLeft, StepsOf
  <2>2. StepsLeft \in Int /\ StepsLeft' \in Int
    <3>1. MaxValidate \in Nat /\ MaxReview \in Nat
      BY BoundsAssumption
    <3> QED
      BY <3>1, StepTypes, NextBounded, StepsBounded DEF MostSteps
  <2> QED
    BY <2>1, <2>2, StepCounts, OtherCounts
<1>2. Types => StepsLeft \in 0 .. MostSteps /\ (StepsLeft = 0 <=> task.at = "none")
  BY StepsBounded
<1> QED
  BY <1>1, <1>2, InitTypes, StepTypes, PTL DEF Spec
=============================================================================
