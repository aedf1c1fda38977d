--------------------------- MODULE Develop_proofs ---------------------------
(***************************************************************************)
(* Proofs about Develop, for any plans, requests of roles, strategies and  *)
(* paths.  First what plans of any length are sliced into, by induction    *)
(* over their lines; then the invariants of the stage.                     *)
(***************************************************************************)
EXTENDS Develop, FiniteSetTheorems, SequenceTheorems, WellFoundedInduction, TLAPS

-----------------------------------------------------------------------------
(* Induction.  A set of numbers with 0 and every successor in it has all   *)
(* of them: the principle without an operator as its parameter.            *)

LEMMA AllNumbers ==
  ASSUME NEW T, 0 \in T, \A n \in Nat : n \in T => n + 1 \in T
  PROVE  Nat \subseteq T
<1> SUFFICES ASSUME Nat \ T # {} PROVE FALSE
  OBVIOUS
<1>1. PICK n \in Nat \ T : \A m \in Nat \ T : <<m, n>> \notin OpToRel(<, Nat)
  BY NatLessThanWellFounded, WFMin
<1>2. \A m \in Nat \ T : ~(m < n)
  BY <1>1 DEF OpToRel
<1>3. n # 0 /\ n - 1 \in Nat /\ n - 1 < n /\ n - 1 + 1 = n
  OBVIOUS
<1> QED
  BY <1>2, <1>3

-----------------------------------------------------------------------------
(* The slices of a plan *)

Start == [section |-> FALSE, nested |-> FALSE, tasks |-> <<>>]
Specs == [id : Nat, files : {"any", "listed"}]
ReadTypes == [section : BOOLEAN, nested : BOOLEAN, tasks : Seq(Specs)]

\* The recursive function of Reading exists, so that its equation holds of it.
LEMMA ReadingStep ==
  ASSUME NEW lines \in Seq(LineKinds)
  PROVE  Reading(lines) = [k \in 0..Len(lines) |->
                             IF k = 0 THEN Start
                             ELSE ReadLine(Reading(lines)[k - 1], lines[k])]
<1> DEFINE Defines(f, n) ==
      f = [k \in 0..n |-> IF k = 0 THEN Start ELSE ReadLine(f[k - 1], lines[k])]
<1> DEFINE T == {n \in Nat : \E f : Defines(f, n)}
<1>1. 0 \in T
  <2> DEFINE f == [k \in 0..0 |-> Start]
  <2>1. Defines(f, 0)
    OBVIOUS
  <2> QED
    BY <2>1
<1>2. ASSUME NEW n \in Nat, n \in T PROVE n + 1 \in T
  <2>1. PICK g : Defines(g, n)
    BY <1>2
  <2> DEFINE f == [k \in 0..(n + 1) |->
                     IF k = n + 1 THEN ReadLine(g[n], lines[n + 1]) ELSE g[k]]
  <2>2. Defines(f, n + 1)
    <3> SUFFICES ASSUME NEW k \in 0..(n + 1)
                 PROVE  f[k] = IF k = 0 THEN Start ELSE ReadLine(f[k - 1], lines[k])
      OBVIOUS
    <3>1. CASE k = n + 1
      BY <3>1
    <3>2. CASE k # n + 1
      <4>1. k \in 0..n /\ f[k] = g[k]
        BY <3>2
      <4>2. CASE k # 0
        <5>1. k - 1 \in 0..n /\ f[k - 1] = g[k - 1]
          BY <4>2
        <5> QED
          BY <4>1, <4>2, <5>1, <2>1
      <4> QED
        BY <4>1, <4>2, <2>1
    <3> QED
      BY <3>1, <3>2
  <2>3. \E h : Defines(h, n + 1)
    <3> HIDE DEF f
    <3> QED
      BY <2>2
  <2> HIDE DEF Defines
  <2> QED
    BY <2>3
<1>3. Len(lines) \in T
  <2> HIDE DEF T
  <2> QED
    BY <1>1, <1>2, AllNumbers
<1>4. PICK f : Defines(f, Len(lines))
  BY <1>3
<1> QED
  BY <1>4 DEF Reading, Start

\* Tasks are lines, so there are finitely many.
LEMMA TaskLinesFinite ==
  ASSUME NEW lines \in Seq(LineKinds)
  PROVE  /\ TaskLines(lines) \subseteq Nat \ {0} /\ IsFiniteSet(TaskLines(lines))
         /\ \A k : IsFiniteSet({j \in TaskLines(lines) : j <= k})
         /\ \A k : TaskPlace(lines, k) \in Nat
<1>1. TaskLines(lines) \subseteq 1..Len(lines)
  BY DEF TaskLines
<1>2. IsFiniteSet(TaskLines(lines))
  BY <1>1, FS_Interval, FS_Subset
<1>3. ASSUME NEW k
      PROVE  IsFiniteSet({j \in TaskLines(lines) : j <= k}) /\ TaskPlace(lines, k) \in Nat
  <2>1. IsFiniteSet({j \in TaskLines(lines) : j <= k})
    BY <1>2, FS_Subset
  <2> QED
    BY <2>1, FS_CardinalityType DEF TaskPlace
<1>4. TaskLines(lines) \subseteq Nat \ {0}
  BY <1>1
<1> QED
  BY <1>2, <1>3, <1>4, Zenon

\* One place more at a task, none at another line.
LEMMA PlaceStep ==
  ASSUME NEW lines \in Seq(LineKinds), NEW k \in Nat
  PROVE  TaskPlace(lines, k + 1) =
           IF k + 1 \in TaskLines(lines) THEN TaskPlace(lines, k) + 1 ELSE TaskPlace(lines, k)
<1> DEFINE U(n) == {j \in TaskLines(lines) : j <= n}
<1>1. CASE k + 1 \in TaskLines(lines)
  <2>1. U(k + 1) = U(k) \cup {k + 1} /\ k + 1 \notin U(k)
    BY <1>1, TaskLinesFinite
  <2>2. IsFiniteSet(U(k))
    BY TaskLinesFinite
  <2>3. Cardinality(U(k + 1)) = Cardinality(U(k)) + 1
    <3> HIDE DEF U
    <3> QED
      BY <2>1, <2>2, FS_AddElement
  <2> QED
    BY <1>1, <2>3 DEF TaskPlace
<1>2. CASE k + 1 \notin TaskLines(lines)
  <2>1. U(k + 1) = U(k)
    BY <1>2, TaskLinesFinite
  <2> QED
    BY <1>2, <2>1 DEF TaskPlace
<1> QED
  BY <1>1, <1>2

\* Places keep the order of the lines, and two tasks have different ones.
LEMMA PlaceOrder ==
  ASSUME NEW lines \in Seq(LineKinds), NEW i \in Nat, NEW j \in Nat, i <= j
  PROVE  /\ TaskPlace(lines, i) <= TaskPlace(lines, j)
         /\ i # j /\ j \in TaskLines(lines) => TaskPlace(lines, i) < TaskPlace(lines, j)
         /\ (\A m \in (i + 1)..j : m \notin TaskLines(lines)) =>
              TaskPlace(lines, i) = TaskPlace(lines, j)
<1> DEFINE U(n) == {m \in TaskLines(lines) : m <= n}
<1>1. U(i) \subseteq U(j) /\ IsFiniteSet(U(j))
  <2>1. U(i) \subseteq U(j)
    BY TaskLinesFinite
  <2>2. IsFiniteSet(U(j))
    BY TaskLinesFinite, Zenon
  <2> QED
    BY <2>1, <2>2
<1>2. /\ TaskPlace(lines, i) \in Nat /\ TaskPlace(lines, j) \in Nat
      /\ TaskPlace(lines, i) = Cardinality(U(i)) /\ TaskPlace(lines, j) = Cardinality(U(j))
  BY TaskLinesFinite, Zenon DEF TaskPlace
<1>3. Cardinality(U(i)) <= Cardinality(U(j)) /\ (Cardinality(U(i)) = Cardinality(U(j)) => U(i) = U(j))
  <2> HIDE DEF U
  <2> QED
    BY <1>1, FS_Subset
<1>4. ASSUME i # j, j \in TaskLines(lines) PROVE U(i) # U(j)
  <2>1. j \in U(j) /\ j \notin U(i)
    BY <1>4
  <2> QED
    BY <2>1
<1>5. ASSUME \A m \in (i + 1)..j : m \notin TaskLines(lines) PROVE U(i) = U(j)
  BY <1>5, TaskLinesFinite
<1> HIDE DEF U
<1>6. TaskPlace(lines, i) <= TaskPlace(lines, j)
  BY <1>2, <1>3
<1>7. ASSUME i # j, j \in TaskLines(lines) PROVE TaskPlace(lines, i) < TaskPlace(lines, j)
  BY <1>2, <1>3, <1>4, <1>7
<1>8. ASSUME \A m \in (i + 1)..j : m \notin TaskLines(lines)
      PROVE  TaskPlace(lines, i) = TaskPlace(lines, j)
  BY <1>2, <1>5, <1>8
<1> QED
  BY <1>6, <1>7, <1>8

\* Places are counted from one.
LEMMA PlaceAtTask ==
  ASSUME NEW lines \in Seq(LineKinds), NEW j \in TaskLines(lines)
  PROVE  TaskPlace(lines, j) \in Nat \ {0}
<1>1. j \in Nat \ {0} /\ TaskPlace(lines, j) \in Nat /\ TaskPlace(lines, 0) \in Nat
  BY TaskLinesFinite
<1> QED
  BY <1>1, PlaceOrder

\* The lines after a task at line j, up to k, all belong to it; with a list of files among
\* them; there is such a task; and what its spec is by then.
GoesOn(lines, j, k) == \A m \in (j + 1)..k : lines[m] \in Nested \cup {"empty"}
FilesBy(lines, j, k) == \E i \in (j + 1)..k : lines[i] = "files" /\ GoesOn(lines, j, i)
Nesting(lines, k) == \E j \in TaskLines(lines) : j <= k /\ GoesOn(lines, j, k)
SpecAt(lines, j, k) ==
  Task(IF lines[j] = "named bullet" THEN OwnId ELSE TaskPlace(lines, j),
       IF FilesBy(lines, j, k) THEN "listed" ELSE "any")

\* What has been read after k lines is right of these lines.
ReadRight(lines, k) ==
  LET read == Reading(lines)[k] IN
    /\ read \in ReadTypes
    /\ read.section <=> InSection(lines, k + 1)
    /\ read.nested <=> Nesting(lines, k)
    /\ Len(read.tasks) = TaskPlace(lines, k)
    /\ \A j \in TaskLines(lines) : j <= k =>
         read.tasks[TaskPlace(lines, j)] = SpecAt(lines, j, k)

\* A line is of one kind.
LEMMA Kinds ==
  ASSUME NEW line \in LineKinds
  PROVE  /\ line \in Opening <=> line \notin Closing \cup Bullets \cup Nested \cup {"empty", "text"}
         /\ line \in Closing <=> line \notin Opening \cup Bullets \cup Nested \cup {"empty", "text"}
         /\ line \in Bullets <=> line \notin Opening \cup Closing \cup Nested \cup {"empty", "text"}
BY DEF LineKinds, Opening, Closing, Bullets, Nested

\* How a line more changes whether a section is open, whether the last task is still
\* listed for, and whether a task has files.
LEMMA SectionStep ==
  ASSUME NEW lines \in Seq(LineKinds), NEW k \in Nat, k + 1 <= Len(lines)
  PROVE  InSection(lines, k + 2) <=>
           \/ lines[k + 1] \in Opening
           \/ lines[k + 1] \notin Closing /\ InSection(lines, k + 1)
<1>1. ASSUME lines[k + 1] \in Opening PROVE InSection(lines, k + 2)
  <2>1. k + 1 \in 1..(k + 2 - 1) /\ \A j \in (k + 1 + 1)..(k + 2 - 1) : FALSE
    OBVIOUS
  <2> QED
    BY <1>1, <2>1 DEF InSection
<1>2. ASSUME lines[k + 1] \notin Closing, InSection(lines, k + 1) PROVE InSection(lines, k + 2)
  <2>1. PICK i \in 1..(k + 1 - 1) :
          lines[i] \in Opening /\ \A j \in (i + 1)..(k + 1 - 1) : lines[j] \notin Closing
    BY <1>2 DEF InSection
  <2>2. i \in 1..(k + 2 - 1)
    OBVIOUS
  <2>3. ASSUME NEW j \in (i + 1)..(k + 2 - 1) PROVE lines[j] \notin Closing
    BY <1>2, <2>1
  <2> QED
    BY <2>1, <2>2, <2>3 DEF InSection
<1>3. ASSUME InSection(lines, k + 2), lines[k + 1] \notin Opening
      PROVE  lines[k + 1] \notin Closing /\ InSection(lines, k + 1)
  <2>1. PICK i \in 1..(k + 2 - 1) :
          lines[i] \in Opening /\ \A j \in (i + 1)..(k + 2 - 1) : lines[j] \notin Closing
    BY <1>3 DEF InSection
  <2>2. i # k + 1
    BY <1>3, <2>1
  <2>3. i \in 1..(k + 1 - 1) /\ k + 1 \in (i + 1)..(k + 2 - 1)
    BY <2>2
  <2>4. \A j \in (i + 1)..(k + 1 - 1) : j \in (i + 1)..(k + 2 - 1)
    OBVIOUS
  <2> QED
    BY <2>1, <2>3, <2>4 DEF InSection
<1> QED
  BY <1>1, <1>2, <1>3

LEMMA NestingStep ==
  ASSUME NEW lines \in Seq(LineKinds), NEW k \in Nat, k + 1 <= Len(lines)
  PROVE  Nesting(lines, k + 1) <=>
           \/ k + 1 \in TaskLines(lines)
           \/ lines[k + 1] \in Nested \cup {"empty"} /\ Nesting(lines, k)
<1>1. TaskLines(lines) \subseteq Nat
  BY TaskLinesFinite
<1>2. \A j \in Nat : j <= k =>
        (GoesOn(lines, j, k + 1) <=>
           GoesOn(lines, j, k) /\ lines[k + 1] \in Nested \cup {"empty"})
  BY DEF GoesOn
<1>3. GoesOn(lines, k + 1, k + 1)
  BY DEF GoesOn
<1>4. \A j \in Nat : j <= k + 1 => j = k + 1 \/ j <= k
  OBVIOUS
<1> QED
  BY <1>1, <1>2, <1>3, <1>4 DEF Nesting

LEMMA FilesStep ==
  ASSUME NEW lines \in Seq(LineKinds), NEW k \in Nat, NEW j \in Nat, j <= k
  PROVE  FilesBy(lines, j, k + 1) <=>
           FilesBy(lines, j, k) \/ (lines[k + 1] = "files" /\ GoesOn(lines, j, k + 1))
<1> DEFINE P(i) == lines[i] = "files" /\ GoesOn(lines, j, i)
<1>1. (j + 1)..(k + 1) = (j + 1)..k \cup {k + 1}
  OBVIOUS
<1>2. FilesBy(lines, j, k) <=> \E i \in (j + 1)..k : P(i)
  BY Zenon DEF FilesBy
<1>3. FilesBy(lines, j, k + 1) <=> \E i \in (j + 1)..(k + 1) : P(i)
  BY Zenon DEF FilesBy
<1>4. P(k + 1) <=> lines[k + 1] = "files" /\ GoesOn(lines, j, k + 1)
  OBVIOUS
<1> HIDE DEF P
<1>5. \A A, B, x : A = B \cup {x} =>
        ((\E i \in A : P(i)) <=> (\E i \in B : P(i)) \/ P(x))
  OBVIOUS
<1> QED
  BY <1>1, <1>2, <1>3, <1>4, <1>5, Zenon

\* A task whose list a line goes on with is the last one.
LEMMA NestingLast ==
  ASSUME NEW lines \in Seq(LineKinds), NEW k \in Nat, k <= Len(lines),
         NEW j \in TaskLines(lines), j <= k
  PROVE  /\ GoesOn(lines, j, k) => TaskPlace(lines, j) = TaskPlace(lines, k)
         /\ ~GoesOn(lines, j, k) /\ Nesting(lines, k) =>
              TaskPlace(lines, j) < TaskPlace(lines, k)
<1>1. j \in Nat
  BY TaskLinesFinite
<1>2. ASSUME NEW i \in TaskLines(lines), i <= k, GoesOn(lines, i, k)
      PROVE  TaskPlace(lines, i) = TaskPlace(lines, k) /\ i \in Nat
  <2>1. i \in Nat
    BY TaskLinesFinite
  <2>2. ASSUME NEW m \in (i + 1)..k PROVE m \notin TaskLines(lines)
    <3>1. lines[m] \in Nested \cup {"empty"} /\ m \in DOMAIN lines /\ lines[m] \in LineKinds
      BY <1>2, <2>1 DEF GoesOn
    <3> QED
      BY <3>1, Kinds DEF TaskLines
  <2> QED
    BY <1>2, <2>1, <2>2, PlaceOrder
<1>3. ASSUME ~GoesOn(lines, j, k), Nesting(lines, k)
      PROVE  TaskPlace(lines, j) < TaskPlace(lines, k)
  <2>1. PICK i \in TaskLines(lines) : i <= k /\ GoesOn(lines, i, k)
    BY <1>3 DEF Nesting
  <2>2. i \in Nat /\ TaskPlace(lines, i) = TaskPlace(lines, k)
    BY <1>2, <2>1
  <2>3. ~(i <= j)
    <3>1. i <= j => GoesOn(lines, j, k)
      BY <1>1, <2>1, <2>2 DEF GoesOn
    <3> QED
      BY <1>3, <3>1
  <2>4. TaskPlace(lines, j) < TaskPlace(lines, i)
    BY <1>1, <2>2, <2>3, PlaceOrder
  <2> QED
    BY <2>2, <2>4
<1> QED
  BY <1>2, <1>3

\* What one line does to what has been read, if n tasks have.
LineRead(read, line, n, new) ==
  LET task == line \in Bullets /\ read.section
      files == line = "files" /\ read.nested
  IN  /\ new \in ReadTypes
      /\ new.section <=> line \in Opening \/ (line \notin Closing /\ read.section)
      /\ new.nested <=> task \/ (line \in Nested \cup {"empty"} /\ read.nested)
      /\ task => new.tasks =
                   Append(read.tasks, Task(IF line = "named bullet" THEN OwnId ELSE n + 1, "any"))
      /\ files => new.tasks = [read.tasks EXCEPT ![n] = Task(read.tasks[n].id, "listed")]
      /\ ~task /\ ~files => new.tasks = read.tasks

LEMMA ReadLineFacts ==
  ASSUME NEW read \in ReadTypes, NEW line \in LineKinds, NEW n \in Nat,
         n = Len(read.tasks), read.nested => n >= 1
  PROVE  LineRead(read, line, n, ReadLine(read, line))
<1> DEFINE new == ReadLine(read, line)
           task == line \in Bullets /\ read.section
           files == line = "files" /\ read.nested
           spec == Task(IF line = "named bullet" THEN OwnId ELSE n + 1, "any")
           Facts ==
             /\ new \in ReadTypes
             /\ new.section <=> line \in Opening \/ (line \notin Closing /\ read.section)
             /\ new.nested <=> task \/ (line \in Nested \cup {"empty"} /\ read.nested)
             /\ task => new.tasks = Append(read.tasks, spec)
             /\ files => new.tasks =
                           [read.tasks EXCEPT ![n] = Task(read.tasks[n].id, "listed")]
             /\ ~task /\ ~files => new.tasks = read.tasks
<1> USE DEF ReadTypes
<1>1. /\ read.section \in BOOLEAN /\ read.nested \in BOOLEAN /\ read.tasks \in Seq(Specs)
      /\ read = [section |-> read.section, nested |-> read.nested, tasks |-> read.tasks]
  OBVIOUS
<1>2. ASSUME line \in Opening PROVE Facts
  <2>1. new = [read EXCEPT !.section = TRUE, !.nested = FALSE]
    BY <1>2 DEF ReadLine, Opening, Closing, Bullets
  <2>2. ~task /\ ~files /\ line \notin Nested \cup {"empty"}
    BY <1>2 DEF Opening, Bullets, Nested
  <2> HIDE DEF new, task, files, spec
  <2> QED
    BY <1>1, <1>2, <2>1, <2>2
<1>3. ASSUME line \in Closing PROVE Facts
  <2>1. new = [read EXCEPT !.section = FALSE, !.nested = FALSE]
    BY <1>3 DEF ReadLine, Opening, Closing, Bullets
  <2>2. ~task /\ ~files /\ line \notin Nested \cup {"empty"} /\ line \notin Opening
    BY <1>3 DEF Closing, Opening, Bullets, Nested
  <2> HIDE DEF new, task, files, spec
  <2> QED
    BY <1>1, <1>3, <2>1, <2>2
<1>4. ASSUME task PROVE Facts
  <2>1. new = [section |-> TRUE, nested |-> TRUE, tasks |-> Append(read.tasks, spec)]
    BY <1>4 DEF ReadLine, Opening, Closing, Bullets
  <2>2. spec \in Specs
    <3>1. n + 1 \in Nat /\ OwnId \in Nat
      BY DEF OwnId
    <3> QED
      BY <3>1 DEF Task, Specs
  <2>3. ~files /\ line \notin Closing
    BY <1>4 DEF Closing, Bullets
  <2>4. new \in ReadTypes /\ new.section /\ new.nested /\ new.tasks = Append(read.tasks, spec)
    <3> HIDE DEF new, spec
    <3> QED
      BY <1>1, <2>1, <2>2
  <2> HIDE DEF new, spec
  <2> QED
    BY <1>4, <2>3, <2>4
<1>5. ASSUME files PROVE Facts
  <2>1. line \notin Opening \cup Closing \cup Bullets /\ line \in Nested
    BY <1>5 DEF Opening, Closing, Bullets, Nested
  <2>2. new = [read EXCEPT !.tasks[n].files = "listed"]
    BY <1>5, <2>1 DEF ReadLine
  <2>3. read.tasks[n] \in Specs /\ n \in DOMAIN read.tasks
    BY <1>1, <1>5
  <2>4. [read.tasks[n] EXCEPT !.files = "listed"] = Task(read.tasks[n].id, "listed")
        /\ Task(read.tasks[n].id, "listed") \in Specs
    BY <2>3 DEF Task, Specs
  <2>5. /\ new.section = read.section /\ new.nested = read.nested
        /\ new.tasks = [read.tasks EXCEPT ![n] = Task(read.tasks[n].id, "listed")]
        /\ new = [section |-> new.section, nested |-> new.nested, tasks |-> new.tasks]
    BY <1>1, <2>2, <2>4
  <2>6. new.tasks \in Seq(Specs)
    BY <1>1, <2>3, <2>4, <2>5
  <2>7. new \in ReadTypes
    BY <1>1, <2>5, <2>6
  <2> HIDE DEF new, spec
  <2> QED
    BY <1>5, <2>1, <2>5, <2>7
<1>6. ASSUME line \in {"note", "empty"} PROVE Facts
  <2>1. line \notin Opening \cup Closing \cup Bullets \cup {"files"}
        /\ line \in Nested \cup {"empty"}
    BY <1>6 DEF Opening, Closing, Bullets, Nested
  <2>2. new = read
    BY <1>6, <2>1 DEF ReadLine
  <2> HIDE DEF new, spec
  <2> QED
    BY <1>1, <2>1, <2>2
<1>7. ASSUME line \notin Opening \cup Closing \cup {"note", "empty"} /\ ~task /\ ~files PROVE Facts
  <2>1. new = [read EXCEPT !.nested = FALSE]
    BY <1>7 DEF ReadLine
  <2>2. ~(line \in Nested \cup {"empty"} /\ read.nested)
    BY <1>7 DEF Nested
  <2>3. read.section => line \notin Bullets
    BY <1>7
  <2> HIDE DEF new, task, files, spec
  <2> QED
    BY <1>1, <1>7, <2>1, <2>2
<1>8. Facts
  <2> HIDE DEF Facts
  <2> QED
    BY <1>2, <1>3, <1>4, <1>5, <1>6, <1>7
<1> QED
  BY <1>8 DEF LineRead

\* A line more is read right.
LEMMA ReadRightStep ==
  ASSUME NEW lines \in Seq(LineKinds), NEW k \in Nat, k + 1 <= Len(lines),
         ReadRight(lines, k)
  PROVE  ReadRight(lines, k + 1)
<1> DEFINE read == Reading(lines)[k]
           new == Reading(lines)[k + 1]
           line == lines[k + 1]
           n == TaskPlace(lines, k)
           task == line \in Bullets /\ read.section
           files == line = "files" /\ read.nested
           spec == Task(IF line = "named bullet" THEN OwnId ELSE n + 1, "any")
           Old(j) == j \in TaskLines(lines) /\ j <= k
\* What is known of the k lines before.
<1>1. /\ read \in ReadTypes /\ (read.section <=> InSection(lines, k + 1))
      /\ (read.nested <=> Nesting(lines, k)) /\ Len(read.tasks) = n
      /\ \A j \in TaskLines(lines) : j <= k =>
           read.tasks[TaskPlace(lines, j)] = SpecAt(lines, j, k)
  BY DEF ReadRight
<1>2. line \in LineKinds /\ n \in Nat /\ \A j : Old(j) => j \in Nat
  BY TaskLinesFinite
<1>3. \A j : Old(j) => TaskPlace(lines, j) \in 1..n
  <2> SUFFICES ASSUME NEW j \in TaskLines(lines), j <= k PROVE TaskPlace(lines, j) \in 1..n
    OBVIOUS
  <2>1. TaskPlace(lines, j) \in Nat \ {0} /\ TaskPlace(lines, j) <= n
    BY <1>2, PlaceAtTask, PlaceOrder
  <2> QED
    BY <1>2, <2>1
<1>4. read.nested => n >= 1 /\ \E j : Old(j) /\ GoesOn(lines, j, k)
  BY <1>1, <1>2, <1>3 DEF Nesting
<1>5. \A j : Old(j) => /\ GoesOn(lines, j, k) => TaskPlace(lines, j) = n
                       /\ ~GoesOn(lines, j, k) /\ read.nested => TaskPlace(lines, j) < n
  BY <1>1, NestingLast
<1>6. read.tasks \in Seq(Specs)
  BY <1>1 DEF ReadTypes
\* What the line does.
<1>7. new = ReadLine(read, line)
  <2>1. k + 1 \in 0..Len(lines) /\ k + 1 # 0 /\ k + 1 - 1 = k
    OBVIOUS
  <2> QED
    BY <2>1, ReadingStep
<1>8. /\ new \in ReadTypes
      /\ new.section <=> line \in Opening \/ (line \notin Closing /\ read.section)
      /\ new.nested <=> task \/ (line \in Nested \cup {"empty"} /\ read.nested)
      /\ task => new.tasks = Append(read.tasks, spec)
      /\ files => new.tasks = [read.tasks EXCEPT ![n] = Task(read.tasks[n].id, "listed")]
      /\ ~task /\ ~files => new.tasks = read.tasks
  <2>1. read \in ReadTypes /\ line \in LineKinds /\ n \in Nat /\ n = Len(read.tasks)
        /\ (read.nested => n >= 1)
    BY <1>1, <1>2, <1>4
  <2> HIDE DEF read, new, line, n
  <2>2. LineRead(read, line, n, new)
    BY <1>7, <2>1, ReadLineFacts
  <2> QED
    BY <2>2 DEF LineRead
\* What the line is.
<1>9. k + 1 \in TaskLines(lines) <=> task
  BY <1>1 DEF TaskLines
<1>10. new.section <=> InSection(lines, k + 1 + 1)
  <2>1. k + 1 + 1 = k + 2
    OBVIOUS
  <2> QED
    BY <1>1, <1>8, <2>1, SectionStep
<1>11. new.nested <=> Nesting(lines, k + 1)
  <2>1. Nesting(lines, k + 1) <=>
          \/ k + 1 \in TaskLines(lines)
          \/ line \in Nested \cup {"empty"} /\ Nesting(lines, k)
    BY NestingStep
  <2> HIDE DEF read, new, line
  <2> QED
    BY <1>1, <1>8, <1>9, <2>1
<1>12. TaskPlace(lines, k + 1) = IF task THEN n + 1 ELSE n
  BY <1>9, PlaceStep
<1>13. \A j : Old(j) =>
         FilesBy(lines, j, k + 1) <=>
           FilesBy(lines, j, k) \/ (line = "files" /\ GoesOn(lines, j, k + 1))
  BY <1>2, FilesStep
<1>14. \A j : Old(j) =>
         GoesOn(lines, j, k + 1) <=> GoesOn(lines, j, k) /\ line \in Nested \cup {"empty"}
  BY <1>2 DEF GoesOn
<1>15. task => SpecAt(lines, k + 1, k + 1) = spec
  <2>1. ~FilesBy(lines, k + 1, k + 1)
    BY DEF FilesBy
  <2> QED
    BY <1>12, <2>1 DEF SpecAt
<1>16. \A j \in TaskLines(lines) : j <= k + 1 => Old(j) \/ j = k + 1
  BY TaskLinesFinite
<1>17. \A j : Old(j) => read.tasks[TaskPlace(lines, j)] = SpecAt(lines, j, k)
  BY <1>1
<1>18. \A j : GoesOn(lines, j, k) \in BOOLEAN /\ GoesOn(lines, j, k + 1) \in BOOLEAN
              /\ FilesBy(lines, j, k) \in BOOLEAN /\ FilesBy(lines, j, k + 1) \in BOOLEAN
  BY DEF GoesOn, FilesBy
\* Together.
<1>19. read.nested <=> \E j : Old(j) /\ GoesOn(lines, j, k)
  BY <1>1 DEF Nesting
<1>20. line \in Bullets => line # "files"
  BY DEF Bullets
<1>21. "files" \in Nested
  BY DEF Nested
<1>22. Len(new.tasks) = TaskPlace(lines, k + 1)
       /\ \A j \in TaskLines(lines) : j <= k + 1 =>
            new.tasks[TaskPlace(lines, j)] = SpecAt(lines, j, k + 1)
  <2>1. Len(read.tasks) = n
    BY <1>1
  <2>2. \A j : Old(j) /\ ~files => SpecAt(lines, j, k + 1) = SpecAt(lines, j, k)
    <3> HIDE DEF read, line, Old
    <3> QED
      BY <1>13, <1>14, <1>18, <1>19 DEF SpecAt
  <2> HIDE DEF read, new, line, n, spec, Old
  <2>3. CASE task
    <3>0. spec \in Specs
      <4>1. n + 1 \in Nat /\ OwnId \in Nat
        BY <1>2 DEF OwnId
      <4> QED
        BY <4>1 DEF spec, Task, Specs
    <3>1. Len(new.tasks) = n + 1 /\ new.tasks[n + 1] = spec
          /\ \A i \in 1..n : new.tasks[i] = read.tasks[i]
      <4>1. new.tasks = Append(read.tasks, spec)
        BY <1>8, <2>3
      <4> HIDE DEF task
      <4> QED
        BY <1>6, <2>1, <3>0, <4>1, AppendProperties
    <3>2. ~files
      BY <1>20, <2>3
    <3>3. ASSUME NEW j \in TaskLines(lines), j <= k + 1
          PROVE  new.tasks[TaskPlace(lines, j)] = SpecAt(lines, j, k + 1)
      <4>1. CASE j = k + 1
        BY <1>12, <1>15, <2>3, <3>1, <4>1
      <4>2. CASE Old(j)
        BY <1>3, <1>17, <2>2, <3>1, <3>2, <4>2
      <4> QED
        BY <1>16, <3>3, <4>1, <4>2
    <3> QED
      BY <1>12, <2>3, <3>1, <3>3
  <2>4. CASE files
    <3>1. ~task /\ k + 1 \notin TaskLines(lines)
      BY <1>9, <1>20, <2>4
    <3>2. n \in 1..n /\ DOMAIN read.tasks = 1..n
      BY <1>2, <1>4, <1>6, <2>1, <2>4
    <3>3. /\ new.tasks = [read.tasks EXCEPT ![n] = Task(read.tasks[n].id, "listed")]
          /\ Len(new.tasks) = n
      BY <1>6, <1>8, <2>1, <2>4, <3>2
    <3>4. ASSUME NEW j \in TaskLines(lines), j <= k + 1
          PROVE  new.tasks[TaskPlace(lines, j)] = SpecAt(lines, j, k + 1)
      <4>1. Old(j) /\ TaskPlace(lines, j) \in 1..n
        BY <1>3, <1>16, <3>1, <3>4
      <4>2. CASE GoesOn(lines, j, k)
        <5>1. TaskPlace(lines, j) = n
          BY <1>5, <4>1, <4>2
        <5>2. FilesBy(lines, j, k + 1)
          BY <1>13, <1>14, <1>21, <2>4, <4>1, <4>2
        <5>3. read.tasks[n].id = SpecAt(lines, j, k).id
          BY <1>17, <4>1, <5>1
        <5>4. new.tasks[n] = Task(read.tasks[n].id, "listed")
          BY <3>2, <3>3
        <5> QED
          BY <5>1, <5>2, <5>3, <5>4 DEF SpecAt, Task
      <4>3. CASE ~GoesOn(lines, j, k)
        <5>1. TaskPlace(lines, j) # n
          BY <1>2, <1>5, <2>4, <4>1, <4>3
        <5>2. SpecAt(lines, j, k + 1) = SpecAt(lines, j, k)
          BY <1>13, <1>14, <1>18, <4>1, <4>3 DEF SpecAt
        <5>3. new.tasks[TaskPlace(lines, j)] = read.tasks[TaskPlace(lines, j)]
          BY <3>2, <3>3, <4>1, <5>1
        <5> QED
          BY <1>17, <4>1, <5>2, <5>3
      <4> QED
        BY <4>2, <4>3
    <3> QED
      BY <1>12, <3>1, <3>3, <3>4
  <2>5. CASE ~task /\ ~files
    <3>1. new.tasks = read.tasks /\ k + 1 \notin TaskLines(lines)
      BY <1>8, <1>9, <2>5
    <3>2. TaskPlace(lines, k + 1) = n
      BY <1>12, <2>5
    <3> QED
      BY <1>16, <1>17, <2>1, <2>2, <2>5, <3>1, <3>2
  <2> QED
    BY <2>3, <2>4, <2>5
<1> QED
  BY <1>8, <1>10, <1>11, <1>22 DEF ReadRight

\* By induction over the lines all are read right.
LEMMA ReadRightAlways ==
  ASSUME NEW lines \in Seq(LineKinds)
  PROVE  ReadRight(lines, Len(lines))
<1> DEFINE T == {k \in Nat : k <= Len(lines) => ReadRight(lines, k)}
<1>1. 0 \in T
  <2>1. Reading(lines)[0] = Start
    <3>1. 0 \in 0..Len(lines)
      OBVIOUS
    <3> QED
      BY <3>1, ReadingStep
  <2>2. ~InSection(lines, 0 + 1)
    BY DEF InSection
  <2>3. \A j \in TaskLines(lines) : ~(j <= 0)
    BY TaskLinesFinite
  <2>4. TaskPlace(lines, 0) = 0
    <3>1. {j \in TaskLines(lines) : j <= 0} = {}
      BY <2>3
    <3> QED
      BY <3>1, FS_EmptySet DEF TaskPlace
  <2>5. ~Nesting(lines, 0)
    BY <2>3 DEF Nesting
  <2>6. Start \in ReadTypes /\ Len(Start.tasks) = 0 /\ ~Start.section /\ ~Start.nested
    BY DEF Start, ReadTypes
  <2>7. ReadRight(lines, 0)
    BY <2>1, <2>2, <2>3, <2>4, <2>5, <2>6 DEF ReadRight
  <2> QED
    BY <2>7
<1>2. ASSUME NEW k \in Nat, k \in T PROVE k + 1 \in T
  <2>1. k + 1 <= Len(lines) => ReadRight(lines, k + 1)
    BY <1>2, ReadRightStep
  <2> QED
    BY <2>1
<1>3. Len(lines) \in Nat
  OBVIOUS
<1>4. Len(lines) \in T
  <2> HIDE DEF T
  <2> QED
    BY <1>1, <1>2, <1>3, AllNumbers
<1> QED
  BY <1>3, <1>4

\* The slices of the markdown plan are the tasks of the plan.
LEMMA MarkdownRight ==
  ASSUME NEW lines \in Seq(LineKinds)
  PROVE  TasksOf(lines, MarkdownTasks(lines))
<1> DEFINE k == Len(lines)
<1>1. ReadRight(lines, k) /\ k \in Nat
  BY ReadRightAlways
<1>2. \A j \in TaskLines(lines) : j <= k
  BY DEF TaskLines
<1>3. TaskPlace(lines, k) = Cardinality(TaskLines(lines))
  <2>1. {j \in TaskLines(lines) : j <= k} = TaskLines(lines)
    BY <1>2
  <2> QED
    BY <2>1 DEF TaskPlace
<1>4. ASSUME NEW j \in TaskLines(lines) PROVE FilesBy(lines, j, k) <=> HasFiles(lines, j)
  BY DEF FilesBy, HasFiles, GoesOn
<1>5. ASSUME NEW j \in TaskLines(lines)
      PROVE  MarkdownTasks(lines)[TaskPlace(lines, j)] =
               Task(IF lines[j] = "named bullet" THEN OwnId ELSE TaskPlace(lines, j),
                    IF HasFiles(lines, j) THEN "listed" ELSE "any")
  BY <1>1, <1>2, <1>4 DEF ReadRight, MarkdownTasks, SpecAt
<1>6. MarkdownTasks(lines) \in Seq(Specs) /\ Len(MarkdownTasks(lines)) = TaskPlace(lines, k)
  BY <1>1 DEF ReadRight, MarkdownTasks, ReadTypes
<1> QED
  BY <1>3, <1>5, <1>6 DEF TasksOf, Specs

\* However a plan is sliced, there is a task.
LEMMA SlicesCount ==
  ASSUME NEW lines \in Seq(LineKinds), NEW entries \in Seq(EntryKinds)
  PROVE  Len(SlicedTasks(lines, entries)) \in Nat \ {0}
<1>1. MarkdownTasks(lines) \in Seq(Specs)
  BY MarkdownRight DEF TasksOf, Specs
<1>2. SidecarTasks(entries) \in Seq(Specs)
  <2>1. ASSUME NEW i \in DOMAIN entries
        PROVE  Task(i, IF entries[i] = "complete" THEN "listed" ELSE "any") \in Specs
    BY DEF Task, Specs
  <2> DEFINE f == [i \in DOMAIN entries |->
                     Task(i, IF entries[i] = "complete" THEN "listed" ELSE "any")]
  <2>2. f \in Seq(Specs)
    <3>1. f \in [1..Len(entries) -> Specs]
      BY <2>1
    <3> HIDE DEF f
    <3> QED
      BY <3>1
  <2>3. SidecarTasks(entries) \in {<<>>, f}
    BY DEF SidecarTasks
  <2> HIDE DEF f
  <2> QED
    BY <2>2, <2>3, EmptySeq
<1>3. Fallback \in Seq(Specs) /\ Fallback # <<>>
  BY DEF Fallback, Task, Specs
<1>4. SlicedTasks(lines, entries) \in Seq(Specs) /\ SlicedTasks(lines, entries) # <<>>
  BY <1>1, <1>2, <1>3 DEF SlicedTasks
<1> QED
  BY <1>4

\* Without a sidecar the slices of any plan are its tasks, or the one for all of it.
LEMMA SlicesRight ==
  ASSUME NEW lines \in Seq(LineKinds)
  PROVE  IF TaskLines(lines) = {} THEN SlicedTasks(lines, <<>>) = Fallback
         ELSE TasksOf(lines, SlicedTasks(lines, <<>>))
<1>1. SidecarTasks(<<>>) = <<>>
  BY DEF SidecarTasks
<1>2. TasksOf(lines, MarkdownTasks(lines))
  BY MarkdownRight
<1>3. MarkdownTasks(lines) = <<>> <=> TaskLines(lines) = {}
  <2>1. /\ MarkdownTasks(lines) \in Seq([id : Nat, files : {"any", "listed"}])
        /\ Len(MarkdownTasks(lines)) = Cardinality(TaskLines(lines))
    BY <1>2 DEF TasksOf
  <2>2. Cardinality(TaskLines(lines)) = 0 <=> TaskLines(lines) = {}
    BY TaskLinesFinite, FS_EmptySet
  <2> QED
    BY <2>1, <2>2
<1> QED
  BY <1>1, <1>2, <1>3 DEF SlicedTasks

-----------------------------------------------------------------------------
(* Roles and shares *)

\* However few roles are asked for, there is one.
LEMMA RoleCountType ==
  ASSUME NEW r \in RoleRequests
  PROVE  RoleCount(r.asked, r.valid, MaxWorkers, DefaultWorkers) \in Nat \ {0}
<1>1. r.valid \in Nat /\ MaxWorkers \in Nat /\ DefaultWorkers \in Nat
  BY PlansAssumption, SwarmAssumption
<1> QED
  BY <1>1 DEF RoleCount, Most, Least

\* There is an assignment at least, it is given tasks only, and every task is given
\* to one.
LEMMA SharesType ==
  ASSUME NEW n \in Nat \ {0}, NEW m \in Nat \ {0}
  PROVE  /\ Shares(n, m) \in Seq(SUBSET (1..n))
         /\ Len(Shares(n, m)) >= 1
         /\ \A t \in 1..n : \E i \in DOMAIN Shares(n, m) : t \in Shares(n, m)[i]
<1>1. CASE m = 1 /\ n > 1
  <2>1. Shares(n, m) = <<1..n>>
    BY <1>1 DEF Shares
  <2> QED
    BY <2>1
<1>2. CASE ~(m = 1 /\ n > 1)
  <2> DEFINE k == Most(n, m)
             f == [i \in 1..k |-> {((i - 1) % n) + 1}]
  <2>1. Shares(n, m) = f
    BY <1>2 DEF Shares
  <2>2. k \in Nat /\ k >= n /\ k >= 1
    BY DEF Most
  <2>3. \A i \in 1..k : ((i - 1) % n) + 1 \in 1..n
    BY <2>2
  <2>4. f \in Seq(SUBSET (1..n)) /\ Len(f) = k
    <3>1. f \in [1..k -> SUBSET (1..n)]
      BY <2>3
    <3> HIDE DEF f, k
    <3> QED
      BY <2>2, <3>1
  <2>5. ASSUME NEW t \in 1..n PROVE t \in DOMAIN f /\ t \in f[t]
    <3>1. t \in 1..k /\ t - 1 \in 0..(n - 1)
      BY <2>2
    <3>2. (t - 1) % n = t - 1
      BY <3>1
    <3> QED
      BY <3>1, <3>2
  <2> HIDE DEF f, k
  <2> QED
    BY <2>1, <2>2, <2>4, <2>5
<1> QED
  BY <1>1, <1>2

-----------------------------------------------------------------------------
(* Types *)

Working == {"merge", "abort", "recover", "restart", "resolve", "remove"}

\* Where the stage stands in the shares.
Place ==
  /\ pc = "slice" => plan \in Plans /\ shares = <<>> /\ merged = <<>> /\ first = 1
  /\ pc \in {"batch"} \cup Working => roles >= 1 /\ first <= Len(shares)
  /\ pc \in Working => first <= next /\ next <= BatchEnd + 1
  /\ pc \in Working \ {"merge"} => next <= BatchEnd /\ state[next] = "ready"

\* Every task has its assignment.
Shared == \A t \in 1..tasks : \E i \in Assignments : t \in shares[i]

Types == TypeOK /\ Place /\ Shared

LEMMA InitTypes == Init => Types
<1> SUFFICES ASSUME Init PROVE Types
  OBVIOUS
<1>1. plan \in [lines : Seq(LineKinds), entries : Seq(EntryKinds)]
  BY PlansAssumption DEF Init
<1>2. shares \in Seq(SUBSET (1..tasks)) /\ merged \in Seq(Assignments) /\ Assignments = {}
  BY DEF Init, Assignments
<1>3. /\ state \in [Assignments -> {"new", "running", "ready", "raised", "stopped"}]
      /\ row \in [Assignments -> {"absent", "running", "failed", "finished"}]
      /\ work \in [Assignments -> SUBSET Paths]
      /\ announced \in [Assignments -> SUBSET Paths]
  BY <1>2 DEF Init
<1>4. tree \in [Paths -> SUBSET Assignments]
  BY DEF Init
<1>5. TypeOK
  BY <1>1, <1>2, <1>3, <1>4 DEF Init, TypeOK
<1> QED
  BY <1>5 DEF Types, Place, Shared, Init, Working

\* The plan is shared out.
LEMMA SliceFacts ==
  ASSUME Types, SliceTasks
  PROVE  /\ roles' \in Nat \ {0} /\ tasks' \in Nat \ {0}
         /\ shares' \in Seq(SUBSET (1..tasks')) /\ Len(shares') >= 1
         /\ \A t \in 1..tasks' : \E i \in DOMAIN shares' : t \in shares'[i]
<1>1. PICK r \in RoleRequests :
        roles' = RoleCount(r.asked, r.valid, MaxWorkers, DefaultWorkers)
  BY DEF SliceTasks
<1>2. roles' \in Nat \ {0}
  BY <1>1, RoleCountType
<1>3. tasks' \in Nat \ {0}
  <2>1. plan.lines \in Seq(LineKinds) /\ plan.entries \in Seq(EntryKinds)
    BY PlansAssumption DEF SliceTasks, Types, Place
  <2> QED
    BY <2>1, SlicesCount DEF SliceTasks
<1>4. shares' = Shares(tasks', roles')
  BY DEF SliceTasks
<1> QED
  BY <1>2, <1>3, <1>4, SharesType

\* The assignments of a batch are assignments, and a batch is not empty.
LEMMA BatchFacts ==
  ASSUME Types, pc \in {"batch"} \cup Working
  PROVE  /\ BatchEnd \in Nat /\ first <= BatchEnd /\ BatchEnd <= Len(shares)
         /\ Assignments = 1..Len(shares) /\ Batch \subseteq Assignments
         /\ Len(shares) \in Nat /\ Batch = first..BatchEnd
<1>1. first \in Nat \ {0} /\ roles \in Nat /\ roles >= 1 /\ first <= Len(shares)
  BY DEF Types, TypeOK, Place
<1>2. Len(shares) \in Nat /\ Assignments = 1..Len(shares)
  BY LenProperties DEF Types, TypeOK, Assignments
<1> QED
  BY <1>1, <1>2 DEF BatchEnd, Batch, Least

\* The steps of a worker.
LEMMA WorkerTypes ==
  ASSUME Types, NEW i, WorkerStep(i)
  PROVE  Types'
<1>0. i \in Assignments /\ pc = "batch"
  BY BatchFacts DEF WorkerStep, StartWorker, WorkerReady, WorkerRaises
<1>1. CASE StartWorker(i)
  BY <1>0, <1>1 DEF StartWorker, WriteRows, Types, TypeOK, Place, Shared, Working,
       input_vars, git_vars, Assignments
<1>2. CASE WorkerReady(i)
  <2>1. PICK changed \in SUBSET Paths : work' = [work EXCEPT ![i] = changed]
    BY <1>2 DEF WorkerReady, Changes
  <2> QED
    BY <1>0, <1>2, <2>1 DEF WorkerReady, Types, TypeOK, Place, Shared, Working,
         input_vars, git_vars, Assignments
<1>3. CASE WorkerRaises(i)
  <2>1. PICK r \in {"failed", "running"} : row' = [row EXCEPT ![i] = r]
    BY <1>3 DEF WorkerRaises, WriteRows
  <2> QED
    BY <1>0, <1>3, <2>1 DEF WorkerRaises, Types, TypeOK, Place, Shared, Working,
         input_vars, git_vars, Assignments
<1> QED
  BY <1>1, <1>2, <1>3 DEF WorkerStep

\* The steps of the stage outside of a merge.
LEMMA StageTypes ==
  ASSUME Types, SliceTasks \/ Gather \/ RaiseResult \/ NextBatch \/ WrapUp
  PROVE  Types'
<1> USE DEF Types, TypeOK, Place, Shared, Working, input_vars, git_vars, MergeVars
<1>1. CASE SliceTasks
  <2>1. /\ plan' \in [lines : Seq(LineKinds), entries : Seq(EntryKinds)]
        /\ state' \in [Assignments' -> {"new", "running", "ready", "raised", "stopped"}]
        /\ row' \in [Assignments' -> {"absent", "running", "failed", "finished"}]
        /\ work' \in [Assignments' -> SUBSET Paths]
        /\ announced' \in [Assignments' -> SUBSET Paths]
    BY <1>1 DEF SliceTasks, Assignments
  <2>2. Assignments = {} /\ merged' = <<>> /\ pc' = "batch" /\ first' = first /\ next' = next
    BY <1>1 DEF SliceTasks, Assignments
  <2>3. /\ worktrees' = {} /\ branches' = {} /\ history' = {} /\ merging' = 0 /\ reported' = 0
        /\ tree' = tree /\ tree' \in [Paths -> {{}}]
    BY <1>1, <2>2 DEF SliceTasks
  <2>4. tree' \in [Paths -> SUBSET Assignments'] /\ merged' \in Seq(Assignments')
    BY <2>2, <2>3
  <2>5. first = 1
    BY <1>1 DEF SliceTasks
  <2> QED
    BY <1>1, <2>1, <2>2, <2>3, <2>4, <2>5, SliceFacts DEF SliceTasks, Assignments
<1>2. CASE Gather
  <2>1. first <= BatchEnd /\ BatchEnd \in Nat
    BY <1>2, BatchFacts DEF Gather
  <2> QED
    BY <1>2, <2>1 DEF Gather, Assignments, BatchEnd
<1>3. CASE RaiseResult
  BY <1>3 DEF RaiseResult, Assignments
<1>4. CASE NextBatch
  <2>1. BatchEnd \in Nat /\ BatchEnd + 1 \in Nat \ {0} /\ BatchEnd + 1 <= Len(shares)
    BY <1>4, BatchFacts DEF NextBatch
  <2> QED
    BY <1>4, <2>1 DEF NextBatch, Assignments
<1>5. CASE WrapUp
  BY <1>5 DEF WrapUp, Assignments
<1> QED
  BY <1>1, <1>2, <1>3, <1>4, <1>5

\* In a merge the assignment looked at is one, and its worker has come back.
LEMMA LookedAt ==
  ASSUME Types, pc \in Working, next <= BatchEnd
  PROVE  next \in Assignments /\ next \in Nat \ {0} /\ BatchEnd \in Nat
  BY BatchFacts DEF Types, TypeOK, Place, Working

\* The steps of a merge.
LEMMA MergeTypes ==
  ASSUME Types, \/ MergeClean \/ MergeConflict \/ MergeRefused \/ AbortMerge
                \/ ReenterMerge \/ MergeAtLast \/ GiveUp
                \/ KeepOurs \/ NotResolved \/ RemoveWorktree
  PROVE  Types'
<1>0. next \in Assignments /\ next \in Nat \ {0} /\ BatchEnd \in Nat
  BY LookedAt DEF CanMerge, MergeClean, MergeConflict, MergeRefused, AbortMerge, ReenterMerge,
     MergeAtLast, GiveUp, KeepOurs, NotResolved, RemoveWorktree, Types, Place, Working
<1> USE <1>0 DEF Types, TypeOK, Place, Shared, Working, input_vars, git_vars, MergeVars,
                 Assignments
<1>1. CASE MergeClean
  <2>1. tree' \in [Paths -> SUBSET Assignments] /\ history' \subseteq Assignments
    BY <1>1 DEF MergeClean, TakeOver
  <2> QED
    BY <1>1, <2>1 DEF MergeClean, CanMerge, BatchEnd
<1>2. CASE MergeConflict \/ MergeRefused
  <2>1. conflicts' \subseteq Paths
    BY <1>2 DEF MergeConflict, MergeRefused, Overlap
  <2> QED
    BY <1>2, <2>1 DEF MergeConflict, MergeRefused, CanMerge, BatchEnd
<1>3. CASE AbortMerge
  <2>1. pc' \in {"recover", "restart"}
    BY <1>3 DEF AbortMerge
  <2> QED
    BY <1>3, <2>1 DEF AbortMerge, BatchEnd
<1>4. CASE ReenterMerge
  BY <1>4 DEF ReenterMerge, BatchEnd
<1>5. CASE GiveUp
  BY <1>5 DEF GiveUp, AbortUnchecked, BatchEnd
<1>6. CASE KeepOurs
  <2>1. tree' \in [Paths -> SUBSET Assignments] /\ history' \subseteq Assignments
    BY <1>6 DEF KeepOurs, TakeOver
  <2> QED
    BY <1>6, <2>1 DEF KeepOurs, BatchEnd
<1>7. CASE NotResolved
  <2>1. merging' \in Assignments \cup {0} /\ unaborted' \subseteq Assignments
    BY <1>7 DEF NotResolved, AbortUnchecked
  <2>2. CASE strategy = "diff3"
    BY <1>7, <2>1, <2>2 DEF NotResolved, BatchEnd
  <2>3. CASE strategy # "diff3"
    BY <1>7, <2>1, <2>3 DEF NotResolved, BatchEnd
  <2> QED
    BY <2>2, <2>3
<1>8. CASE RemoveWorktree
  <2>1. merged' \in Seq(Assignments)
    BY <1>8 DEF RemoveWorktree
  <2>2. branches' \subseteq Assignments /\ worktrees' \subseteq Assignments
    BY <1>8 DEF RemoveWorktree, KeptBranches
  <2>3. next' = next + 1 /\ next' \in Nat \ {0} /\ next' <= BatchEnd + 1 /\ first <= next'
    BY <1>8 DEF RemoveWorktree
  <2> QED
    BY <1>8, <2>1, <2>2, <2>3 DEF RemoveWorktree, WriteRows, BatchEnd
<1>9. CASE MergeAtLast
  <2>1. TakeOver(next, {}) \/ (tree' = tree /\ history' = history)
    BY <1>9, Zenon DEF MergeAtLast
  <2>2. tree' \in [Paths -> SUBSET Assignments] /\ history' \subseteq Assignments
    <3>1. CASE TakeOver(next, {})
      BY <3>1 DEF TakeOver
    <3> QED
      BY <2>1, <3>1
  <2>3. conflicts' \subseteq Paths /\ merging' \in Assignments \cup {0}
    BY <1>9 DEF MergeAtLast, Overlap
  <2> QED
    BY <1>9, <2>2, <2>3 DEF MergeAtLast, BatchEnd
<1> QED
  BY <1>1, <1>2, <1>3, <1>4, <1>5, <1>6, <1>7, <1>8, <1>9

\* What ends a stage, and the start of the next.
LEMMA EndTypes ==
  ASSUME Types, CancelDevelop \/ GitTimeout \/ InitRepoAgain \/ UNCHANGED vars
  PROVE  Types'
<1> USE DEF Types, TypeOK, Place, Shared, Working, input_vars, git_vars, MergeVars,
            Assignments
<1>1. CASE CancelDevelop
  <2>1. state' \in [Assignments -> {"new", "running", "ready", "raised", "stopped"}]
    BY <1>1 DEF CancelDevelop
  <2> QED
    BY <1>1, <2>1 DEF CancelDevelop, Ended
<1>2. CASE GitTimeout
  BY <1>2 DEF GitTimeout
<1>3. CASE InitRepoAgain
  <2>1. CASE merging = 0
    BY <1>3, <2>1 DEF InitRepoAgain
  <2>2. CASE merging # 0
    BY <1>3, <2>2 DEF InitRepoAgain
  <2> QED
    BY <2>1, <2>2
<1>4. CASE UNCHANGED vars
  BY <1>4 DEF vars, BatchEnd
<1> QED
  BY <1>1, <1>2, <1>3, <1>4

LEMMA StepTypes == Types /\ [Next]_vars => Types'
  BY WorkerTypes, StageTypes, MergeTypes, EndTypes DEF Next, StageStep

\* The types hold in every state.
THEOREM TypeCorrect == Spec => []TypeOK
<1>1. Types => TypeOK
  BY DEF Types
<1> QED
  BY <1>1, InitTypes, StepTypes, PTL DEF Spec

\* The markdown plan is sliced into its tasks, however long it is.
THEOREM SlicesAreRight == Spec => []SlicedRight
<1>1. Types => SlicedRight
  <2> SUFFICES ASSUME Types, pc = "slice", plan.entries = <<>> PROVE SlicedRight
    BY DEF SlicedRight
  <2>1. plan.lines \in Seq(LineKinds)
    BY PlansAssumption DEF Types, Place
  <2> QED
    BY <2>1, SlicesRight DEF SlicedRight
<1> QED
  BY <1>1, InitTypes, StepTypes, PTL DEF Spec

-----------------------------------------------------------------------------
(* Workers, branches, and the merge main is in *)

\* A worker is at work only in the batch that is under way.
RunInv == \A i \in Assignments : state[i] = "running" => pc = "batch" /\ i \in Batch

\* A worker that was started has its branch, until main descends from it.
ReachInv == \A i \in Assignments : state[i] \in {"running", "ready"} => i \in branches \cup history

\* main is in a merge only where the stage is, or was cut off there, or because an abort
\* has failed; and the stage goes on in it with the strategy diff3 only.
MergeInv ==
  /\ pc \notin {"abort", "resolve", "cancelled", "hung"} => merging \in unaborted \cup {0}
  /\ pc \in {"recover", "restart"} => merging = 0
  /\ pc \in {"slice", "batch", "merge", "remove", "passed"} /\ merging # 0 => strategy = "diff3"
  /\ pc = "restart" \/ (pc = "abort" /\ merging # next) => strategy = "diff3"

Settled == Types /\ RunInv /\ ReachInv /\ MergeInv

LEMMA InitSettled == Init => Settled
<1>1. Init => RunInv /\ ReachInv /\ MergeInv
  BY DEF Init, RunInv, ReachInv, MergeInv, Assignments
<1> QED
  BY <1>1, InitTypes DEF Settled

LEMMA WorkerSettled ==
  ASSUME Settled, NEW i, WorkerStep(i)
  PROVE  RunInv' /\ ReachInv' /\ MergeInv'
<1>0. pc = "batch" /\ i \in Batch /\ i \in Assignments /\ shares' = shares
      /\ first' = first /\ roles' = roles /\ pc' = pc /\ merging' = merging
      /\ unaborted' = unaborted /\ strategy' = strategy
      /\ history' = history /\ branches \subseteq branches'
  BY BatchFacts DEF WorkerStep, StartWorker, WorkerReady, WorkerRaises, Settled,
     input_vars, git_vars
<1>1. Assignments' = Assignments /\ Batch' = Batch
  BY <1>0 DEF Assignments, Batch, BatchEnd
<1>2. state \in [Assignments -> {"new", "running", "ready", "raised", "stopped"}]
  BY DEF Settled, Types, TypeOK
<1>3. \/ state' = [state EXCEPT ![i] = "running"] /\ i \in branches'
      \/ state' = [state EXCEPT ![i] = "ready"] /\ state[i] = "running"
      \/ state' = [state EXCEPT ![i] = "raised"]
  BY <1>0 DEF WorkerStep, StartWorker, WorkerReady, WorkerRaises
<1>4. \A j \in Assignments : j # i => state'[j] = state[j]
  BY <1>2, <1>3
<1>5. state'[i] \in {"running", "ready"} => i \in branches' \cup history'
  BY <1>0, <1>2, <1>3 DEF Settled, ReachInv
<1>6. RunInv'
  BY <1>0, <1>1, <1>4 DEF Settled, RunInv
<1>7. ReachInv'
  BY <1>0, <1>1, <1>4, <1>5 DEF Settled, ReachInv
<1> QED
  BY <1>0, <1>6, <1>7 DEF Settled, MergeInv

\* In the steps of a merge no worker is at work, and a branch goes only if main
\* descends from it.
LEMMA MergeSettled ==
  ASSUME Settled, \/ MergeClean \/ MergeConflict \/ MergeRefused \/ AbortMerge
                  \/ ReenterMerge \/ MergeAtLast \/ GiveUp
                  \/ KeepOurs \/ NotResolved \/ RemoveWorktree
  PROVE  RunInv' /\ ReachInv' /\ MergeInv'
<1> USE DEF input_vars, git_vars, MergeVars, TakeOver
<1>1. /\ pc \in Working /\ shares' = shares /\ state' = state
      /\ history \subseteq history' /\ branches \subseteq branches' \cup history'
  <2>1. CASE RemoveWorktree
    BY <2>1 DEF RemoveWorktree, KeptBranches, Working
  <2>2. CASE ~RemoveWorktree
    BY <2>2 DEF CanMerge, MergeClean, MergeConflict, MergeRefused, AbortMerge, ReenterMerge,
         MergeAtLast, GiveUp, KeepOurs, NotResolved, Working
  <2> QED
    BY <2>1, <2>2
<1>2. RunInv'
  BY <1>1 DEF Settled, RunInv, Working, Assignments
<1>3. ReachInv'
  BY <1>1 DEF Settled, ReachInv, Assignments
<1>4. MergeInv'
  <2> USE DEF Settled, MergeInv
  <2>1. CASE MergeClean \/ MergeConflict \/ MergeRefused
    BY <2>1 DEF CanMerge, MergeClean, MergeConflict, MergeRefused
  <2>2. CASE AbortMerge
    BY <2>2 DEF AbortMerge
  <2>3. CASE ReenterMerge \/ MergeAtLast
    BY <2>3 DEF ReenterMerge, MergeAtLast
  <2>4. CASE GiveUp \/ NotResolved
    BY <2>4 DEF GiveUp, NotResolved, AbortUnchecked
  <2>5. CASE KeepOurs \/ RemoveWorktree
    BY <2>5 DEF KeepOurs, RemoveWorktree
  <2> QED
    BY <2>1, <2>2, <2>3, <2>4, <2>5
<1> QED
  BY <1>2, <1>3, <1>4

LEMMA StageSettled ==
  ASSUME Settled, SliceTasks \/ Gather \/ RaiseResult \/ NextBatch \/ WrapUp
  PROVE  RunInv' /\ ReachInv' /\ MergeInv'
<1> USE DEF input_vars, git_vars, MergeVars
<1>1. CASE SliceTasks
  <2>1. \A i \in Assignments' : state'[i] = "new"
    BY <1>1 DEF SliceTasks, Assignments
  <2>2. pc' = "batch" /\ merging' = merging /\ pc = "slice"
        /\ unaborted' = unaborted /\ strategy' = strategy
    BY <1>1 DEF SliceTasks
  <2> QED
    BY <2>1, <2>2 DEF Settled, RunInv, ReachInv, MergeInv
<1>2. CASE Gather
  <2>1. pc = "batch" /\ \A i \in Batch : state[i] # "running"
    BY <1>2 DEF Gather
  <2>2. \A i \in Assignments : state[i] # "running"
    BY <2>1 DEF Settled, RunInv
  <2> QED
    BY <1>2, <2>1, <2>2 DEF Gather, Settled, RunInv, ReachInv, MergeInv, Assignments
<1>3. CASE RaiseResult \/ NextBatch \/ WrapUp
  <2>1. /\ pc = "merge" /\ pc' \in {"batch", "passed", "failed"} /\ merging' = merging
        /\ unaborted' = unaborted /\ strategy' = strategy
        /\ state' = state /\ shares' = shares /\ history' = history /\ branches' = branches
    BY <1>3 DEF RaiseResult, NextBatch, WrapUp
  <2> QED
    BY <2>1 DEF Settled, RunInv, ReachInv, MergeInv, Assignments
<1> QED
  BY <1>1, <1>2, <1>3

LEMMA EndSettled ==
  ASSUME Settled, CancelDevelop \/ GitTimeout \/ InitRepoAgain \/ UNCHANGED vars
  PROVE  RunInv' /\ ReachInv' /\ MergeInv'
<1> USE DEF input_vars, git_vars, MergeVars
<1>0. state \in [Assignments -> {"new", "running", "ready", "raised", "stopped"}]
  BY DEF Settled, Types, TypeOK
<1>1. CASE CancelDevelop
  <2>1. \A i \in DOMAIN state : state'[i] # "running" /\ (state'[i] = "ready" => state[i] = "ready")
    BY <1>1 DEF CancelDevelop
  <2> QED
    BY <1>0, <1>1, <2>1 DEF CancelDevelop, Settled, RunInv, ReachInv, MergeInv, Assignments
<1>2. CASE GitTimeout
  BY <1>2 DEF GitTimeout, Settled, RunInv, ReachInv, MergeInv, Assignments
<1>3. CASE InitRepoAgain
  <2>1. /\ history \subseteq history' /\ merging' = 0 /\ state' = state /\ shares' = shares
        /\ branches' = branches /\ pc # "batch" /\ pc' = "again"
    BY <1>3 DEF InitRepoAgain
  <2> QED
    BY <2>1 DEF Settled, RunInv, ReachInv, MergeInv, Assignments
<1>4. CASE UNCHANGED vars
  BY <1>4 DEF vars, Settled, RunInv, ReachInv, MergeInv, Assignments, Batch, BatchEnd
<1> QED
  BY <1>1, <1>2, <1>3, <1>4

LEMMA StepSettled == Settled /\ [Next]_vars => Settled'
<1>1. Settled /\ [Next]_vars => RunInv' /\ ReachInv' /\ MergeInv'
  BY WorkerSettled, MergeSettled, StageSettled, EndSettled DEF Next, StageStep
<1> QED
  BY <1>1, StepTypes DEF Settled

\* No worker outlives the batch it is in: none sees main change.
THEOREM NoneOutlives == Spec => []NoWorkerOutlives
<1>1. Settled => NoWorkerOutlives
  BY DEF Settled, RunInv, NoWorkerOutlives
<1> QED
  BY <1>1, InitSettled, StepSettled, PTL DEF Spec

\* What a worker has committed can be reached, whatever fails.
THEOREM WorkIsReachable == Spec => []WorkReachable
<1>1. Settled => WorkReachable
  BY DEF Settled, ReachInv, WorkReachable
<1> QED
  BY <1>1, InitSettled, StepSettled, PTL DEF Spec

\* A stage that ends by itself leaves main in a merge only if an abort has failed, and but
\* for diff3 goes on in a settled main only.
THEOREM MainIsSettled == Spec => []MainSettled
<1>1. Settled => MainSettled
  BY DEF Settled, MergeInv, MainSettled
<1> QED
  BY <1>1, InitSettled, StepSettled, PTL DEF Spec

-----------------------------------------------------------------------------
(* What has been merged *)

\* The assignments before this one are finished: those of the batches before, and those
\* of the batch that have been looked at.
Reached == IF pc = "batch" THEN first ELSE next

\* Until the stage ends exactly those that were reached have been merged.
RowInv ==
  pc \in {"slice", "batch"} \cup Working =>
    \A i \in Assignments : row[i] = "finished" <=> i < Reached

\* The changes of branch i are in main, or the event of i names them.
Taken(i) == \A p \in work[i] : i \in tree[p] \/ p \in announced[i]

\* That holds of what is finished, and of the branch that is going to be; the
\* event names what is in conflict.
DropInv ==
  strategy # "diff3" =>
    /\ \A i \in Assignments : row[i] = "finished" => Taken(i) /\ i \in history
    /\ pc = "remove" => Taken(next) /\ next \in history
    /\ pc \in {"recover", "resolve"} => conflicts \subseteq announced[next]

\* A stage that passed has finished every assignment.
PassInv ==
  report = "passed" => pc \in {"passed", "again"} /\ \A i \in Assignments : row[i] = "finished"

Inv == Settled /\ RowInv /\ DropInv /\ PassInv

LEMMA InitInv == Init => Inv
<1>1. Init => RowInv /\ DropInv /\ PassInv
  BY DEF Init, RowInv, DropInv, PassInv, Assignments
<1> QED
  BY <1>1, InitSettled DEF Inv

\* A worker at work is not finished, and none before it changes.
LEMMA WorkerInv ==
  ASSUME Inv, NEW i, WorkerStep(i)
  PROVE  RowInv' /\ DropInv' /\ PassInv'
<1>0. /\ pc = "batch" /\ pc' = pc /\ i \in Batch /\ i \in Assignments /\ shares' = shares
      /\ first' = first /\ strategy' = strategy /\ report' = report /\ tree' = tree
      /\ announced' = announced /\ history' = history
  BY BatchFacts DEF WorkerStep, StartWorker, WorkerReady, WorkerRaises, Inv, Settled,
     input_vars, git_vars
<1>1. Assignments' = Assignments /\ Assignments = 1..Len(shares)
  BY <1>0, BatchFacts DEF Assignments, Inv, Settled
<1>2. first \in Nat /\ i \in Nat /\ i >= first /\ row[i] # "finished"
  BY <1>0, <1>1, BatchFacts DEF Inv, Settled, RowInv, Reached, Types, TypeOK
<1>3. /\ row \in [Assignments -> {"absent", "running", "failed", "finished"}]
      /\ work \in [Assignments -> SUBSET Paths]
  BY DEF Inv, Settled, Types, TypeOK
<1>4. /\ \A j \in Assignments \ {i} : row'[j] = row[j] /\ work'[j] = work[j]
      /\ row'[i] # "finished"
  <2>1. CASE StartWorker(i)
    BY <1>1, <1>2, <1>3, <2>1 DEF StartWorker, WriteRows
  <2>2. CASE WorkerReady(i)
    BY <1>1, <1>2, <1>3, <2>2 DEF WorkerReady
  <2>3. CASE WorkerRaises(i)
    BY <1>1, <1>2, <1>3, <2>3 DEF WorkerRaises, WriteRows
  <2> QED
    BY <2>1, <2>2, <2>3 DEF WorkerStep
<1>5. RowInv'
  BY <1>0, <1>1, <1>2, <1>4 DEF Inv, RowInv, Reached
<1>6. DropInv'
  BY <1>0, <1>1, <1>4 DEF Inv, DropInv, Taken
<1>7. PassInv'
  BY <1>0, <1>1 DEF Inv, PassInv
<1> QED
  BY <1>5, <1>6, <1>7

\* What main gets when it takes over a branch.
LEMMA TakeOverFacts ==
  ASSUME Types, NEW dropped, TakeOver(next, dropped)
  PROVE  /\ \A p \in Paths : tree[p] \subseteq tree'[p]
         /\ \A p \in work[next] \ dropped : p \in Paths => next \in tree'[p]
         /\ history' = history \cup {next}
  BY DEF TakeOver, Types, TypeOK

\* A branch that is going to be removed has been taken over, or is taken for it.
LEMMA MergeInvs ==
  ASSUME Inv, \/ MergeClean \/ MergeConflict \/ MergeRefused \/ AbortMerge
              \/ ReenterMerge \/ MergeAtLast \/ GiveUp \/ KeepOurs \/ NotResolved
  PROVE  RowInv' /\ DropInv' /\ PassInv'
<1> USE DEF input_vars, git_vars, MergeVars
<1>0. next \in Assignments /\ Types
  BY LookedAt DEF CanMerge, MergeClean, MergeConflict, MergeRefused, AbortMerge, ReenterMerge,
     MergeAtLast, GiveUp, KeepOurs, NotResolved, Inv, Settled, Types, Place, Working
<1>1. /\ pc \in Working /\ pc' \in Working \cup {"failed"} /\ shares' = shares /\ row' = row
      /\ next' = next /\ strategy' = strategy /\ work' = work
      /\ report' = report \/ report' = "failed"
  BY DEF CanMerge, MergeClean, MergeConflict, MergeRefused, AbortMerge, ReenterMerge,
     MergeAtLast, GiveUp, KeepOurs, NotResolved, Working
<1>2. RowInv'
  BY <1>1 DEF Inv, RowInv, Reached, Working, Assignments
<1>3. PassInv'
  BY <1>1 DEF Inv, PassInv, Working, Assignments
<1>4. work \in [Assignments -> SUBSET Paths] /\ announced \in [Assignments -> SUBSET Paths]
      /\ Assignments' = Assignments
  BY <1>0, <1>1 DEF Types, TypeOK, Assignments
<1>5. row[next] # "finished"
  BY <1>0, <1>1, BatchFacts DEF Inv, RowInv, Reached, Working, Types, TypeOK
<1>6. CASE MergeClean
  <2>1. TakeOver(next, {}) /\ announced' = announced /\ pc' = "remove"
    BY <1>6 DEF MergeClean
  <2>2. /\ \A p \in Paths : tree[p] \subseteq tree'[p]
        /\ \A p \in work[next] : next \in tree'[p]
        /\ history' = history \cup {next}
    BY <1>0, <1>4, <2>1, TakeOverFacts
  <2> QED
    BY <1>0, <1>1, <1>2, <1>3, <1>4, <2>1, <2>2 DEF Inv, DropInv, Taken
<1>7. CASE MergeConflict \/ MergeRefused \/ ReenterMerge \/ GiveUp \/ NotResolved
  <2>1. /\ tree' = tree /\ history' = history /\ announced' = announced
        /\ strategy # "diff3" => pc' \in {"abort", "resolve", "failed"}
        /\ pc' = "resolve" => pc = "recover" /\ conflicts' = conflicts
    BY <1>7 DEF MergeConflict, MergeRefused, ReenterMerge, GiveUp, NotResolved
  <2> QED
    BY <1>0, <1>1, <1>2, <1>3, <1>4, <2>1 DEF Inv, DropInv, Taken
<1>8. CASE AbortMerge
  <2>1. /\ tree' = tree /\ history' = history /\ conflicts' = conflicts
        /\ pc' \in {"recover", "restart"}
        /\ announced' = [announced EXCEPT ![next] = conflicts]
    BY <1>8 DEF AbortMerge
  <2>2. announced'[next] = conflicts /\ \A j \in Assignments \ {next} : announced'[j] = announced[j]
    BY <1>0, <1>4, <2>1
  <2> QED
    BY <1>0, <1>1, <1>2, <1>3, <1>4, <1>5, <2>1, <2>2 DEF Inv, DropInv, Taken
<1>9. CASE KeepOurs
  <2>1. /\ TakeOver(next, conflicts) /\ announced' = announced /\ pc' = "remove"
        /\ pc = "resolve"
    BY <1>9 DEF KeepOurs
  <2>2. /\ \A p \in Paths : tree[p] \subseteq tree'[p]
        /\ \A p \in work[next] \ conflicts : next \in tree'[p]
        /\ history' = history \cup {next}
    BY <1>0, <1>4, <2>1, TakeOverFacts
  <2>3. strategy # "diff3" => conflicts \subseteq announced[next]
    BY <2>1 DEF Inv, DropInv
  <2> QED
    BY <1>0, <1>1, <1>2, <1>3, <1>4, <2>1, <2>2, <2>3 DEF Inv, DropInv, Taken
<1>10. CASE MergeAtLast
  <2>1. strategy = "diff3"
    BY <1>10 DEF MergeAtLast, Inv, Settled, MergeInv
  <2> QED
    BY <1>1, <1>2, <1>3, <2>1 DEF DropInv
<1> QED
  BY <1>6, <1>7, <1>8, <1>9, <1>10

LEMMA RemoveInv ==
  ASSUME Inv, RemoveWorktree
  PROVE  RowInv' /\ DropInv' /\ PassInv'
<1> USE DEF git_vars, input_vars
<1>0. next \in Assignments /\ Types /\ next \in Nat /\ Assignments = 1..Len(shares)
  BY LookedAt, BatchFacts DEF RemoveWorktree, Inv, Settled, Types, Place, Working
<1>1. /\ pc = "remove" /\ pc' = "merge" /\ next' = next + 1
      /\ row' = [row EXCEPT ![next] = "finished"]
      /\ shares' = shares /\ strategy' = strategy /\ work' = work /\ report' = report
      /\ tree' = tree /\ announced' = announced /\ history' = history
  BY DEF RemoveWorktree, WriteRows
<1>2. row \in [Assignments -> {"absent", "running", "failed", "finished"}]
      /\ Assignments' = Assignments
  BY <1>0, <1>1 DEF Types, TypeOK, Assignments
<1>3. row'[next] = "finished" /\ \A j \in Assignments \ {next} : row'[j] = row[j]
  BY <1>0, <1>1, <1>2
<1>4. RowInv'
  BY <1>0, <1>1, <1>2, <1>3 DEF Inv, RowInv, Reached, Working
<1>5. DropInv'
  BY <1>1, <1>2, <1>3 DEF Inv, DropInv, Taken
<1>6. PassInv'
  BY <1>1 DEF Inv, PassInv
<1> QED
  BY <1>4, <1>5, <1>6

LEMMA StageInv ==
  ASSUME Inv, SliceTasks \/ Gather \/ RaiseResult \/ NextBatch \/ WrapUp
  PROVE  RowInv' /\ DropInv' /\ PassInv'
<1> USE DEF input_vars, git_vars, MergeVars
<1>0. Types
  BY DEF Inv, Settled
<1>1. CASE SliceTasks
  <2>1. /\ \A i \in Assignments' : row'[i] = "absent"
        /\ pc = "slice" /\ pc' = "batch" /\ report' = report /\ first' = 1
    BY <1>0, <1>1 DEF SliceTasks, Assignments, Types, Place
  <2>2. Assignments' = 1..Len(shares')
    BY <1>0, <1>1, SliceFacts, LenProperties DEF Assignments
  <2>3. Len(shares') \in Nat
    BY <1>0, <1>1, SliceFacts, LenProperties
  <2> QED
    BY <2>1, <2>2, <2>3 DEF Inv, RowInv, Reached, DropInv, PassInv
<1>2. CASE Gather \/ NextBatch
  <2>1. /\ pc \in {"batch", "merge"} /\ pc' \in {"batch", "merge"} /\ pc # pc'
        /\ row' = row /\ shares' = shares /\ strategy' = strategy /\ work' = work
        /\ report' = report /\ tree' = tree /\ announced' = announced /\ history' = history
    BY <1>2 DEF Gather, NextBatch
  <2>2. Reached' = Reached
    <3>1. CASE Gather
      BY <3>1 DEF Gather, Reached
    <3>2. CASE NextBatch
      <4>1. next <= BatchEnd + 1 /\ next > BatchEnd /\ BatchEnd \in Nat /\ next \in Nat
        BY <1>0, <3>2, BatchFacts DEF NextBatch, Types, TypeOK, Place, Working
      <4> QED
        BY <3>2, <4>1 DEF NextBatch, Reached
    <3> QED
      BY <1>2, <3>1, <3>2
  <2> QED
    BY <2>1, <2>2 DEF Inv, RowInv, DropInv, PassInv, Taken, Assignments, Working
<1>3. CASE RaiseResult
  BY <1>3 DEF RaiseResult, Inv, RowInv, DropInv, PassInv, Taken, Assignments, Working
<1>4. CASE WrapUp
  <2>1. /\ pc = "merge" /\ pc' \in {"passed", "failed"} /\ row' = row /\ shares' = shares
        /\ strategy' = strategy /\ work' = work /\ tree' = tree /\ announced' = announced
        /\ history' = history /\ report' = pc'
    BY <1>4 DEF WrapUp
  <2>2. next > Len(shares) /\ Len(shares) \in Nat /\ next \in Nat /\ Assignments = 1..Len(shares)
    BY <1>0, <1>4, BatchFacts DEF WrapUp, Working, Types, TypeOK
  <2>3. \A i \in Assignments : row[i] = "finished"
    BY <2>1, <2>2 DEF Inv, RowInv, Reached, Working
  <2> QED
    BY <2>1, <2>3 DEF Inv, RowInv, DropInv, PassInv, Taken, Assignments, Working
<1> QED
  BY <1>1, <1>2, <1>3, <1>4

LEMMA EndInv ==
  ASSUME Inv, CancelDevelop \/ GitTimeout \/ InitRepoAgain \/ UNCHANGED vars
  PROVE  RowInv' /\ DropInv' /\ PassInv'
<1> USE DEF input_vars, git_vars, MergeVars
<1>1. CASE CancelDevelop \/ GitTimeout \/ InitRepoAgain
  <2>1. /\ pc = "passed" => pc' = "again"
        /\ pc # "again" /\ pc' \in {"cancelled", "hung", "again"} /\ row' = row /\ shares' = shares
        /\ strategy' = strategy /\ work' = work /\ tree' = tree /\ announced' = announced
        /\ history \subseteq history' /\ report' = report
    BY <1>1 DEF CancelDevelop, GitTimeout, InitRepoAgain, Ended
  <2> QED
    BY <2>1 DEF Inv, RowInv, DropInv, PassInv, Taken, Assignments, Working
<1>2. CASE UNCHANGED vars
  BY <1>2 DEF vars, Inv, RowInv, Reached, DropInv, PassInv, Taken, Assignments
<1> QED
  BY <1>1, <1>2

LEMMA StepInv == Inv /\ [Next]_vars => Inv'
<1>1. Inv /\ [Next]_vars => RowInv' /\ DropInv' /\ PassInv'
  BY WorkerInv, MergeInvs, RemoveInv, StageInv, EndInv DEF Next, StageStep
<1> QED
  BY <1>1, StepSettled DEF Inv

\* What a finished worker has changed is in main or named as dropped.
THEOREM NothingDroppedUnsaid == Spec => []DroppedAnnounced
<1>1. Inv => DroppedAnnounced
  BY DEF Inv, DropInv, Taken, DroppedAnnounced, NothingDropped
<1> QED
  BY <1>1, InitInv, StepInv, PTL DEF Spec

\* A stage that passed has done every task, and main descends from all of the work.
THEOREM PassedIsWhole == Spec => []PassedWhole
<1>1. Inv => PassedWhole
  BY DEF Inv, Settled, Types, Shared, PassInv, DropInv, PassedWhole
<1> QED
  BY <1>1, InitInv, StepInv, PTL DEF Spec
-----------------------------------------------------------------------------
(* The stage is finite.  What WF_vars(Progress) adds is only that the      *)
(* steps are taken.                                                        *)

\* What the workers have still to do: to be started, and to come back.
Unstarted == {i \in Assignments : state[i] = "new"}
Unanswered == {i \in Assignments : state[i] \in {"new", "running"}}
WorkLeft == Cardinality(Unstarted) + Cardinality(Unanswered)

\* What the stage has still to do at a place of a batch that begins with assignment f,
\* looking at k of n: five steps for a branch with a conflict, two for a batch, of
\* which there are no more than branches.
Way(at, f, k, n) ==
  CASE at = "batch" -> 7 * (n - f + 1) + 2
    [] at = "merge" -> 7 * (n - k + 1) + (IF k > f THEN 3 ELSE 1)
    [] at = "abort" -> 7 * (n - k + 1)
    [] at \in {"recover", "restart"} -> 7 * (n - k + 1) - 1
    [] at = "resolve" -> 7 * (n - k + 1) - 2
    [] OTHER -> 7 * (n - k + 1) - 3

StepsLeft == IF Ended THEN 0 ELSE WorkLeft + Way(pc, first, next, Len(shares))
MostSteps == 9 * Len(shares) + 2

LEMMA WorkCount ==
  ASSUME Types
  PROVE  /\ WorkLeft \in Nat /\ WorkLeft <= 2 * Len(shares) /\ Len(shares) \in Nat
         /\ IsFiniteSet(Unstarted) /\ IsFiniteSet(Unanswered)
         /\ Cardinality(Unstarted) \in Nat /\ Cardinality(Unanswered) \in Nat
<1>1. PICK n \in Nat : n = Len(shares) /\ Assignments = 1 .. n
  BY LenProperties DEF Types, TypeOK, Assignments
<1>2. IsFiniteSet(1 .. n) /\ Cardinality(1 .. n) = n
  BY FS_Interval
<1>3. Unstarted \subseteq 1 .. n /\ Unanswered \subseteq 1 .. n
  BY <1>1 DEF Unstarted, Unanswered
<1>4. /\ IsFiniteSet(Unstarted) /\ Cardinality(Unstarted) <= n
      /\ IsFiniteSet(Unanswered) /\ Cardinality(Unanswered) <= n
  <2>1. \A S : S \subseteq 1 .. n => IsFiniteSet(S) /\ Cardinality(S) <= Cardinality(1 .. n)
    BY <1>2, FS_Subset, Zenon
  <2> QED
    BY <1>2, <1>3, <2>1
<1>5. Cardinality(Unstarted) \in Nat /\ Cardinality(Unanswered) \in Nat
  BY <1>4, FS_CardinalityType
<1> QED
  BY <1>1, <1>4, <1>5 DEF WorkLeft

\* Each step of a worker is one less.
LEMMA WorkStep ==
  ASSUME Types, NEW i, WorkerStep(i)
  PROVE  WorkLeft' < WorkLeft
<1>1. i \in Assignments /\ pc = "batch" /\ shares' = shares
  BY BatchFacts DEF WorkerStep, StartWorker, WorkerReady, WorkerRaises, input_vars
<1>2. state \in [Assignments -> {"new", "running", "ready", "raised", "stopped"}]
  BY DEF Types, TypeOK
<1>3. PICK s, u \in Nat : s = Cardinality(Unstarted) /\ u = Cardinality(Unanswered)
  BY WorkCount
<1>4. /\ IsFiniteSet(Unstarted) /\ IsFiniteSet(Unanswered)
  BY WorkCount
<1>5. /\ Cardinality(Unstarted \ {i}) = IF i \in Unstarted THEN s - 1 ELSE s
      /\ Cardinality(Unanswered \ {i}) = IF i \in Unanswered THEN u - 1 ELSE u
  BY <1>3, <1>4, FS_RemoveElement
<1>6. CASE StartWorker(i)
  <2>1. /\ state[i] = "new"
        /\ state' = [state EXCEPT ![i] = "running"] \/ state' = [state EXCEPT ![i] = "raised"]
    BY <1>6 DEF StartWorker
  <2>2. i \in Unstarted /\ Unstarted' = Unstarted \ {i}
    BY <1>1, <1>2, <2>1 DEF Unstarted, Assignments
  <2>3. i \in Unanswered /\ (Unanswered' = Unanswered \/ Unanswered' = Unanswered \ {i})
    BY <1>1, <1>2, <2>1 DEF Unanswered, Assignments
  <2>4. Cardinality(Unstarted') = s - 1 /\ Cardinality(Unanswered') \in {u - 1, u}
    BY <1>3, <1>5, <2>2, <2>3
  <2> QED
    BY <1>3, <2>4 DEF WorkLeft
<1>7. CASE WorkerReady(i) \/ WorkerRaises(i)
  <2>1. /\ state[i] = "running"
        /\ state' = [state EXCEPT ![i] = "ready"] \/ state' = [state EXCEPT ![i] = "raised"]
    BY <1>7 DEF WorkerReady, WorkerRaises
  <2>2. Unstarted' = Unstarted
    BY <1>1, <1>2, <2>1 DEF Unstarted, Assignments
  <2>3. i \in Unanswered /\ Unanswered' = Unanswered \ {i}
    BY <1>1, <1>2, <2>1 DEF Unanswered, Assignments
  <2> QED
    BY <1>3, <1>5, <2>2, <2>3 DEF WorkLeft
<1> QED
  BY <1>6, <1>7 DEF WorkerStep

\* Where the stage stands, as numbers.
LEMMA PlaceFacts ==
  ASSUME Types, pc # "slice", ~Ended
  PROVE  /\ pc \in {"batch"} \cup Working
         /\ first \in Nat \ {0} /\ next \in Nat \ {0} /\ Len(shares) \in Nat
         /\ first <= BatchEnd /\ BatchEnd \in Nat /\ BatchEnd <= Len(shares)
         /\ pc \in Working => first <= next /\ next <= BatchEnd + 1
         /\ pc \in Working \ {"merge"} => next <= BatchEnd
<1>1. pc \in {"batch"} \cup Working
  BY DEF Types, TypeOK, Ended, Working
<1> QED
  BY <1>1, BatchFacts DEF Types, TypeOK, Place

LEMMA StepsBounded ==
  Types /\ pc # "slice" => StepsLeft \in 0 .. MostSteps /\ (StepsLeft = 0 <=> Ended)
<1> SUFFICES ASSUME Types, pc # "slice"
             PROVE  StepsLeft \in 0 .. MostSteps /\ (StepsLeft = 0 <=> Ended)
  OBVIOUS
<1>1. PICK w \in Nat, n \in Nat : w = WorkLeft /\ n = Len(shares) /\ w <= 2 * n
  BY WorkCount
<1>2. CASE Ended
  BY <1>1, <1>2 DEF StepsLeft, MostSteps
<1>3. CASE ~Ended
  <2>1. PICK f \in Nat \ {0}, k \in Nat \ {0} : f = first /\ k = next
    BY <1>3, PlaceFacts
  <2>2. PICK at \in {"batch"} \cup Working : at = pc
    BY <1>3, PlaceFacts
  <2>3. f <= n /\ (at # "batch" => f <= k /\ k <= n + 1) /\ (at \notin {"batch", "merge"} => k <= n)
    BY <1>1, <1>3, <2>1, <2>2, PlaceFacts DEF Working
  <2>4. Way(at, f, k, n) \in 1 .. 7 * n + 2
    BY <2>3 DEF Way, Working
  <2>5. StepsLeft = w + Way(at, f, k, n)
    BY <1>1, <1>3, <2>1, <2>2 DEF StepsLeft
  <2> QED
    BY <1>1, <1>3, <2>4, <2>5 DEF MostSteps
<1> QED
  BY <1>2, <1>3

\* A step to a place that is less far counts.
LEMMA Counts ==
  ASSUME ~Ended, pc' \in {"batch"} \cup Working, shares' = shares, WorkLeft' = WorkLeft,
         WorkLeft \in Nat, NEW p \in Int, NEW q \in Int,
         p = Way(pc, first, next, Len(shares)), q = Way(pc, first, next, Len(shares))', q < p
  PROVE  StepsLeft' < StepsLeft
BY DEF StepsLeft, Ended, Working

LEMMA NextWork == (Types => WorkLeft \in Int)'
<1>1. Types => WorkLeft \in Int
  BY WorkCount
<1> QED
  BY <1>1, PTL

LEMMA NextBounded == (Types /\ pc # "slice" => StepsLeft \in Int)'
<1>1. Types /\ pc # "slice" => StepsLeft \in Int
  BY WorkCount, StepsBounded DEF MostSteps
<1> QED
  BY <1>1, PTL

\* What has been shared out stays so.
LEMMA StaysShared == ASSUME [Next]_vars, pc # "slice" PROVE pc' # "slice"
BY DEF Next, StageStep, WorkerStep, StartWorker, WorkerReady, WorkerRaises, Gather, RaiseResult,
   NextBatch, WrapUp, MergeClean, MergeConflict, MergeRefused, AbortMerge, ReenterMerge, MergeAtLast,
   GiveUp, KeepOurs, CanMerge, NotResolved, RemoveWorktree, SliceTasks, CancelDevelop, GitTimeout, InitRepoAgain, vars

LEMMA StepCounts == ASSUME Types, pc # "slice", Progress PROVE StepsLeft' < StepsLeft
<1>1. PICK w \in Nat, n \in Nat : w = WorkLeft /\ n = Len(shares)
  BY WorkCount
<1>2. ~Ended
  BY DEF Progress, StageStep, WorkerStep, StartWorker, WorkerReady, WorkerRaises, Gather, RaiseResult,
     NextBatch, WrapUp, MergeClean, MergeConflict, MergeRefused, AbortMerge, ReenterMerge,
     MergeAtLast, GiveUp, KeepOurs, CanMerge, NotResolved, RemoveWorktree, SliceTasks, Ended
<1>3. PICK f \in Nat \ {0}, k \in Nat \ {0} : f = first /\ k = next
  BY <1>2, PlaceFacts
<1>4. /\ pc \in {"batch"} \cup Working /\ f <= n
      /\ pc \in Working => f <= k /\ k <= BatchEnd + 1
      /\ pc \in Working \ {"merge"} => k <= BatchEnd
      /\ f <= BatchEnd /\ BatchEnd \in Nat /\ BatchEnd <= n
  BY <1>1, <1>2, <1>3, PlaceFacts
<1>5. ASSUME NEW i \in Assignments, WorkerStep(i) PROVE StepsLeft' < StepsLeft
  <2>1. pc = "batch" /\ pc' = pc /\ UNCHANGED <<first, next, shares>>
    BY <1>5 DEF WorkerStep, StartWorker, WorkerReady, WorkerRaises, input_vars
  <2>2. WorkLeft' < WorkLeft
    BY <1>5, WorkStep
  <2>3. WorkLeft' \in Int
    <3>1. Types'
      BY <1>5, WorkerTypes
    <3> QED
      BY <3>1, NextWork
  <2>4. PICK p \in Int : p = Way("batch", f, k, n)
    BY DEF Way
  <2>5. PICK v \in Int : v = WorkLeft' /\ v < w
    BY <1>1, <2>2, <2>3
  <2>6. StepsLeft = w + p /\ StepsLeft' = v + p
    BY <1>1, <1>2, <1>3, <2>1, <2>4, <2>5 DEF StepsLeft, Ended
  <2> QED
    BY <1>1, <2>4, <2>5, <2>6
<1>6. CASE Gather
  <2>1. pc = "batch" /\ pc' = "merge" /\ next' = f /\ UNCHANGED <<first, shares, state>>
    BY <1>3, <1>6 DEF Gather, input_vars
  <2>2. WorkLeft' = WorkLeft
    BY <2>1 DEF WorkLeft, Unstarted, Unanswered, Assignments
  <2>3. Way("merge", f, f, n) < Way("batch", f, k, n)
    BY DEF Way
  <2>4. Way("merge", f, f, n) \in Int /\ Way("batch", f, k, n) \in Int
    BY DEF Way
  <2> QED
    BY <1>1, <1>2, <1>3, <2>1, <2>2, <2>3, <2>4, Counts DEF Working
<1>7. CASE RaiseResult \/ WrapUp \/ GiveUp \/ (NotResolved /\ pc' = "failed")
  <2>1. Ended'
    BY <1>7 DEF RaiseResult, WrapUp, GiveUp, Ended
  <2>2. StepsLeft' = 0
    BY <2>1 DEF StepsLeft
  <2>3. StepsLeft \in 0 .. MostSteps /\ StepsLeft # 0 /\ MostSteps \in Int
    BY <1>1, <1>2, StepsBounded DEF MostSteps
  <2> QED
    BY <2>2, <2>3
<1>8. CASE NextBatch
  <2>1. /\ pc = "merge" /\ pc' = "batch" /\ UNCHANGED <<next, shares, state>>
        /\ k > BatchEnd /\ first' = BatchEnd + 1
    BY <1>3, <1>8 DEF NextBatch, input_vars
  <2>2. k > f /\ first' = k
    BY <1>3, <1>4, <2>1 DEF Working
  <2>3. WorkLeft' = WorkLeft
    BY <2>1 DEF WorkLeft, Unstarted, Unanswered, Assignments
  <2>4. Way("batch", k, k, n) < Way("merge", f, k, n)
    BY <2>2 DEF Way
  <2>5. Way("batch", k, k, n) \in Int /\ Way("merge", f, k, n) \in Int
    BY DEF Way
  <2> QED
    BY <1>1, <1>2, <1>3, <2>1, <2>2, <2>3, <2>4, <2>5, Counts DEF Working
<1>9. ASSUME NEW at, NEW to,
             \/ at = "merge" /\ to \in {"abort", "remove"}
             \/ at = "abort" /\ to \in {"recover", "restart"}
             \/ at \in {"recover", "restart"} /\ to = "resolve"
             \/ at = "resolve" /\ to = "remove",
             pc = at, pc' = to, UNCHANGED <<first, next, shares, state>>
      PROVE  StepsLeft' < StepsLeft
  <2>1. WorkLeft' = WorkLeft
    BY <1>9 DEF WorkLeft, Unstarted, Unanswered, Assignments
  <2>2. Way(to, f, k, n) < Way(at, f, k, n)
    BY <1>9 DEF Way
  <2>3. Way(to, f, k, n) \in Int /\ Way(at, f, k, n) \in Int
    BY DEF Way
  <2> QED
    BY <1>1, <1>2, <1>3, <1>9, <2>1, <2>2, <2>3, Counts DEF Working
<1>10. CASE \/ MergeClean \/ MergeConflict \/ MergeRefused \/ AbortMerge \/ ReenterMerge
            \/ MergeAtLast \/ KeepOurs \/ (NotResolved /\ pc' # "failed")
  BY <1>9, <1>10 DEF CanMerge, MergeClean, MergeConflict, MergeRefused, AbortMerge, ReenterMerge,
     MergeAtLast, KeepOurs, NotResolved, MergeVars, input_vars
<1>11. CASE RemoveWorktree
  <2>1. pc = "remove" /\ pc' = "merge" /\ next' = k + 1 /\ UNCHANGED <<first, shares, state>>
    BY <1>3, <1>11 DEF RemoveWorktree, input_vars
  <2>2. WorkLeft' = WorkLeft
    BY <2>1 DEF WorkLeft, Unstarted, Unanswered, Assignments
  <2>3. Way("merge", f, k + 1, n) < Way("remove", f, k, n)
    BY DEF Way
  <2>4. Way("merge", f, k + 1, n) \in Int /\ Way("remove", f, k, n) \in Int
    BY DEF Way
  <2> QED
    BY <1>1, <1>2, <1>3, <2>1, <2>2, <2>3, <2>4, Counts DEF Working
<1> QED
  BY <1>5, <1>6, <1>7, <1>8, <1>10, <1>11 DEF Progress, StageStep, SliceTasks

\* Once the plan is shared out the stage comes to its end after at most MostSteps steps
\* of its own and of its workers, in whatever order these come back or fail, and
\* whatever git does in a merge: each of their steps leaves it fewer, and nothing gives
\* it more.
THEOREM StageIsFinite ==
  Spec => /\ [](pc # "slice" =>
                  StepsLeft \in 0 .. MostSteps /\ (StepsLeft = 0 <=> Ended))
          /\ [][pc # "slice" => /\ Progress => StepsLeft' < StepsLeft
                                /\ StepsLeft' <= StepsLeft]_vars
<1>1. Types /\ [Next]_vars =>
        [pc # "slice" => /\ Progress => StepsLeft' < StepsLeft
                         /\ StepsLeft' <= StepsLeft]_vars
  <2> SUFFICES ASSUME Types, [Next]_vars, pc # "slice"
               PROVE  /\ Progress => StepsLeft' < StepsLeft
                      /\ StepsLeft' <= StepsLeft
    OBVIOUS
  <2>1. StepsLeft \in Nat /\ StepsLeft' \in Int
    <3>1. Types' /\ (pc' # "slice")
      BY StepTypes, StaysShared
    <3> QED
      BY <3>1, NextBounded, WorkCount, StepsBounded DEF MostSteps
  <2>2. CASE Progress
    BY <2>1, <2>2, StepCounts
  <2>3. CASE CancelDevelop \/ GitTimeout \/ InitRepoAgain
    <3>1. StepsLeft' = 0
      BY <2>3 DEF CancelDevelop, GitTimeout, InitRepoAgain, StepsLeft, Ended
    <3>2. ~Progress \/ StepsLeft # 0
      BY <2>1, StepCounts, <3>1
    <3> QED
      BY <2>1, <2>2, <3>1
  <2>4. CASE UNCHANGED vars
    BY <2>1, <2>2, <2>4 DEF vars, git_vars, StepsLeft, Ended, WorkLeft, Unstarted, Unanswered,
       Assignments
  <2> QED
    BY <2>2, <2>3, <2>4 DEF Next, Progress
<1>2. Types => (pc # "slice" => StepsLeft \in 0 .. MostSteps /\ (StepsLeft = 0 <=> Ended))
  BY StepsBounded
<1> QED
  BY <1>1, <1>2, InitTypes, StepTypes, PTL DEF Spec
=============================================================================
