----------------------------- MODULE PlanTasks -----------------------------
(***************************************************************************)
(* How the develop stage turns a plan into the shares of its workers       *)
(* (core/nexussy/pipeline/stages/develop.py): the task list of the JSON    *)
(* sidecar when it can be used, the bullets of the markdown plan when not, *)
(* one task for the whole plan when there is neither; the roles that are   *)
(* asked for; and which tasks each worker is given.                        *)
(*                                                                         *)
(* A line of the plan is its kind: a marker or a heading that opens or     *)
(* closes a section of tasks, a bullet at the margin with or without an id *)
(* of its own, an indented bullet that lists files or says anything else,  *)
(* an empty line, other text.  An entry of the sidecar is complete, has    *)
(* parts missing that are repaired, or is not an object.                   *)
(***************************************************************************)
EXTENDS Naturals, Sequences, FiniteSets

Opening == {"start marker", "task heading"}
Closing == {"end marker", "other heading"}
Bullets == {"bullet", "named bullet"}
Nested == {"files", "note"}
LineKinds == Opening \cup Closing \cup Bullets \cup Nested \cup {"empty", "text"}
EntryKinds == {"complete", "partial", "not an object"}

\* The id a named bullet has in this model; other tasks are numbered.
OwnId == 2

\* A task spec: its id and what files_allowed holds.
Task(id, files) == [id |-> id, files |-> files]
Fallback == <<Task(1, "any")>>

-----------------------------------------------------------------------------
(* The slices *)

\* Mutant: an empty line ends the search for nested bullets.
ReadLineNoGaps(read, line) ==
  LET n == Len(read.tasks) IN
    CASE line \in Opening -> [read EXCEPT !.section = TRUE, !.nested = FALSE]
      [] line \in Closing -> [read EXCEPT !.section = FALSE, !.nested = FALSE]
      [] line \in Bullets /\ read.section ->
           [section |-> TRUE, nested |-> TRUE,
            tasks |-> Append(read.tasks,
                             Task(IF line = "named bullet" THEN OwnId ELSE n + 1, "any"))]
      [] line = "files" /\ read.nested -> [read EXCEPT !.tasks[n].files = "listed"]
      [] line = "note" -> read
      [] OTHER -> [read EXCEPT !.nested = FALSE]

\* One line more.  read: whether the line is in a section of tasks, whether
\* nested bullets belong to the last task, the tasks so far.
ReadLine(read, line) ==
  LET n == Len(read.tasks) IN
    CASE line \in Opening -> [read EXCEPT !.section = TRUE, !.nested = FALSE]
      [] line \in Closing -> [read EXCEPT !.section = FALSE, !.nested = FALSE]
      [] line \in Bullets /\ read.section ->
           [section |-> TRUE, nested |-> TRUE,
            tasks |-> Append(read.tasks,
                             Task(IF line = "named bullet" THEN OwnId ELSE n + 1, "any"))]
      [] line = "files" /\ read.nested -> [read EXCEPT !.tasks[n].files = "listed"]
      [] line \in {"note", "empty"} -> read
      [] OTHER -> [read EXCEPT !.nested = FALSE]

\* Reading(lines)[k]: what has been read when k lines have been.
Reading(lines) ==
  LET read[k \in 0..Len(lines)] ==
        IF k = 0 THEN [section |-> FALSE, nested |-> FALSE, tasks |-> <<>>]
        ELSE ReadLine(read[k - 1], lines[k])
  IN  read

MarkdownTasks(lines) == Reading(lines)[Len(lines)].tasks

\* The entries of the sidecar, repaired; none if one of them is not an object.
SidecarTasks(entries) ==
  IF \E i \in DOMAIN entries : entries[i] = "not an object" THEN <<>>
  ELSE [i \in DOMAIN entries |->
          Task(i, IF entries[i] = "complete" THEN "listed" ELSE "any")]

SlicedTasks(lines, entries) ==
  CASE SidecarTasks(entries) # <<>> -> SidecarTasks(entries)
    [] MarkdownTasks(lines) # <<>> -> MarkdownTasks(lines)
    [] OTHER -> Fallback

-----------------------------------------------------------------------------
(* Roles and shares *)

Least(a, b) == IF a < b THEN a ELSE b
Most(a, b) == IF a < b THEN b ELSE a

\* How many roles a run has that asks for `valid` known roles by name, or for none
\* by name (asked = FALSE): then backend and frontend are meant.
RoleCount(asked, valid, maxWorkers, defaultCount) ==
  LET known == IF asked THEN valid ELSE 2
      limit == Most(1, Least(maxWorkers, IF asked THEN valid ELSE defaultCount))
  IN  Most(1, Least(known, limit))

\* Mutant: one worker per task, even if it is the only one.
SharesOneEach(n, roles) == [i \in 1..Most(1, Least(n, roles)) |-> {i}]

\* Which tasks, of n, each assignment is given: all of them when there is one role,
\* else one each, and the first ones again when there are more roles than tasks.
Shares(n, roles) ==
  IF roles = 1 /\ n > 1 THEN <<1..n>>
  ELSE [i \in 1..Most(n, roles) |-> {((i - 1) % n) + 1}]

-----------------------------------------------------------------------------
(* What the slices ought to be *)

InSection(lines, k) ==
  \E i \in 1..(k - 1) :
    lines[i] \in Opening /\ \A j \in (i + 1)..(k - 1) : lines[j] \notin Closing

\* The lines that are tasks, and the place of the task at line k among them.
TaskLines(lines) == {k \in DOMAIN lines : lines[k] \in Bullets /\ InSection(lines, k)}
TaskPlace(lines, k) == Cardinality({j \in TaskLines(lines) : j <= k})

\* A bullet at line k has a list of files under it, with nothing in between that
\* is not part of it.
HasFiles(lines, k) ==
  \E j \in (k + 1)..Len(lines) :
    /\ lines[j] = "files"
    /\ \A m \in (k + 1)..j : lines[m] \in Nested \cup {"empty"}

\* The tasks are those of the plan: as many, in order, each with its id and files.
TasksOf(lines, specs) ==
  /\ specs \in Seq([id : Nat, files : {"any", "listed"}])
  /\ Len(specs) = Cardinality(TaskLines(lines))
  /\ \A k \in TaskLines(lines) :
       specs[TaskPlace(lines, k)] =
         Task(IF lines[k] = "named bullet" THEN OwnId ELSE TaskPlace(lines, k),
              IF HasFiles(lines, k) THEN "listed" ELSE "any")
=============================================================================
