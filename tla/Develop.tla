------------------------------ MODULE Develop ------------------------------
(***************************************************************************)
(* The develop stage (core/nexussy/pipeline/stages/develop.py, with        *)
(* core/nexussy/swarm/gitops.py): the plan is sliced (PlanTasks), the      *)
(* tasks are worked on in batches of one worker per role, each worker in a *)
(* git worktree and on a branch of its own, and when a whole batch has     *)
(* come back its branches are merged into main, one after the other.       *)
(*                                                                         *)
(* What a worker does to the files is a set of paths it has changed.  All  *)
(* branches of a stage start at the commit main had when the stage began,  *)
(* so a branch can conflict on a path that another one has changed since;  *)
(* whether it does is git's choice.  How a worker is run, paused and       *)
(* stopped is in WorkerRun; here it comes back with changes or does not.   *)
(***************************************************************************)
EXTENDS Naturals, Sequences, FiniteSets, PlanTasks

CONSTANTS
  Plans,       \* records [lines, entries]: the devplan.md a stage may find, as kinds
               \* of lines, and the devplan_tasks.json, as kinds of entries
  RoleRequests,\* records [asked, valid]: the worker_roles of the request
  MaxWorkers, DefaultWorkers,  \* swarm.max_workers, swarm.default_worker_count
  Strategies,  \* values swarm.conflict_strategy may have
  Paths        \* paths of the project

ASSUME PlansAssumption ==
  /\ Plans \subseteq [lines : Seq(LineKinds), entries : Seq(EntryKinds)]
  /\ \A r \in RoleRequests : r.asked \in BOOLEAN /\ r.valid \in Nat
ASSUME SwarmAssumption ==
  /\ MaxWorkers \in Nat \ {0} /\ DefaultWorkers \in Nat \ {0}
  /\ Strategies \subseteq {"ours", "diff3", "abort"}

VARIABLES
  plan,       \* the plan, until it has been sliced
  strategy,   \* swarm.conflict_strategy
  roles,      \* number of roles, and so of workers in a batch
  tasks,      \* number of sliced tasks
  shares,     \* shares[i]: the tasks assignment i is given
  pc,         \* where merge_workers stands
  first,      \* the first assignment of the batch
  next,       \* the assignment whose result is looked at
  state,      \* state[i]: new, running, ready, raised or stopped
  row,        \* row[i]: status of the worker's row; its task's row follows it
  work,       \* work[i]: paths the commit on branch i changes
  worktrees, branches,  \* the assignments that have theirs
  tree,       \* tree[p]: the assignments whose changes of p are in main
  history,    \* the assignments whose commit is an ancestor of main's
  merging,    \* the branch main is in the middle of merging, 0 if none
  unaborted,  \* the branches main was left with because git merge --abort failed (a
              \* history: no action reads it)
  conflicts,  \* the paths git found in conflict
  announced,  \* announced[i]: paths of the merge_conflict event of i
  reported,   \* the assignment conflict_report.json is about, 0 if none
  merged,     \* assignments that have been merged, in order
  report,     \* develop_report.json: none, passed or failed
  markers     \* paths committed with the marks of a conflict in them

git_vars == <<tree, history, merging, unaborted, conflicts, announced, reported, markers>>
input_vars == <<plan, strategy, roles, tasks, shares>>
vars == <<plan, strategy, roles, tasks, shares, pc, first, next, state, row, work,
          worktrees, branches, merged, report, git_vars>>

Assignments == DOMAIN shares
BatchEnd == Least(first + roles - 1, Len(shares))
Batch == first..BatchEnd

Init ==
  /\ plan \in Plans /\ strategy \in Strategies
  /\ pc = "slice"
  /\ roles = 0 /\ tasks = 0 /\ shares = <<>> /\ first = 1 /\ next = 1
  /\ state = <<>> /\ row = <<>> /\ work = <<>> /\ announced = <<>>
  /\ worktrees = {} /\ branches = {} /\ history = {} /\ markers = {}
  /\ tree = [p \in Paths |-> {}]
  /\ merging = 0 /\ unaborted = {} /\ conflicts = {} /\ reported = 0
  /\ merged = <<>> /\ report = "none"

-----------------------------------------------------------------------------
(* Slicing, and the workers *)

\* spawn_workers: init_repo commits what it finds, the roles are chosen.  Then the
\* plan is read and shared out.
SliceTasks ==
  /\ pc = "slice" /\ pc' = "batch"
  /\ \E r \in RoleRequests :
       roles' = RoleCount(r.asked, r.valid, MaxWorkers, DefaultWorkers)
  /\ tasks' = Len(SlicedTasks(plan.lines, plan.entries))
  /\ shares' = Shares(tasks', roles')
  /\ plan' = [lines |-> <<>>, entries |-> <<>>]
  /\ state' = [i \in DOMAIN shares' |-> "new"]
  /\ row' = [i \in DOMAIN shares' |-> "absent"]
  /\ work' = [i \in DOMAIN shares' |-> {}]
  /\ announced' = [i \in DOMAIN shares' |-> {}]
  /\ UNCHANGED <<strategy, first, next, worktrees, branches, merged, report,
                 tree, history, merging, unaborted, conflicts, reported, markers>>

\* _persist_worker and _persist_worker_task write the two rows of a worker.
WriteRows(i, status) == row' = [row EXCEPT ![i] = status]

\* run_single_worker makes the worktree, one worker at a time (engine.git_lock),
\* and writes the rows of the worker and its task; or git refuses.
StartWorker(i) ==
  /\ pc = "batch" /\ i \in Batch /\ state[i] = "new"
  /\ \/ /\ state' = [state EXCEPT ![i] = "running"]
        /\ WriteRows(i, "running")
        /\ worktrees' = worktrees \cup {i}
        /\ branches' = branches \cup {i}
     \/ /\ state' = [state EXCEPT ![i] = "raised"]
        /\ UNCHANGED <<row, worktrees, branches>>
  /\ UNCHANGED <<input_vars, pc, first, next, work, merged, report, git_vars>>

\* What commit_worker may commit: the whole worktree, with one path changed at least.
Changes == SUBSET Paths \ {{}}

\* The worker answered, git status names changes, and they are committed.
WorkerReady(i) ==
  /\ pc = "batch" /\ i \in Batch /\ state[i] = "running"
  /\ state' = [state EXCEPT ![i] = "ready"]
  /\ \E changed \in Changes : work' = [work EXCEPT ![i] = changed]
  /\ UNCHANGED <<input_vars, pc, first, next, row, worktrees, branches, merged, report,
                 git_vars>>

\* It answered with an error, or changed nothing: _fail_worker_task writes the rows.
\* Or it did not answer, or git failed: nobody writes them.
WorkerRaises(i) ==
  /\ pc = "batch" /\ i \in Batch /\ state[i] = "running"
  /\ state' = [state EXCEPT ![i] = "raised"]
  /\ \E r \in {"failed", "running"} : WriteRows(i, r)
  /\ UNCHANGED <<input_vars, pc, first, next, work, worktrees, branches, merged, report,
                 git_vars>>

\* Mutant: gather without return_exceptions: the first exception ends the wait.
GatherFirst ==
  /\ pc = "batch"
  /\ \/ \A i \in Batch : state[i] \in {"ready", "raised"}
     \/ \E i \in Batch : state[i] = "raised"
  /\ pc' = "merge" /\ next' = first
  /\ UNCHANGED <<input_vars, first, state, row, work, worktrees, branches, merged, report,
                 git_vars>>

\* Mutant: the stage waits for workers that are ready.
GatherReady ==
  /\ pc = "batch"
  /\ \A i \in Batch : state[i] = "ready"
  /\ pc' = "merge" /\ next' = first
  /\ UNCHANGED <<input_vars, first, state, row, work, worktrees, branches, merged, report,
                 git_vars>>

\* gather waits for every worker of the batch, those that raise included.
Gather ==
  /\ pc = "batch"
  /\ \A i \in Batch : state[i] \in {"ready", "raised"}
  /\ pc' = "merge" /\ next' = first
  /\ UNCHANGED <<input_vars, first, state, row, work, worktrees, branches, merged, report,
                 git_vars>>

\* The next result is an exception: it is raised, and the rest is not looked at.
RaiseResult ==
  /\ pc = "merge" /\ next <= BatchEnd /\ state[next] = "raised"
  /\ pc' = "failed"
  /\ UNCHANGED <<input_vars, first, next, state, row, work, worktrees, branches, merged,
                 report, git_vars>>

-----------------------------------------------------------------------------
(* Merging one branch *)

MergeVars == <<input_vars, first, next, state, row, work, worktrees, branches, merged>>

\* Paths of branch i that main has got from other branches since they all began.
Overlap(i) == {p \in work[i] : tree[p] # {}}

\* main takes over branch i, except for its version of the paths in `dropped`.
TakeOver(i, dropped) ==
  /\ tree' = [p \in Paths |-> IF p \in work[i] \ dropped THEN tree[p] \cup {i} ELSE tree[p]]
  /\ history' = history \cup {i}

\* The next branch is merged into main, unless main is still in the merge before.
CanMerge == pc = "merge" /\ next <= BatchEnd /\ state[next] = "ready"

\* merge_no_ff without conflict.
MergeClean ==
  /\ CanMerge /\ merging = 0
  /\ TakeOver(next, {})
  /\ pc' = "remove"
  /\ UNCHANGED <<MergeVars, report, merging, unaborted, conflicts, announced, reported, markers>>

\* merge_no_ff with a conflict: main is left in the middle of the merge.
MergeConflict ==
  /\ CanMerge /\ merging = 0
  /\ conflicts' \in SUBSET Overlap(next) \ {{}}
  /\ merging' = next /\ pc' = "abort"
  /\ UNCHANGED <<MergeVars, report, tree, history, unaborted, announced, reported, markers>>

\* main is still in the merge before: git refuses another one, and merge_no_ff takes the
\* paths that merge has unresolved for the conflicts of this one.
MergeRefused ==
  /\ CanMerge /\ merging # 0
  /\ conflicts' \in SUBSET conflicts
  /\ pc' = "abort"
  /\ UNCHANGED <<MergeVars, report, tree, history, merging, unaborted, announced, reported,
                 markers>>

\* git merge --abort in merge_no_ff (if it fails the stage does, see GitTimeout), and the
\* event merge_conflict.
AbortMerge ==
  /\ pc = "abort"
  /\ merging' = 0 /\ pc' = IF merging = next THEN "recover" ELSE "restart"
  /\ announced' = [announced EXCEPT ![next] = conflicts]
  /\ UNCHANGED <<MergeVars, report, tree, history, unaborted, conflicts, reported, markers>>

\* _attempt_conflict_recovery runs the merge again, into the same conflict.  Nobody looks
\* whether git has refused to.
ReenterMerge ==
  /\ pc = "recover" /\ pc' = "resolve"
  /\ merging' \in {0, next}
  /\ UNCHANGED <<MergeVars, report, tree, history, unaborted, conflicts, announced, reported,
                 markers>>

\* The same after a merge that was refused: only now does git merge this branch.
MergeAtLast ==
  /\ pc = "restart" /\ pc' = "resolve"
  /\ \/ TakeOver(next, {}) /\ UNCHANGED <<merging, conflicts>>
     \/ /\ conflicts' \in SUBSET Overlap(next) \ {{}}
        /\ merging' = next
        /\ UNCHANGED <<tree, history>>
     \/ UNCHANGED <<tree, history, merging, conflicts>>
  /\ UNCHANGED <<MergeVars, report, unaborted, announced, reported, markers>>

\* git merge --abort in the recovery, whose return code nobody looks at: if it fails main
\* stays in the merge.
AbortUnchecked ==
  /\ merging' \in {0, merging}
  /\ unaborted' = unaborted \cup ({merging'} \ {0})

\* With the strategy abort the merge is given up, and the stage with it.
GiveUp ==
  /\ pc = "resolve" /\ strategy = "abort"
  /\ AbortUnchecked /\ reported' = next
  /\ pc' = "failed"
  /\ UNCHANGED <<MergeVars, report, tree, history, conflicts, announced, markers>>

\* Mutant: the branch takes the place of main in the conflict.
KeepTheirs ==
  /\ pc = "resolve" /\ strategy # "abort" /\ merging = next
  /\ tree' = [p \in Paths |-> IF p \in work[next] THEN {next} ELSE tree[p]]
  /\ history' = history \cup {next}
  /\ merging' = 0 /\ reported' = next
  /\ pc' = "remove"
  /\ UNCHANGED <<MergeVars, report, unaborted, conflicts, announced, markers>>

\* checkout --ours and add succeed for every path merge_no_ff has named, and commit does
\* because no other is in conflict: main keeps its own version of them.
KeepOurs ==
  /\ pc = "resolve" /\ strategy # "abort"
  /\ merging = next /\ conflicts \subseteq announced[next]
  /\ TakeOver(next, conflicts)
  /\ merging' = 0 /\ reported' = next
  /\ pc' = "remove"
  /\ UNCHANGED <<MergeVars, report, unaborted, conflicts, announced, markers>>

\* Mutant: the merge that could not be resolved is left as it is.
NotResolvedLeft ==
  /\ pc = "resolve" /\ strategy # "abort"
  /\ reported' = next
  /\ report' = "failed" /\ pc' = "failed"
  /\ UNCHANGED <<MergeVars, tree, history, merging, unaborted, conflicts, announced, markers>>

\* One of them fails, for instance because main has deleted the path, or because there is
\* no merge to commit: the merge is given up.  The strategy diff3 goes on as if it had
\* succeeded.
NotResolved ==
  /\ pc = "resolve" /\ strategy # "abort"
  /\ AbortUnchecked /\ reported' = next
  /\ IF strategy = "diff3" THEN pc' = "remove" /\ UNCHANGED report
                           ELSE pc' = "failed" /\ report' = "failed"
  /\ UNCHANGED <<MergeVars, tree, history, conflicts, announced, markers>>

\* remove_worktree: branch -d deletes a branch that is merged, and git refuses any other.
KeptBranches(i) == IF i \in history THEN branches \ {i} ELSE branches

\* Mutant: the branch is deleted whether or not it has been merged.
RemoveForced ==
  /\ pc = "remove" /\ pc' = "merge" /\ next' = next + 1
  /\ worktrees' = worktrees \ {next}
  /\ branches' = branches \ {next}
  /\ WriteRows(next, "finished")
  /\ merged' = Append(merged, next)
  /\ UNCHANGED <<input_vars, first, state, work, report, git_vars>>

\* The worktree goes, and the branch with it if it may; the rows say finished and
\* passed, and the worker is in the list of the merged.
RemoveWorktree ==
  /\ pc = "remove" /\ pc' = "merge" /\ next' = next + 1
  /\ worktrees' = worktrees \ {next}
  /\ branches' = KeptBranches(next)
  /\ WriteRows(next, "finished")
  /\ merged' = Append(merged, next)
  /\ UNCHANGED <<input_vars, first, state, work, report, git_vars>>

-----------------------------------------------------------------------------
(* The next batch, and the end *)

\* The branches of a batch are merged, and there are assignments left.
NextBatch ==
  /\ pc = "merge" /\ next > BatchEnd /\ BatchEnd < Len(shares)
  /\ pc' = "batch" /\ first' = BatchEnd + 1
  /\ UNCHANGED <<input_vars, next, state, row, work, worktrees, branches, merged, report,
                 git_vars>>

\* extract_changed_files: the paths main has got since the stage began.
ChangedFiles == {p \in Paths : tree[p] # {}}

\* The worktrees are pruned, the changed files are extracted, the reports are saved.
WrapUp ==
  /\ pc = "merge" /\ next > BatchEnd /\ BatchEnd = Len(shares)
  /\ LET passed == ChangedFiles # {} /\ Len(merged) >= Len(shares) IN
       /\ report' = IF passed THEN "passed" ELSE "failed"
       /\ pc' = IF passed THEN "passed" ELSE "failed"
  /\ UNCHANGED <<MergeVars, git_vars>>

Ended == pc \in {"passed", "failed", "cancelled", "hung", "again"}

\* The task of the run is cancelled: so are the workers of the batch, and nothing
\* cleans up behind a merge.
CancelDevelop ==
  /\ ~Ended
  /\ pc' = "cancelled"
  /\ state' = [i \in DOMAIN state |-> IF state[i] = "running" THEN "stopped" ELSE state[i]]
  /\ UNCHANGED <<input_vars, first, next, row, work, worktrees, branches, merged, report,
                 git_vars>>

\* A git command on main exceeds its 60 seconds and is killed, or fails where that is
\* not expected: its exception ends the stage.
GitTimeout ==
  /\ pc \in {"merge", "abort", "recover", "restart", "resolve", "remove"}
  /\ pc' = "hung"
  /\ UNCHANGED <<MergeVars, report, git_vars>>

\* The session is deleted without its files, and the project started again in the
\* directory its slug names (otherwise every start has a directory of its own): init_repo
\* adds and commits whatever is in main, a merge in the middle of its conflict included.
InitRepoAgain ==
  /\ pc \in {"passed", "failed", "cancelled", "hung"} /\ pc' = "again"
  /\ IF merging = 0 THEN UNCHANGED <<history, markers, merging>>
     ELSE /\ markers' = markers \cup conflicts
          /\ history' = history \cup {merging}
          /\ merging' = 0
  /\ UNCHANGED <<MergeVars, report, tree, unaborted, conflicts, announced, reported>>

WorkerStep(i) == StartWorker(i) \/ WorkerReady(i) \/ WorkerRaises(i)

StageStep ==
  \/ SliceTasks \/ Gather \/ RaiseResult \/ NextBatch \/ WrapUp
  \/ MergeClean \/ MergeConflict \/ MergeRefused \/ AbortMerge
  \/ ReenterMerge \/ MergeAtLast \/ GiveUp \/ KeepOurs \/ NotResolved \/ RemoveWorktree

Next ==
  \/ StageStep
  \/ \E i \in Assignments : WorkerStep(i)
  \/ CancelDevelop \/ GitTimeout \/ InitRepoAgain

\* The event loop runs the coroutines of the stage and of its workers, git ends or
\* is killed, and a worker answers, ends or runs into its timeout.
Progress == StageStep \/ \E i \in Assignments : WorkerStep(i)

Spec == Init /\ [][Next]_vars /\ WF_vars(Progress)

-----------------------------------------------------------------------------
(* Properties *)

TypeOK ==
  /\ plan \in [lines : Seq(LineKinds), entries : Seq(EntryKinds)]
  /\ strategy \in Strategies
  /\ roles \in Nat /\ tasks \in Nat
  /\ shares \in Seq(SUBSET (1..tasks))
  /\ pc \in {"slice", "batch", "merge", "abort", "recover", "restart", "resolve", "remove",
             "passed", "failed", "cancelled", "hung", "again"}
  /\ first \in Nat \ {0} /\ next \in Nat \ {0}
  /\ state \in [Assignments -> {"new", "running", "ready", "raised", "stopped"}]
  /\ row \in [Assignments -> {"absent", "running", "failed", "finished"}]
  /\ work \in [Assignments -> SUBSET Paths]
  /\ announced \in [Assignments -> SUBSET Paths]
  /\ worktrees \subseteq Assignments /\ branches \subseteq Assignments
  /\ tree \in [Paths -> SUBSET Assignments]
  /\ history \subseteq Assignments
  /\ unaborted \subseteq Assignments
  /\ merging \in Assignments \cup {0} /\ reported \in Assignments \cup {0}
  /\ conflicts \subseteq Paths /\ markers \subseteq Paths
  /\ merged \in Seq(Assignments)
  /\ report \in {"none", "passed", "failed"}

\* Before the plan is shared out: its slices are the bullets of its task sections,
\* each with the files listed under it, in order, and one task if there are none.
SlicedRight ==
  pc = "slice" /\ plan.entries = <<>> =>
    IF TaskLines(plan.lines) = {} THEN SlicedTasks(plan.lines, <<>>) = Fallback
    ELSE TasksOf(plan.lines, SlicedTasks(plan.lines, <<>>))

\* A report that says passed means: every task of the plan was given to a worker
\* that finished, and, but for the strategy diff3, main descends from the work of
\* every worker.
PassedWhole ==
  report = "passed" =>
    /\ \A t \in 1..tasks : \E i \in Assignments : t \in shares[i] /\ row[i] = "finished"
    /\ strategy # "diff3" => Assignments \subseteq history

\* Nothing a worker has committed is ever out of reach: its branch is there, or main
\* descends from it.  Whatever fails, and whatever was dropped in a conflict.
WorkReachable ==
  \A i \in Assignments : state[i] = "ready" => i \in branches \cup history

\* A worker whose rows say finished has all its changes in main, but for the paths
\* its merge_conflict event has named.
NothingDropped ==
  \A i \in Assignments : row[i] = "finished" =>
    \A p \in work[i] : i \in tree[p] \/ p \in announced[i]

\* That is so with the strategy ours.  With diff3 a branch that could not be merged at
\* all is taken for merged.
DroppedAnnounced == strategy # "diff3" => NothingDropped

\* A stage that ends by itself leaves main in the middle of a merge only if the merge was
\* given up and git merge --abort has failed; and but for the strategy diff3 it does not
\* go on in such a main, nor pass, whatever git refuses.
MainSettled ==
  /\ pc \in {"batch", "merge", "remove", "passed", "failed"} =>
       merging \in unaborted \cup {0}
  /\ pc \in {"batch", "merge", "remove", "passed"} /\ strategy # "diff3" => merging = 0

\* Branches are merged, and the stage ends, only when no worker is at work: none
\* outlives the stage, and none sees main change.
NoWorkerOutlives ==
  pc \notin {"slice", "batch"} => \A i \in Assignments : state[i] # "running"

\* The stage ends, whatever its workers and git do.
DevelopEnds == <>Ended

\* SPEC.md 13.2, step 9: "On merge conflict, abort merge, mark run `blocked`, emit
\* `git_event` with `merge_conflict`, and keep the worktree."  The code does so with
\* the strategy abort only (but for the status, which becomes failed).
ConflictKeepsWorktree ==
  \A i \in Assignments : announced[i] # {} => i \in worktrees

\* A stage that ends by itself leaves main settled.  Nobody looks whether git merge --abort
\* has succeeded.
MainSettledEver == pc \in {"passed", "failed"} => merging = 0

\* No commit of main has the marks of a conflict in it.  A stage that is cut off
\* between the merge and its resolution leaves them to the next init_repo.
NoMarkers == markers = {}

\* Whose changes were dropped in a conflict has the conflict report.  The report of
\* the next conflict overwrites it.
LossReported ==
  \A i \in Assignments :
    row[i] = "finished" /\ (\E p \in work[i] : i \notin tree[p]) => reported = i
=============================================================================
