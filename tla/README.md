# A TLA+ model of nexussy's core

nexussy runs a software-delivery pipeline: a core service (`core/nexussy`, one
asyncio event loop over an SQLite database) takes a request through six stages,
lets worker subprocesses develop in git worktrees, records what happens as events,
and streams the events to user interfaces. The modules here model the parts of the
core where several coroutines share state. File names below are relative to the
repository's root, `core/nexussy/` being left out where no confusion arises.

## Inventory

| component | state | operations | what is hard |
|---|---|---|---|
| File locks (`swarm/locks.py`, `db.py`) | table `file_locks` | `claim_file`, `release_file`, `write_requires_lock` | leases that run out, stale reads, waiting claims |
| Event log and stream (`pipeline/engine.py`, `api/server.py`) | table `events`, `engine.queues`, a queue per connection | `emit`, `replay`, the stream generator | overflow amid a broadcast, replay against registration, heartbeats, reconnection |
| Run control (`engine.py`, `api/server.py`, `mcp.py`, `stages/interview.py`) | `runs.status`, `sessions.status`, `engine.paused`, `.tasks`, `.interview_waiters`, `.steer_queue`, `.blocked_previous_status` | `start`, `_run`, pause, resume, cancel, answer, steer, blocker create and resolve | status and flag are two copies; every handler awaits between them; a cancellation strikes anywhere |
| Stage loop and checkpoints (`engine.py`, `checkpoint.py`) | `stage_runs`, `checkpoints`, loop locals | the stages, validate and review loops, resume | bounded loops, crash between two writes |
| Recovery (`engine.py`) | all tables | `restore_interview_state` | which rows a crash leaves behind |
| Develop stage (`stages/develop.py`, `swarm/gitops.py`) | worktrees, branches, `workers`, `worker_tasks`, main and its unfinished merge | slice, share out, batch, commit, merge, recover, remove | a batch that fails in part, git commands that fail, a cancellation between any two |
| Worker RPC (`swarm/pi_rpc.py`, `swarm/local_pi_worker.py`) | the process, its pipes, `rpc.responses`, `engine.active_worker_rpcs` | spawn, request, wait, inject, stop | a timeout or a death against a late answer; a pause against spawn and registration |
| Steering (`mcp.py`, `engine.py`) | `steer_queue`, `steer_context`, `steer_events` | steer, consume, clear | four places that consume; a clear against a consumption |
| Writer lane and read pool (`db.py`) | a lock, SQLite's own lock | `write`, `read` | retries that hold the lane |
| Providers and rate limits (`providers.py`, `engine.py`, `api/server.py`) | table `rate_limits`, `provider_env_cache` | look up, call, record, clean up, retry | limits that arrive out of order and run out |
| Secrets (`providers.py`, `api/server.py`) | keyring, environment, `.env` | put, delete, read | a keyring thread that is late |
| Handoff notes, skipping (`api/server.py`) | `artifacts`, `stage_runs` | inject, skip | read-modify-write |
| Client state (`tui/src/state.ts`, `textual_tui/nexussy_textual/state.py`) | what is shown | reducers over events | duplicates and gaps |
| Roles (`swarm/roles.py`), artifact store (`artifacts/store.py`) | none; files | permission table; safe write | boundaries; a crash during a write |

The prompts and parsers of the stages, the project graph, schemas, configuration,
the user interfaces, the web proxy and the scripts have no state of this kind and
are not modelled (`PROJECT.json` says why, part by part).

## How the code's concurrency is modelled

All coroutines run on one event loop, so an action is what one coroutine does
between two awaits that can suspend it. Which awaits do?

- `Database.read` runs in an executor thread: it always suspends, and the result is
  old when the coroutine sees it.
- `Database.write` runs the transaction in the loop's own thread. It suspends only
  when the transaction meets `OperationalError`, which needs another process on the
  database (the stdio MCP server, the CLI), or when another coroutine sleeps inside
  `write` for that reason. The constant `LaneBusy` says whether that happens. With
  `LaneBusy = FALSE` (one process) a write, and so an `emit`, does not give up the
  loop, and the modules enforce it: no other coroutine runs between two such writes
  (no tick in FileLocks, `LoopFree` in EventStream, `MayRun` in RunControl). With
  `LaneBusy = TRUE` a write of RunControl may also give up after its five attempts
  (`StartRaises`, `TaskRaises`, `CallRaises`), and so may the one of Providers
  (`PersistFails`). In Develop, WorkerRun and Providers every await may suspend; a step of
  Steering ends before a write that may have to wait.
- `stdin.drain()` of a worker's process suspends while a message is longer than its pipe
  and the writer's buffer, until the process reads it; it has no deadline.
- sleeps, futures, queues and yields of a generator suspend.

`task.cancel()` is delivered at the await where the task is suspended; before its
first step it leaves no trace, and inside an exception handler it leaves the handler.

## Modules

Each `MC` module only gives the sets and the symmetry its runs use. Operators whose
comment begins with "Mutant:" are not part of a specification: each is a definition
with a plausible mistake, used to see that a property can fail.

- **FileLocks**: the claimed rows of a path, a clock in ticks, and a program counter
  per call (a slot of a worker on a path). `BeginClaim`, `ClaimGranted`,
  `ClaimConflict` and `Retry` are `claim_file`; `BeginRelease`, `ReleaseRead` and
  `ReleaseWrite` are `release_file`; `BeginWrite`, `WriteCheck` and `WriteFile` are the
  lock check and the write of `execute_worker_tool`. Claim, release and the tool check
  have no caller in the pipeline's own stages; they are the interface offered to
  workers and are modelled as called in any order.
- **EventLog**: what a stream promises: a log that grows, readers that see it in order.
- **EventStream**: `emit` (one step up to the first full queue, one for each
  `sse_client_slow` notice), the generator of a connection (`Connect`, `YieldReplay`,
  `Register`, `Deliver`, `Silence`, `Beat`, `YieldBeat`, `Disconnect`), and clients
  that reconnect with the id they received last. An event is its kind and its
  sequence number. It implements EventLog with `seen <- got`.
- **RunControl**: one run id; each start and each call of a handler is a coroutine
  with a program counter. `StartRequest` ... `CreateTask` are `Engine.start`;
  `FirstStep` ... `Cancelled` are `Engine._run`, whose stages are reduced to beginning,
  passing and failing, with the browser validation behind them (`Browser`: it is enabled),
  which does not look at the pause flag; `EmitDone` and `NoticeSent` are its last `emit`, which
  persists done and may then wait once more to write the notice of a slow subscriber; `Ask`,
  `Answered`, `TimedOut`, `Complete` are the interview;
  `Request` ... `WriteCallRow` are the handlers. The status of the run, the pause flag,
  the sessions, the task table, the interview future, the urgent steer flag and the
  remembered status of a blocker are the state they share.
- **StageFlow**: one run id over several starts, with what they leave in the database
  (`runs`, `stage_runs`, `checkpoints`, `artifacts`) and in the project directory.
  `StartRequest` (the start stage from the checkpoints, the new session and directory,
  which may be a copy of a repository that holds a plan: `Found`),
  `StartRow` and `ResetStage` are `Engine.start`; `BeginStage`, `Work` (the handler of
  the stage up to its last provider call), `SaveFile` and `SaveRow` (`_save_art`),
  `Judge`, `Retry`, `SaveCheckpoint`, `BeginBrowser`, `EndBrowser` and `Finish` are
  the loop of `_run` (with `SaveQuestions` and `SaveWorkerPaused` for the checkpoints saved
  within interview and develop), one action per write, so that a crash (`Crash`), an exception or
  a cancellation (`Stop`) can strike between any two; `Restore` is
  `restore_interview_state`; `SkipStage` is the request to skip a stage, which only
  marks a row. Of an artifact it keeps which draft or plan it is, or which one a report
  judged. The stages' inputs are those of the code: design is made anew of the
  interview, not of the validation report, and plan reads neither the draft nor
  `validated_design` (SPEC.md:1129 lists it as an input), which is why `Gates` speaks
  of when a stage may begin and not of what it is made from.
- **PlanTasks**: the pure part of develop: the plan as a sequence of kinds of lines,
  the slices of the markdown (a recursive function of the lines read) or of the JSON
  sidecar, the number of workers, and which tasks each is given. `TasksOf` says which
  tasks a plan has, in terms of where its headings and bullets are, and the slices are
  compared with it.
- **Develop**: `merge_workers` and all it calls: `Slice`, the batches, each worker's
  worktree, commit and rows, `merge_no_ff`, the three strategies for a conflict, the
  removal of worktrees, the two reports, git commands that fail, a cancellation
  anywhere, and the `init_repo` of a second start, which commits what an interrupted
  merge left. Nobody reads the return code of the `git merge --abort` of a recovery
  (`AbortUnchecked`); the next merge finds main as it was left (`MergeRefused`,
  `MergeAtLast`). A second start sees the same main only if its session was deleted without
  the files (`server.py:249`), which frees the slug for another start (`engine.py:233`). A file
  is a path, its content the set of workers whose change it has.
- **PiWorker**: a worker process: its input, the bundled worker's loop over messages
  and turns, its output with lines too long for the reader, or spoilt by the removal of
  secrets (an answer that is no JSON any more is dropped), the drains of `pi_rpc.py`, and
  how it dies. A message to it is short, or long: then it clogs the writer until it is read
  (`Clogged`).
- **WorkerRun**: `run_worker_rpc` over PiWorker: spawn, register, request, wait, stop,
  and the restart after a pause (a new call of the function at greater depth, with
  `depth` for the process it has). `request` and `stop` both wait in `stdin.drain()`
  (places `send` and `finally`, before the signal), and `CutOff` is a cancellation in
  those and in the rest of the `finally`; against it pause, resume, `worker_stop`,
  `worker_inject` and a cancellation.
- **Secrets**: one provider key in keyring, environment and file, and keyring threads
  that finish after their caller gave up waiting.
- **Providers**: callers of one model: stages with their retries (`_provider_text`) and
  chats (`assistant_reply`), the table of limits with its clean-up, writes that fail and
  stages that are cancelled, and the key a call carries (Secrets). There is one keyring
  service: a PUT writes to the configured one (`server.py:624`) and a call reads
  `NEXUSSY_KEYRING_SERVICE` (`providers.py:141`), which are the same unless one is changed.
- **Steering**: messages to the orchestrator, the queue, the bounded context, the
  consumption at the end of a stage, in a pause, and in plan and develop; the loop from
  review back to plan.
- **FileLocks_proofs, RunControl_proofs, Develop_proofs, WorkerRun_proofs,
  Providers_proofs, EventStream_proofs, StageFlow_proofs, Steering_proofs**: the theorems of
  the modules of these names.

How they fit together. StageFlow, RunControl and Steering look at the same coroutine
`_run`: StageFlow at what one start after the other leaves in the database, RunControl
at who holds, cancels and ends it, Steering at the messages it picks up. Develop is
what StageFlow's last stage does, and leaves to WorkerRun how one worker comes back with
changes or not; WorkerRun is Develop's step from a worker that runs to one that is
ready, failed or stopped, and `NoneLeft` is what lets Develop treat a worker that came
back as one that no longer touches its worktree. Providers uses Secrets, WorkerRun uses
PiWorker, Develop uses PlanTasks, EventStream implements EventLog.

## Runs

Properties that hold:

| run | instance | what it shows |
|---|---|---|
| FileLocks | 2 workers, 1 path, 2 calls each, lease 1 tick, clock to 2, busy lane | `OneClaim`, `LeaseStable` |
| FileLocksWait | 3 workers, 1 call each, lease 2, clock to 4, free lane | `TimeoutJustified` (it fails with a busy lane: the time of an attempt is then older than its transaction), `ClaimEnds` |
| EventStream | 1 emitter, 2 readers, queues of 1, log of 2 events, heartbeats, busy lane | `NothingLostLive`, `NoDeafConnection`, `DoneArrives` |
| EventStreamLog | 1 emitter, 1 reader with 3 connections, queue 2, replay limit 2, log of 5, free lane | EventStream implements EventLog |
| RunControl | 2 starts, 2 calls of any operation, all interview modes, a browser validation, workers to stop, free lane | `OneLiveTask`, `HeldIsPaused` |
| RunControlEnds | 1 start, 2 calls of pause, resume, cancel and steer, a fresh interview, a browser validation, workers to stop, busy lane, writes that fail | `CancelSticks`, `EndsAgree`, `PauseHolds`, `RunEnds`, `CancelledEnds` |
| StageFlow | 3 starts, each from interview to develop or plan, from plan to review, or develop alone; 2 attempts per loop; browser validation; directories that are empty or hold another plan's tasks; crashes without bound | `Gates`, `BuildsWhatWasReviewed`, `PassedWhole`, `NoStageRepeated`, `StartEnds` |
| Develop | every plan of at most 4 lines, sidecars with entries to repair or of no use; 1 or 2 workers to a batch, 1 to 3 tasks; the 3 strategies; 2 paths; failures (of `git merge --abort` too) and a cancellation anywhere; a second start | `SlicedRight`, `PassedWhole`, `WorkReachable`, `DroppedAnnounced`, `MainSettled`, `NoWorkerOutlives`, `DevelopEnds` |
| WorkerRun | 1 worker, 2 processes, 1 turn, messages long or short, answers spoilt or too long, 1 pause or stop, 1 injection, a cancellation, a crash of the process anywhere | `OneProcess`, `NoneLeft`, `AnswerCounts`, `WorkerEnds` |
| Providers | a stage with 2 attempts and a chat, a key set and deleted, a keyring that answers, fails or is late, writes that fail, a cancellation; clock to 1, resets up to 1 ahead | `LimitKept`, `FreshKey`, `CallsEnd` |
| Steering | 4 stages, context of 2, 3 messages, 1 clear, 2 pauses, 1 plan sent back | `DevelopSees`, `UrgentResumes` |

`DoneArrives` is about readers that are registered when done is emitted: one that is still
in the gap between replay and registration, and the readers of a cancelled run, get none.
`PauseHolds` is about the stages of the loop, `HeldIsPaused` about a run that was started
once, with neither `POST /pipeline/resume` nor a blocker, which write the status whatever
the flag is; what they exclude is refuted below.

Bounds. Rows, queues and status writes involve a path, a queue and a run at a time,
so one path and one run are enough; two actors of each kind give every pairwise
interleaving, and the third worker of FileLocksWait lets a lease change hands while
another waits. A queue of one overflows at once; no event is due once the log has
two (`MaxLog`), but the notices and heartbeats that these cause still follow, so an
emit of the task, two of generators and two notices meet. The clock of FileLocks
reaches two leases, one after the other. `MaxStages = 2` lets a stage follow
another; retries are further stages for this model. In StageFlow three starts let a start
find what two others left, one of them forced to a late stage; two attempts are one
retry and one exhaustion of each loop, and the bounds of the code (3 and 2) only
repeat them; drafts and plans are numbered by the least number not in use, so that
their number needs no bound. In Develop a line of the plan acts on the section and the
bullet before it, so four lines reach every combination of the two and an empty line
between; two workers on two paths conflict on none, one or both, and a third task makes
a second batch. In WorkerRun the second process is the one after a pause; the code's
third (`_depth >= 3` raises) repeats it, `WorkerRunTwice.cfg` has a second pause, and
`WorkerRun_proofs` any number. A provider that answers twice out of order needs two
callers. Steering's context of two overflows with the third message, the code's 50 with
the 51st. Deadlock is not checked where the bounds stop the system or where it may
rest (no request, no event due, a paused run).

One disagreement between the code and what it says of itself is a run of its own, which
TLC refutes; `findings` in `PROJECT.json` quotes the lines: **EventStreamGap** violates
`NoEventSkipped`, for an event between the replay query and the registration of the queue
is never shown.

### Further disagreements

The same modules show these. The first group has a configuration each, to be run by
hand (`tlc -config <name>.cfg MC<module>.tla`), which TLC refutes:

| configuration | violated | what happens |
|---|---|---|
| RunControlBorn | `NotBornPaused` | a pause outlives the cancelled task and holds the next (`engine.py:367`), against SPEC.md:452 |
| RunControlPauseLost | `InterviewKeepsPause` | the end of an interview drops a user's pause (`interview.py:83`), against SPEC.md:1272 |
| StageFlowNoPlan | `DevelopHasPlan` | a resumed run gets an empty directory, where develop looks for the plan in vain (`engine.py:313`), against SPEC.md:1131 |
| FileLocksOverlap | `NoOverlappingWrites` | the lock check is not held until the write (`engine.py:704`), against SPEC.md:1532 "two workers cannot write the same file simultaneously" |
| EventStreamBeat | `InOrder` | a heartbeat is yielded past queued events (`server.py:342`), against SPEC.md:936 "Monotonic per run"; without heartbeats it holds (theorem `StreamInOrder`) |
| EventStreamSlow | `OverflowRecovered` | the id of the overflow notice lies after the events it replaced, so a replay skips them (`engine.py:209`), against SPEC.md:1012 "MUST rely on `Last-Event-ID` replay" |
| RunControlDone | `DoneIsTrue` | a cancellation in the last `emit`, which has persisted done and waits to write a slow reader's notice, cancels a run that said passed (`engine.py:207`), against SPEC.md:929 "Completion MUST use the `done` event" |
| RunControlReleased | `PausedIsHeld` | `mcp_pause` stops the workers between the flag and the row, an `mcp_resume` meanwhile drops the flag: the run goes on and says paused (`mcp.py:121`), against SPEC.md 13.4 |
| RunControlBrowser | `BrowserWaits` | the browser validation begins in a pause (`engine.py:515`), against SPEC.md 13.4 |
| RunControlRevived | `TerminalIsFinal` | resume sets a finished run to running (`server.py:366`), against SPEC.md:1048 "409 `run_not_active`" |
| RunControlWait | `WaitEnds` | a resumed interview waits without timeout (`interview.py:29`), against README.md:378 |
| RunControlBlocked | `BlockedWhileOpen` | the task writes its end over blocked (`engine.py:522`), against SPEC.md:1278 |
| RunControlRestored | `StatusRestored` | resolving a warning revives a finished run (`server.py:467`), against SPEC.md:1278 |
| StageFlowOrphan | `NoOrphan` | a run that crashed before its first checkpoint stays `running` for ever (`engine.py:150`), against CHANGELOG.md:89 "Orphaned `running` runs are automatically marked `failed`" |
| RunControlTwo | `OneLiveTask` | with a busy lane two starts pass the test for a live task (`engine.py:316`), against SPEC.md:1043 "409 `conflict`" |

The second group is refuted when put in place of the properties of the configuration
named:

| configuration | violated | what happens |
|---|---|---|
| WorkerRun | `PausedIsRequeued` | when the flag is gone before the coroutine sees that its process ended, a paused worker fails its run, against SPEC.md 13.4 |
| WorkerRun | `PauseStopsAll` | a process that is not registered yet outlives a pause, against SPEC.md 13.4 |
| WorkerRun | `LongLinesTruncated` | a line longer than the reader's buffer ends the drain, against SPEC.md:1333 |
| WorkerRun | `InjectedIsRead` | the bundled worker reads its input between runs only, and is stopped after the first, against SPEC.md:1598 |
| WorkerRun | `NoneLeftEver` | a cancellation in the `finally`, or while a long prompt is sent (`develop.py:340`, outside of the `try`), leaves the process |
| WorkerRun | `WorkerEndsInTime` (a PROPERTY) | a process that does not read its input blocks `request` and `stop`, which is before the signal, for ever (`pi_rpc.py:38`, `72`) |
| WorkerRun | `NoStrayCommand` | a command of the tool bash is in a session of its own and outlives its worker, into the next one's worktree |
| Develop | `ConflictKeepsWorktree` | only the strategy `abort` keeps the worktree of a conflict, against SPEC.md 13.2, step 9 |
| Develop | `MainSettledEver` | git refuses `checkout`, `add` or `commit` and then `merge --abort` too (a left `index.lock`): the stage fails with main in the merge (`develop.py:413`, `432`, `436`) |
| Develop | `NoMarkers` | a stage cut off in a merge leaves it to `init_repo` of the next start, which commits the conflict marks |
| Develop | `LossReported` | the report of a conflict is overwritten by that of the next |
| Develop | `NothingDropped` | with `diff3` a branch that could not be merged counts as merged |
| Steering | `PlanSees` | a message consumed at the end of a stage is not in the prompt of plan, against CHANGELOG.md:29 |
| Steering | `ClearSticks` (a PROPERTY) | a message in the hand of `consume_steer` comes back after a clear |
| Steering | `MarkedIsTaken`, `MarkedIsShown` | rows are marked consumed that are still queued (only after a clear: theorem `RowsAccount`), or that no model was shown |
| StageFlow | `BuildsNothingElse` | a start from review or behind, in a copy of a repository that holds a plan, builds that plan (`engine.py:243`) |
| Providers | `EveryLimitKept` (a PROPERTY) | a limit whose write fails five times, or whose stage is cancelled before it, is forgotten (`providers.py:406`), against SPEC.md:1366 |
| Providers | `ChatReportsLimit` (a PROPERTY) | a chat that ran into a limit fails otherwise when the limit is over as it looks |
| Providers | `FreshKeyAlways` | a late keyring hides the key set last |
| Providers, `Direct = TRUE` | `LimitKept`, `CallsEnd` | a direct AgentRouter call does not persist a limit (SPEC.md:1366), and has a timeout for each read only |

`BuildsWhatWasReviewed` is about a start that has planned. What the directory holds before
does not matter there, because plan writes both of its files over whatever is found: its
mutant keeps a file that is there. A start behind plan builds what it finds, or nothing
(`BuildsNothingElse`, `DevelopHasPlan`). That a resumed run gets a new directory is also what
keeps a crash in a retried plan from leaving files of one plan and rows of another there: to
resume in the old one, the order of the writes (`engine.py:603`) would have to be repaired as
well.

## Fairness

- FileLocks: a sleeping claim wakes and its transaction is served (weak fairness of
  the claim's steps); time passes, however busy the loop is (strong fairness of Tick:
  a tick is blocked only within a transaction).
- EventStream: the writer lane is served, and the loop runs every generator that can
  run. Nothing is assumed of emitters, clients or connections.
- RunControl: every coroutine that can run runs. A stage ends (weak fairness of its
  end): its provider calls and workers have timeouts and its retries are bounded. No
  request is assumed to arrive, an interview is not assumed to be answered; its
  timeout is assumed only where the code has one.
- StageFlow: the steps of a start and its task, weakly: provider calls time out and
  their retries are bounded. Crashes, restarts, failures and requests are not fair.
- Develop: the stage's own steps (`Progress`), weakly: a worker has a timeout
  (WorkerRun), a git command ends or is killed. Nothing is assumed about which outcome.
- WorkerRun: the coroutine, the handler that stops processes and the drains, each
  weakly, for the loop runs what can run; a signalled process ends (it is killed after
  a grace time). The agent need not make progress: the wait has a deadline. A write to a
  process that does not read has none, so `WorkerEnds` allows a run whose process leaves a
  long message unread for ever; and nobody has to resume a paused run, so it allows the wait
  in a pause.
- Providers: each caller's own steps. The provider may never answer: a call has a timeout of
  its own.
- Steering: the pipeline's steps, weakly; nobody has to send, pause or resume.

## Proofs

All theorems are of the form `Spec => []P` or `Spec => [][A]_vars`, or both, for every value of
the constants that meets the assumptions of the module (and the hypotheses a theorem
states), and rest on an inductive invariant: the initial states have it, every step keeps
it, it implies the property. TLC checked every conjunct before it was proved.

**FileLocks_proofs**, for all workers, paths, calls, timeouts and both lanes:
`TypeCorrect`, `Exclusion` (`OneClaim`), `LeasesStable` and, with a free lane,
`TimeoutsJustified`. Invariant: `TypeOK /\ OneClaim /\ NowPast /\ NowCurrent`. `OneClaim`
alone is inductive only with the types; the action properties need that a captured time
is not in the future (`NowPast`: a row that the claiming transaction expires has run out
by the clock) and, with a free lane, that it is the present (`NowCurrent`). Two more say
what no run's property does. `OverlapsAreLate`: where FileLocksOverlap shows two workers
that write one file, a worker with one call in flight on a path comes to that only when the
clock has gone on since one of the two captured the time it was judged by (`Covered`: a call
that may write at this very time has the row). `ClaimIsFinite` is a variant, see below.

**RunControl_proofs**, for any starts, calls, operations, stages and questions. Types
come with what a handler may be at (`HandlerInv`), how many stages are left
(`StagesLeft`) and who can be cancelled (`CancelInv`).
- `OneTaskAlways`: with a free lane, or one start (`Exclusive`). `Tasks` says that at most
  one coroutine is where it waits for the lane (`LaneInv`), that a start that passed the
  test for a live task still sees none (`StartingInv`), and that whoever is alive is the
  registered task (`LiveInv`).
- `EndsAlwaysAgree`: without answers, which may write the session of a task that is
  over. `EndInv` relates the place of a task to the session and the done event it has
  written; in particular a task that is cancelled has said nothing, or that it passed, if it
  was caught between its done event and the notice of a slow subscriber.
- `CancellationsStick`: with `Exclusive` and without the resolution of blockers, which
  writes a status it read long ago. `StickInv` says that a task that a handler in flight
  or finished has cancelled is doomed: it is about to be thrown a `CancelledError`, is in
  the handler for one, or is over, and writes neither passed nor failed any more;
  `NoEndWritten` that no handler does.
- `PausesHold`: one start, both lanes, any calls, the stages of the loop. `HoldInv`: while a
  pause has been set and
  nothing has undone it, the flag is up, or the task is doomed, or it is in the handler
  for a failure. `FreshInv` and `UrgentInv` exclude a call that has not arrived and an
  urgent message that nobody sent.
- `HeldRunsSaySo` (`HeldIsPaused`): free lane, workers to stop or none. A pause sets the
  flag, stops the workers, and writes the row only then, while other calls come and go.
  `Informed` says what a handler that is about to write the row knows: a pause writes paused
  whatever the flag is by then, a resume has dropped the flag and a cancellation cancelled the
  task in the step before, for whoever is there has the event loop. `Matched` says what flag
  and row are at every place of the task; `MatchInv` is that for a run started once (`Alone`)
  whose calls heed the flag (`Heeding`).

**Develop_proofs**, for any plans, roles, workers, strategies and paths: `TypeCorrect`,
`NoneOutlives`, `WorkIsReachable`, `MainIsSettled`, `NothingDroppedUnsaid`,
`PassedIsWhole`, and the variant `StageIsFinite`. The invariant is `Settled(Types, RunInv,
ReachInv, MergeInv)` with
`RowInv`, `DropInv` and `PassInv`: who runs where the stage stands, that a branch goes only
when main descends from it, what an unfinished merge is about, which rows are final, which
changes are in main or announced, and that every task has its share.
`SlicesAreRight` (`SlicedRight`) is about the plan alone, of any length. Its induction over
the lines is on a set of numbers (`AllNumbers`, from the well-foundedness of `<` and
`WFMin`), since the provers cannot be given an induction principle with an operator in it;
`ReadRight` says what has been read after k lines: the tasks among them, their files so
far, whether line k + 1 is in a section and whether a nested bullet there would belong to
the last task.

**WorkerRun_proofs**, for any number of processes, turns, stops and injections:
`TypeCorrect`, `OneProcessAlways`, `NoneLeftBehind`, `NoAnswerLost` and the variant
`WorkerIsFinite`. Invariant:
`Types /\ UpInv /\ ReadInv`. `UpInv` says that only the process spawned last can be up,
and in which places of the coroutine; `ReadInv` that a readable answer a process has written
is in its output or among the responses, unless a line too long has broken the drain, and
that a wait that was given up for the end of the process had seen the output drained to the
end.

**Providers_proofs**, for any callers, retries and times: `TypeCorrect`; `LimitsKept`, if
no call is direct; `KeysAreFresh`, for any number of PUTs and DELETEs; the variant
`CallIsFinite`. A limit stays, once written (the write may fail, or its stage be cancelled),
because the clean-up deletes only what is over and a row is only written with a reset a
provider has answered with. `KeysAreFresh` rests on `KeysInv` (where the current key is,
as long as the keyring has only answered, or only failed; and that what the engine has
cached is that key) and `Keyed` (what a caller holds came from there).

**EventStream_proofs**, for any emitters, clients, connections, queues, replay limits and
both lanes: `TypeCorrect`; `NothingIsLost` (`NothingLostLive`), whose invariant `Delivered`
is stronger: the emit that has still to reach a full queue must be the one of the very event
that is missing, for a cancelled emit leaves a full queue registered; `NobodyIsDeaf`, with
`Heard` for a queue that is live, registered or not. `StreamImplementsLog` is the refinement
of EventLog, with a free lane and no heartbeats, which both are needed (`EventStreamBeat`
shows the heartbeat that overtakes). Its invariant `InLine` says that what a connection has
still to yield rises and comes after all its client was shown (`Coming`), that only the
latest connection of a client is under way (`Ordered`), and that the one emit that can be
suspended is later than all in the queues it has still to visit (`Tidy`). `StreamInOrder`
(`InOrder`) follows from the refinement.

**StageFlow_proofs**, for any requests, number of starts, limits of the loops, stages that
may be skipped, with and without browser validation: `TypeCorrect`, where `Standing` keeps an
attempt for whoever is in a loop; `NothingRepeated` (`NoStageRepeated`), `PassedIsWhole`
(`PassedWhole`), `GatesHold` (`Gates`), `BuildsTheReviewed` (`BuildsWhatWasReviewed`), and
the variant `StartsAreFinite`.
The properties look at one point of the loop, the invariants at all of a start: `Ahead` and
`Entered` say that no checkpoint is ahead of the task but that of a stage it repeats, and
that the one behind it is there; `Behind` that what it has left behind is done; `Made` what
a stage has still to save (`Saving`), that a checkpoint of validate or review comes with a
report that passed what is now the latest draft or plan (`Judged`), and that a plan which a start
has made is the one of the rows, in its files too, with a review on the way to develop
(`Planned`).

**Steering_proofs**, for any stages, length of the context, messages, reviews and pauses:
`TypeCorrect`; `DevelopAlwaysSees` (`DevelopSees`). `InLine` says that the context and
behind it the queue rise, `Kept` that a message that was sent and not cleared is in one of
them, or `Fallen`: earlier than all of a full context, which by a pigeon-hole argument
(`Outnumbered`) is to say that it is not among the latest (`Cut` is what the bound of the
context does to a rising sequence). `Shown` carries this from where develop takes the queue
to its specs. `RowsAccount`: nothing but a CLEAR_CONTEXT drops a message, and until there
is one the queue and the rows that are marked, or about to be, share the messages out
(`Accounted`, `Tally`).

**Variants.** Of the liveness properties that TLC checks on small instances, a part is
proved for every value of the constants: that whoever is under way has a bounded number of
steps left (`StepsLeft`, a lexicographic order of loops and places written as one number),
which is 0 when it is over, which each of its own steps makes less, and which only a new
call, start or claim of its own raises.

| theorem | who | steps at most | part of |
|---|---|---|---|
| `ClaimIsFinite` (FileLocks_proofs) | a `claim_file` | `2 * Timeout + 1`: an attempt and a sleep per tick | `ClaimEnds` |
| `StartsAreFinite` (StageFlow_proofs) | a start | `58 + 16 * (MaxValidate + MaxReview)`: a report that rejects costs two stages | `StartEnds` |
| `StageIsFinite` (Develop_proofs) | develop, once the plan is shared out | 9 per share, and 2 | `DevelopEnds` |
| `WorkerIsFinite` (WorkerRun_proofs) | `run_worker_rpc`, pauses included | 9 per process, and 2 | `WorkerEnds` |
| `CallIsFinite` (Providers_proofs) | a call of a stage or of the chat | 5 per attempt | `CallsEnd` |

What is left to TLC is that these steps are taken: that one is enabled wherever the property
has it go on, which is about `ENABLED`, and that fairness takes it.

What stays with TLC: liveness (`ClaimEnds`, `DoneArrives`, `RunEnds`, `CancelledEnds`,
`StartEnds`, `DevelopEnds`, `WorkerEnds`, `CallsEnd`, `UrgentResumes`), which is out of
the prover's reach but for the variants above.

## Not modelled

- **The writer lane and read pool** (`db.py`): their effect is the constant `LaneBusy`, and
  in RunControl and Providers the write that raises after its attempts. The attempts
  themselves sleep while SQLite is held by another process, of which this code says nothing.
- **Choice of a model, form of a request**: what a provider does is any of its outcomes.
- **Handoff notes**: one read and one write of a row; a note may be lost between them
  (`server.py:415`), and nothing the repository says promises otherwise.
- **Roles** (`swarm/roles.py`): a table without state. **Artifact store**: one write to a
  temporary file and a rename; when a file and its row are written is in StageFlow.
- **Client reducers** (`tui/src/state.ts`, `textual_tui/nexussy_textual/state.py`):
  rendering of events; the clients' reconnection is in EventStream.
- **Prompts and parsers of the stages, project graph, schemas, configuration, audit,
  memory, graph and cost routes, the CLI**: data and single statements without control.
- **User interfaces, web proxy, scripts**: rendering, forwarding, shell.
- Within modelled parts: the mock develop of `allow_mock`, the metadata switches that
  force a rejection, the protocol of an external `pi` command, what a tool does to files,
  the filter of a worker's stream, and the status of a session at recovery.

`PROJECT.json` has the same, component by component, and lists the hazards of the code with
the properties about each.
