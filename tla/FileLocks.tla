----------------------------- MODULE FileLocks -----------------------------
(***************************************************************************)
(* File locks of one run: core/nexussy/swarm/locks.py over the SQLite      *)
(* table file_locks, and the lock check of Engine.execute_worker_tool.     *)
(*                                                                         *)
(* claim_file, release_file and write_requires_lock are coroutines of one  *)
(* event loop.  Each is split at the awaits where another coroutine, or    *)
(* the clock, can intervene: the sleep between two claim attempts, a read  *)
(* (it runs in an executor thread), and a write (it may wait for the       *)
(* writer lane, see LaneBusy).  A transaction is one step.  The optional   *)
(* emit callback is left out: no caller in core/nexussy passes one.        *)
(***************************************************************************)
EXTENDS Integers, FiniteSets

CONSTANTS
  Workers,    \* worker ids of the run
  Paths,      \* sanitized project-relative paths
  Slots,      \* how many calls one worker may have in flight on one path
  Timeout,    \* timeout_s, in ticks: length of a lease and of the wait for one
  MaxTime,    \* bound: the clock stops here
  LaneBusy    \* whether a write may wait for the writer lane (another process
              \* holding the database) while the clock goes on

ASSUME TimeoutAssumption == Timeout \in Nat \ {0}
ASSUME TimeAssumption == MaxTime \in Nat
ASSUME LaneAssumption == LaneBusy \in BOOLEAN

VARIABLES
  claimed,    \* claimed[p]: the rows of file_locks for path p with status
              \* 'claimed'; no query of locks.py reads the others
  clock,      \* now_utc() and loop.time(), in ticks
  pc,         \* pc[c]: where the coroutine of call c stands
  now,        \* now[c]: the timestamp it captured last
  deadline    \* deadline[c]: when its claim_file gives up

vars == <<claimed, clock, pc, now, deadline>>

\* A call is a slot of a worker on a path.
Calls == Workers \X Paths \X Slots
Worker(c) == c[1]
Path(c) == c[2]

Row == [worker : Workers, expires : Nat]

\* Where a coroutine is suspended, and how it ended.
Suspended == {"insert", "sleep", "relread", "relwrite", "check", "checked"}
Ended == {"granted", "timeout", "released", "forbidden", "file_locked", "written"}

Init ==
  /\ claimed = [p \in Paths |-> {}]
  /\ clock = 0
  /\ pc = [c \in Calls |-> "idle"]
  /\ now = [c \in Calls |-> 0]
  /\ deadline = [c \in Calls |-> 0]

Free(c) == pc[c] \in {"idle"} \cup Ended

\* With a free writer lane a coroutine runs from its capture of the time to the end
\* of its transaction: nobody else runs, and no time passes, in between.
MayRun(c) == LaneBusy \/ \A d \in Calls \ {c} : pc[d] # "insert"

\* The coroutine stops at its next await.
Goto(c, place) == pc' = [pc EXCEPT ![c] = place]

CaptureTime(c) == now' = [now EXCEPT ![c] = clock]

\* The coroutine ends with an outcome, which a tool reports as its payload; its locals
\* are gone, its slot is free.
End(c, outcome) ==
  /\ Goto(c, outcome)
  /\ now' = [now EXCEPT ![c] = 0]
  /\ deadline' = [deadline EXCEPT ![c] = 0]

-----------------------------------------------------------------------------
(* claim_file *)

\* The first attempt: the deadline is fixed, the time of the attempt captured.
\* Calls that could not run to their deadline before MaxTime are not started.
BeginClaim(c) ==
  /\ Free(c)
  /\ clock + Timeout <= MaxTime
  /\ Goto(c, "insert")
  /\ CaptureTime(c)
  /\ deadline' = [deadline EXCEPT ![c] = clock + Timeout]
  /\ UNCHANGED <<claimed, clock>>

\* Mutant: the UPDATE that expires old leases is missing.
UnexpiredNoUpdate(c) == claimed[Path(c)]

\* The rows the claiming transaction of call c leaves claimed.
Unexpired(c) == {r \in claimed[Path(c)] : r.expires >= now[c]}

\* Mutant: no unique index on the claimed rows of a path.
ClaimWithoutIndex(c) ==
  /\ pc[c] = "insert"
  /\ claimed' = [claimed EXCEPT ![Path(c)] = Unexpired(c) \cup
                   {[worker |-> Worker(c), expires |-> now[c] + Timeout]}]
  /\ End(c, "granted")
  /\ UNCHANGED clock

\* Mutant: the lease ends timeout_s before it begins.
ClaimBackwards(c) ==
  /\ pc[c] = "insert"
  /\ Unexpired(c) = {}
  /\ claimed' = [claimed EXCEPT ![Path(c)] = Unexpired(c) \cup
                   {[worker |-> Worker(c), expires |-> now[c] - Timeout]}]
  /\ End(c, "granted")
  /\ UNCHANGED clock

\* The transaction: expire, then insert unless the unique index refuses.
ClaimGranted(c) ==
  /\ pc[c] = "insert"
  /\ Unexpired(c) = {}
  /\ claimed' = [claimed EXCEPT ![Path(c)] = Unexpired(c) \cup
                   {[worker |-> Worker(c), expires |-> now[c] + Timeout]}]
  /\ End(c, "granted")
  /\ UNCHANGED clock

\* Mutant: the deadline is not looked at.
ConflictWithoutDeadline(c) ==
  /\ pc[c] = "insert"
  /\ Unexpired(c) # {}
  /\ Goto(c, "sleep") /\ UNCHANGED <<now, deadline>>
  /\ UNCHANGED <<claimed, clock>>

\* IntegrityError: the transaction is rolled back, its UPDATE included.
ClaimConflict(c) ==
  /\ pc[c] = "insert"
  /\ Unexpired(c) # {}
  /\ IF clock >= deadline[c]
     THEN End(c, "timeout")
     ELSE Goto(c, "sleep") /\ UNCHANGED <<now, deadline>>
  /\ UNCHANGED <<claimed, clock>>

\* asyncio.sleep(retry_ms/1000) is over, a tick at least since the last attempt:
\* the next attempt captures the time anew.
Retry(c) ==
  /\ pc[c] = "sleep"
  /\ clock > now[c]
  /\ Goto(c, "insert")
  /\ CaptureTime(c)
  /\ UNCHANGED <<claimed, clock, deadline>>

-----------------------------------------------------------------------------
(* release_file *)

BeginRelease(c) ==
  /\ Free(c)
  /\ Goto(c, "relread")
  /\ UNCHANGED <<claimed, clock, now, deadline>>

\* Reads the claimed row: another worker's is refused, none at all is not.
ReleaseRead(c) ==
  /\ pc[c] = "relread"
  /\ IF \A r \in claimed[Path(c)] : r.worker = Worker(c)
     THEN Goto(c, "relwrite") /\ UNCHANGED <<now, deadline>>
     ELSE End(c, "forbidden")
  /\ UNCHANGED <<claimed, clock>>

\* Mutant: the release does not name the worker again.
ReleaseAnyWorker(c) ==
  /\ pc[c] = "relwrite"
  /\ claimed' = [claimed EXCEPT ![Path(c)] = {}]
  /\ End(c, "released")
  /\ UNCHANGED clock

\* Releases the worker's own rows, whatever became of the table since the read.
ReleaseWrite(c) ==
  /\ pc[c] = "relwrite"
  /\ claimed' = [claimed EXCEPT ![Path(c)] = {r \in @ : r.worker # Worker(c)}]
  /\ End(c, "released")
  /\ UNCHANGED clock

-----------------------------------------------------------------------------
(* write_file and edit_file of execute_worker_tool *)

\* The worker is looked up, the call announced, the tool allowed to its role.
BeginWrite(c) ==
  /\ Free(c)
  /\ Goto(c, "check")
  /\ CaptureTime(c)
  /\ UNCHANGED <<claimed, clock, deadline>>

\* write_requires_lock: the claimed row must be unexpired and the worker's own.
WriteCheck(c) ==
  LET live == {r \in claimed[Path(c)] : r.expires > now[c]}
  IN /\ pc[c] = "check"
     /\ \/ /\ live = {}
           /\ End(c, "file_locked")
        \/ /\ \E r \in live : r.worker # Worker(c)
           /\ End(c, "forbidden")
        \/ /\ live # {} /\ \A r \in live : r.worker = Worker(c)
           /\ Goto(c, "checked") /\ UNCHANGED <<now, deadline>>
     /\ UNCHANGED <<claimed, clock>>

\* The executor's answer reached the coroutine: _execute_local_worker_tool writes the
\* file, or replaces a text in it, and no await is in between.
WriteFile(c) ==
  /\ pc[c] = "checked"
  /\ End(c, "written")
  /\ UNCHANGED <<claimed, clock>>

-----------------------------------------------------------------------------

Tick ==
  /\ clock < MaxTime
  /\ LaneBusy \/ \A c \in Calls : pc[c] # "insert"
  /\ clock' = clock + 1
  /\ UNCHANGED <<claimed, pc, now, deadline>>

Next ==
  \/ \E c \in Calls :
       /\ MayRun(c)
       /\ \/ BeginClaim(c) \/ ClaimGranted(c) \/ ClaimConflict(c) \/ Retry(c)
          \/ BeginRelease(c) \/ ReleaseRead(c) \/ ReleaseWrite(c)
          \/ BeginWrite(c) \/ WriteCheck(c) \/ WriteFile(c)
  \/ Tick

\* Sleeping coroutines wake, the writer lane is served, and time passes, however
\* much the coroutines do between two ticks.
Fairness ==
  /\ SF_vars(Tick)
  /\ \A c \in Calls : WF_vars(MayRun(c) /\ (ClaimGranted(c) \/ ClaimConflict(c) \/ Retry(c)))

Spec == Init /\ [][Next]_vars /\ Fairness

-----------------------------------------------------------------------------
(* Properties *)

\* Every variable has its type.
TypeOK ==
  /\ claimed \in [Paths -> SUBSET Row]
  /\ clock \in Nat
  /\ pc \in [Calls -> {"idle"} \cup Suspended \cup Ended]
  /\ now \in [Calls -> Nat]
  /\ deadline \in [Calls -> Nat]

\* At most one worker has the claimed row of a path, however the claims, expiries
\* and releases of several coroutines interleave (SPEC.md: unique active key).
OneClaim ==
  \A p \in Paths : \A r, s \in claimed[p] : r = s

\* A step that takes a claimed row away, against what LeaseStable says of it.
LeaseStep ==
  \A p \in Paths : \A r \in claimed[p] \ claimed'[p] :
    \/ r.expires < clock
    \/ \E c \in Calls : /\ Path(c) = p /\ Worker(c) = r.worker
                        /\ pc[c] = "relwrite" /\ pc'[c] = "released"

\* A claimed row stops being claimed only because its lease ran out or because a
\* release_file of the same worker is writing: the stale read of release_file
\* never takes the lock of a worker that claimed the path in the meantime.
LeaseStable == [][LeaseStep]_vars

\* A step in which a claim gives up, against what TimeoutJustified says of it.
TimeoutStep ==
  \A c \in Calls :
    pc[c] = "insert" /\ pc'[c] = "timeout"
      => \E r \in claimed[Path(c)] : r.expires >= deadline[c]

\* claim_file gives up only against a lease that was taken, or taken again, after
\* it began to wait: a holder that takes its lease once cannot starve a waiter,
\* since the lease and the wait have the same length (needs a free writer lane).
TimeoutJustified == [][TimeoutStep]_vars

\* A claim that waits gets the lock or times out: it does not wait for ever.
ClaimEnds ==
  \A c \in Calls :
    pc[c] \in {"insert", "sleep"} ~> pc[c] \in {"granted", "timeout"}

\* SPEC.md: "two workers cannot write the same file simultaneously".
NoOverlappingWrites ==
  \A c, d \in Calls :
    pc[c] = "checked" /\ pc[d] = "checked" /\ Path(c) = Path(d)
      => Worker(c) = Worker(d)
=============================================================================
