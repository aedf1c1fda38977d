-------------------------- MODULE FileLocks_proofs --------------------------
(***************************************************************************)
(* Proofs about FileLocks, for any workers, paths, slots, timeout and      *)
(* bound of the clock.                                                     *)
(***************************************************************************)
EXTENDS FileLocks, TLAPS

\* A timestamp that a coroutine captured is not in the future.
NowPast == \A c \in Calls : now[c] <= clock

\* With a free writer lane the timestamp is that of the transaction.
NowCurrent ==
  ~LaneBusy => \A c \in Calls : pc[c] = "insert" => now[c] = clock

\* The inductive invariant.
IInv == TypeOK /\ OneClaim /\ NowPast /\ NowCurrent

-----------------------------------------------------------------------------

\* The row a claim inserts is a row, and where a call stands after it ended, or
\* suspended, is a place: the facts about End and Goto that every step needs.
LEMMA EndType ==
  ASSUME TypeOK, NEW c \in Calls, NEW o \in Ended, End(c, o)
  PROVE  /\ pc' \in [Calls -> {"idle"} \cup Suspended \cup Ended]
         /\ now' \in [Calls -> Nat]
         /\ deadline' \in [Calls -> Nat]
         /\ pc'[c] = o
         /\ now'[c] = 0
         /\ \A d \in Calls \ {c} : pc'[d] = pc[d] /\ now'[d] = now[d]
  BY DEF TypeOK, End, Goto

\* Initially the invariant holds: no path is claimed.
LEMMA InitInv == Init => IInv
  BY DEF Init, IInv, TypeOK, OneClaim, NowPast, NowCurrent, Suspended, Ended

\* Every step preserves the types.
LEMMA StepType == TypeOK /\ [Next]_vars => TypeOK'
<1> SUFFICES ASSUME TypeOK, [Next]_vars PROVE TypeOK'
  OBVIOUS
<1> USE DEF TypeOK, Suspended, Ended
<1>1. ASSUME NEW c \in Calls, BeginClaim(c) PROVE TypeOK'
  BY <1>1, TimeoutAssumption DEF BeginClaim, Goto, CaptureTime
<1>2. ASSUME NEW c \in Calls, ClaimGranted(c) PROVE TypeOK'
  <2>1. [worker |-> Worker(c), expires |-> now[c] + Timeout] \in Row
    BY TimeoutAssumption DEF Row, Worker, Calls
  <2>2. Path(c) \in Paths
    BY DEF Path, Calls
  <2>3. claimed' \in [Paths -> SUBSET Row]
    BY <1>2, <2>1, <2>2 DEF ClaimGranted, Unexpired
  <2> QED
    BY <1>2, <2>3, EndType DEF ClaimGranted
<1>3. ASSUME NEW c \in Calls, ClaimConflict(c) PROVE TypeOK'
  <2>1. CASE End(c, "timeout")
    BY <1>3, <2>1, EndType DEF ClaimConflict
  <2>2. CASE Goto(c, "sleep") /\ UNCHANGED <<now, deadline>>
    BY <1>3, <2>2 DEF ClaimConflict, Goto
  <2> QED
    BY <1>3, <2>1, <2>2 DEF ClaimConflict
<1>4. ASSUME NEW c \in Calls, Retry(c) PROVE TypeOK'
  BY <1>4 DEF Retry, Goto, CaptureTime
<1>5. ASSUME NEW c \in Calls, BeginRelease(c) PROVE TypeOK'
  BY <1>5 DEF BeginRelease, Goto
<1>6. ASSUME NEW c \in Calls, ReleaseRead(c) PROVE TypeOK'
  <2>1. CASE Goto(c, "relwrite") /\ UNCHANGED <<now, deadline>>
    BY <1>6, <2>1 DEF ReleaseRead, Goto
  <2>2. CASE End(c, "forbidden")
    BY <1>6, <2>2, EndType DEF ReleaseRead
  <2> QED
    BY <1>6, <2>1, <2>2 DEF ReleaseRead
<1>7. ASSUME NEW c \in Calls, ReleaseWrite(c) PROVE TypeOK'
  <2>1. claimed' \in [Paths -> SUBSET Row]
    BY <1>7 DEF ReleaseWrite
  <2> QED
    BY <1>7, <2>1, EndType DEF ReleaseWrite
<1>8. ASSUME NEW c \in Calls, BeginWrite(c) PROVE TypeOK'
  BY <1>8 DEF BeginWrite, Goto, CaptureTime
<1>9. ASSUME NEW c \in Calls, WriteCheck(c) PROVE TypeOK'
  <2>1. CASE Goto(c, "checked") /\ UNCHANGED <<now, deadline>>
    BY <1>9, <2>1 DEF WriteCheck, Goto
  <2>2. CASE \E o \in {"forbidden", "file_locked"} : End(c, o)
    BY <1>9, <2>2, EndType DEF WriteCheck
  <2> QED
    BY <1>9, <2>1, <2>2 DEF WriteCheck
<1>10. ASSUME NEW c \in Calls, WriteFile(c) PROVE TypeOK'
  BY <1>10, EndType DEF WriteFile
<1>11. CASE Tick
  BY <1>11 DEF Tick
<1>12. CASE UNCHANGED vars
  BY <1>12 DEF vars
<1> QED
  BY <1>1, <1>2, <1>3, <1>4, <1>5, <1>6, <1>7, <1>8, <1>9, <1>10, <1>11, <1>12 DEF Next

\* The rows of a path stay as they are, some go, or the only one is new.
LEMMA StepClaimed ==
  ASSUME TypeOK, [Next]_vars, NEW p \in Paths
  PROVE  \/ claimed'[p] \subseteq claimed[p]
         \/ \E r : claimed'[p] = {r}
<1>1. ASSUME NEW c \in Calls, ClaimGranted(c)
      PROVE  claimed'[p] \subseteq claimed[p] \/ \E r : claimed'[p] = {r}
  BY <1>1 DEF ClaimGranted, TypeOK
<1>2. ASSUME NEW c \in Calls, ReleaseWrite(c) PROVE claimed'[p] \subseteq claimed[p]
  BY <1>2 DEF ReleaseWrite, TypeOK
<1>3. CASE claimed' = claimed
  BY <1>3
<1> QED
  BY <1>1, <1>2, <1>3 DEF Next, vars, BeginClaim, ClaimConflict, Retry, BeginRelease,
     ReleaseRead, BeginWrite, WriteCheck, WriteFile, Tick

\* Every step preserves the uniqueness of the claimed row.
LEMMA StepOneClaim == TypeOK /\ OneClaim /\ [Next]_vars => OneClaim'
  BY StepClaimed DEF OneClaim

\* Every step keeps the captured timestamps in the past.
LEMMA StepNowPast == TypeOK /\ NowPast /\ [Next]_vars => NowPast'
<1> SUFFICES ASSUME TypeOK, NowPast, [Next]_vars PROVE NowPast'
  OBVIOUS
<1>1. ASSUME NEW c \in Calls, now' = now \/ CaptureTime(c) \/ (\E o \in Ended : End(c, o)),
             clock' = clock
      PROVE  NowPast'
  BY <1>1 DEF CaptureTime, End, TypeOK, NowPast
<1>2. ASSUME NEW c \in Calls,
             \/ BeginClaim(c) \/ ClaimGranted(c) \/ ClaimConflict(c) \/ Retry(c)
             \/ BeginRelease(c) \/ ReleaseRead(c) \/ ReleaseWrite(c)
             \/ BeginWrite(c) \/ WriteCheck(c) \/ WriteFile(c)
      PROVE  NowPast'
  <2>1. clock' = clock
    BY <1>2 DEF BeginClaim, ClaimGranted, ClaimConflict, Retry, BeginRelease, ReleaseRead,
       ReleaseWrite, BeginWrite, WriteCheck, WriteFile
  <2>2. now' = now \/ CaptureTime(c) \/ (\E o \in Ended : End(c, o))
    BY <1>2 DEF BeginClaim, ClaimGranted, ClaimConflict, Retry, BeginRelease, ReleaseRead,
       ReleaseWrite, BeginWrite, WriteCheck, WriteFile, Ended
  <2> QED
    BY <1>1, <2>1, <2>2
<1>3. CASE Tick
  BY <1>3 DEF Tick, TypeOK, NowPast
<1>4. CASE UNCHANGED vars
  BY <1>4 DEF vars, NowPast
<1> QED
  BY <1>2, <1>3, <1>4 DEF Next

\* With a free lane, every step keeps the timestamp of a transaction current: time
\* does not pass while a call is about to insert.
LEMMA StepNowCurrent == TypeOK /\ NowCurrent /\ [Next]_vars => NowCurrent'
<1> SUFFICES ASSUME TypeOK, NowCurrent, [Next]_vars, ~LaneBusy PROVE NowCurrent'
  BY DEF NowCurrent
<1>1. ASSUME NEW c \in Calls, BeginClaim(c) \/ Retry(c) \/ BeginWrite(c) PROVE NowCurrent'
  BY <1>1 DEF BeginClaim, Retry, BeginWrite, Goto, CaptureTime, TypeOK, NowCurrent
<1>2. ASSUME NEW c \in Calls, NEW o \in Ended, End(c, o), clock' = clock PROVE NowCurrent'
  BY <1>2, EndType DEF NowCurrent, Ended
<1>3. ASSUME NEW c \in Calls, NEW place \in {"sleep", "relread", "relwrite", "checked"},
             Goto(c, place), now' = now, clock' = clock
      PROVE  NowCurrent'
  BY <1>3 DEF Goto, TypeOK, NowCurrent
<1>4. CASE Tick
  BY <1>4 DEF Tick, NowCurrent
<1>5. CASE UNCHANGED vars
  BY <1>5 DEF vars, NowCurrent
<1>6. ASSUME NEW c \in Calls,
             \/ ClaimGranted(c) \/ ClaimConflict(c) \/ BeginRelease(c) \/ ReleaseRead(c)
             \/ ReleaseWrite(c) \/ WriteCheck(c) \/ WriteFile(c)
      PROVE  NowCurrent'
  BY <1>2, <1>3, <1>6 DEF ClaimGranted, ClaimConflict, BeginRelease, ReleaseRead,
     ReleaseWrite, WriteCheck, WriteFile, Ended
<1> QED
  BY <1>1, <1>4, <1>5, <1>6 DEF Next

\* The invariant is inductive.
LEMMA StepInv == IInv /\ [Next]_vars => IInv'
  BY StepType, StepOneClaim, StepNowPast, StepNowCurrent DEF IInv

\* Every behaviour satisfies the inductive invariant.
THEOREM Invariance == Spec => []IInv
<1>1. Init => IInv
  BY InitInv
<1>2. IInv /\ [Next]_vars => IInv'
  BY StepInv
<1> QED
  BY <1>1, <1>2, PTL DEF Spec

\* Every variable of the lock table and of its coroutines always has its type.
THEOREM TypeCorrect == Spec => []TypeOK
<1>1. IInv => TypeOK
  BY DEF IInv
<1> QED
  BY <1>1, Invariance, PTL

\* At most one claimed row per path, whatever the workers, timeouts and waits.
THEOREM Exclusion == Spec => []OneClaim
<1>1. IInv => OneClaim
  BY DEF IInv
<1> QED
  BY <1>1, Invariance, PTL

\* A claimed row goes because its lease ran out, or because a release_file of its
\* own worker removes it.
THEOREM LeasesStable == Spec => LeaseStable
<1>1. IInv /\ [Next]_vars => [LeaseStep]_vars
  <2> SUFFICES ASSUME IInv, [Next]_vars, NEW p \in Paths, NEW r \in claimed[p] \ claimed'[p]
               PROVE  \/ r.expires < clock
                      \/ \E c \in Calls : /\ Path(c) = p /\ Worker(c) = r.worker
                                          /\ pc[c] = "relwrite" /\ pc'[c] = "released"
    BY DEF LeaseStep
  <2> USE DEF IInv, TypeOK
  <2>1. ASSUME NEW c \in Calls, ClaimGranted(c) PROVE r.expires < clock
    <3>1. Path(c) = p
      BY <2>1 DEF ClaimGranted
    <3>2. r \in Row /\ r.expires \in Nat /\ now[c] \in Nat /\ clock \in Nat /\ now[c] <= clock
      BY DEF Row, NowPast
    <3>3. ~(r.expires >= now[c])
      BY <2>1, <3>1 DEF ClaimGranted, Unexpired
    <3> QED
      BY <3>2, <3>3
  <2>2. ASSUME NEW c \in Calls, ReleaseWrite(c)
        PROVE  Path(c) = p /\ Worker(c) = r.worker /\ pc[c] = "relwrite" /\ pc'[c] = "released"
    <3>1. Path(c) = p /\ Worker(c) = r.worker
      BY <2>2 DEF ReleaseWrite
    <3> QED
      BY <2>2, <3>1 DEF ReleaseWrite, End, Goto
  <2>3. CASE claimed' = claimed
    BY <2>3
  <2> QED
    BY <2>1, <2>2, <2>3 DEF Next, vars, BeginClaim, ClaimConflict, Retry, BeginRelease,
       ReleaseRead, BeginWrite, WriteCheck, WriteFile, Tick
<1> QED
  BY <1>1, Invariance, PTL DEF Spec, LeaseStable

\* With a free writer lane, a claim_file that gives up does so against a lease
\* that lasts at least until its deadline.
THEOREM TimeoutsJustified == ~LaneBusy => (Spec => TimeoutJustified)
<1> SUFFICES ASSUME ~LaneBusy PROVE Spec => TimeoutJustified
  OBVIOUS
<1>1. IInv /\ [Next]_vars => [TimeoutStep]_vars
  <2> SUFFICES ASSUME IInv, [Next]_vars, NEW c \in Calls,
                      pc[c] = "insert", pc'[c] = "timeout"
               PROVE  \E r \in claimed[Path(c)] : r.expires >= deadline[c]
    BY DEF TimeoutStep
  <2> USE DEF IInv, TypeOK
  <2>1. ClaimConflict(c) /\ clock >= deadline[c]
    BY DEF Next, vars, BeginClaim, ClaimGranted, ClaimConflict, Retry, BeginRelease,
       ReleaseRead, ReleaseWrite, BeginWrite, WriteCheck, WriteFile, Tick, End, Goto
  <2>2. PICK r \in claimed[Path(c)] : r.expires >= now[c]
    BY <2>1 DEF ClaimConflict, Unexpired
  <2>3. now[c] = clock
    BY DEF NowCurrent
  <2>4. r.expires \in Nat /\ deadline[c] \in Nat /\ clock \in Nat
    BY DEF Row, Path, Calls
  <2> QED
    BY <2>1, <2>2, <2>3, <2>4
<1> QED
  BY <1>1, Invariance, PTL DEF Spec, TimeoutJustified

-----------------------------------------------------------------------------
(* Writes of two workers *)

\* A worker has one call in flight on a path: it does not release what it is writing.
OneSlot == \A s, t \in Slots : s = t

\* A call that may write has the row of its path, or the clock has gone on since it
\* captured the time it was judged by.
Covered ==
  \A c \in Calls : pc[c] = "checked" /\ now[c] = clock =>
    \E r \in claimed[Path(c)] : r.worker = Worker(c) /\ r.expires > now[c]

\* SPEC.md says that two workers cannot write the same file simultaneously.  They can
\* (NoOverlappingWrites), but not at the time of both their checks.
OverlapLate ==
  \A c, d \in Calls :
    /\ pc[c] = "checked" /\ pc[d] = "checked"
    /\ Path(c) = Path(d) /\ Worker(c) # Worker(d)
    => now[c] < clock \/ now[d] < clock

\* A call is known by its worker and its path.
LEMMA OneCall ==
  ASSUME OneSlot, NEW c \in Calls, NEW d \in Calls, Worker(c) = Worker(d), Path(c) = Path(d)
  PROVE  c = d
  BY DEF OneSlot, Calls, Worker, Path

LEMMA StepCovered == OneSlot /\ IInv /\ Covered /\ [Next]_vars => Covered'
<1> SUFFICES ASSUME OneSlot, IInv, Covered, [Next]_vars, NEW c \in Calls,
                    pc'[c] = "checked", now'[c] = clock'
             PROVE  \E r \in claimed'[Path(c)] : r.worker = Worker(c) /\ r.expires > now'[c]
  BY DEF Covered
<1> USE DEF IInv, TypeOK
<1>1. now[c] \in Nat /\ clock \in Nat /\ now[c] <= clock /\ Path(c) \in Paths
  BY DEF NowPast, Calls, Path
<1>2. CASE WriteCheck(c)
  <2>1. PICK r \in claimed[Path(c)] : r.expires > now[c] /\ r.worker = Worker(c)
    BY <1>2 DEF WriteCheck, End, Goto
  <2>2. claimed' = claimed /\ now'[c] = now[c]
    BY <1>2 DEF WriteCheck, End, Goto
  <2> QED
    BY <2>1, <2>2
<1>3. ASSUME pc[c] = "checked", now'[c] = now[c], clock' = clock
      PROVE  \E r \in claimed[Path(c)] : r.worker = Worker(c) /\ r.expires > now'[c]
  BY <1>3 DEF Covered
<1>4. ASSUME NEW d \in Calls \ {c},
             \/ BeginClaim(d) \/ ClaimGranted(d) \/ ClaimConflict(d) \/ Retry(d)
             \/ BeginRelease(d) \/ ReleaseRead(d) \/ ReleaseWrite(d)
             \/ BeginWrite(d) \/ WriteCheck(d) \/ WriteFile(d)
      PROVE  pc[c] = "checked" /\ now'[c] = now[c] /\ clock' = clock
  BY <1>4 DEF BeginClaim, ClaimGranted, ClaimConflict, Retry, BeginRelease, ReleaseRead,
     ReleaseWrite, BeginWrite, WriteCheck, WriteFile, End, Goto, CaptureTime
<1>5. ASSUME NEW d \in Calls \ {c}, ClaimGranted(d)
      PROVE  \E r \in claimed'[Path(c)] : r.worker = Worker(c) /\ r.expires > now'[c]
  <2>1. PICK r \in claimed[Path(c)] : r.worker = Worker(c) /\ r.expires > now'[c]
    BY <1>3, <1>4, <1>5
  <2>2. r \in Row /\ r.expires \in Nat /\ now[d] \in Nat /\ now[d] <= clock
    BY <1>1 DEF Row, NowPast
  <2>3. r.expires >= now[d]
    BY <1>1, <1>4, <1>5, <2>1, <2>2
  <2>4. Path(d) # Path(c)
    BY <1>5, <2>1, <2>3 DEF ClaimGranted, Unexpired
  <2> QED
    BY <1>5, <2>1, <2>4 DEF ClaimGranted
<1>6. ASSUME NEW d \in Calls \ {c}, ReleaseWrite(d)
      PROVE  \E r \in claimed'[Path(c)] : r.worker = Worker(c) /\ r.expires > now'[c]
  <2>1. PICK r \in claimed[Path(c)] : r.worker = Worker(c) /\ r.expires > now'[c]
    BY <1>3, <1>4, <1>6
  <2>2. Path(d) # Path(c) \/ Worker(d) # Worker(c)
    BY OneCall
  <2> QED
    BY <1>1, <1>6, <2>1, <2>2 DEF ReleaseWrite
<1>7. ASSUME NEW d \in Calls \ {c},
             \/ BeginClaim(d) \/ ClaimConflict(d) \/ Retry(d) \/ BeginRelease(d) \/ ReleaseRead(d)
             \/ BeginWrite(d) \/ WriteCheck(d) \/ WriteFile(d)
      PROVE  \E r \in claimed'[Path(c)] : r.worker = Worker(c) /\ r.expires > now'[c]
  <2>1. claimed' = claimed
    BY <1>7 DEF BeginClaim, ClaimConflict, Retry, BeginRelease, ReleaseRead, BeginWrite,
       WriteCheck, WriteFile
  <2> QED
    BY <1>3, <1>4, <1>7, <2>1
<1>8. CASE Tick
  BY <1>1, <1>8 DEF Tick
<1>9. CASE UNCHANGED vars
  BY <1>3, <1>9 DEF vars
<1>10. ~(BeginClaim(c) \/ ClaimGranted(c) \/ ClaimConflict(c) \/ Retry(c) \/ BeginRelease(c)
        \/ ReleaseRead(c) \/ ReleaseWrite(c) \/ BeginWrite(c) \/ WriteFile(c))
  BY DEF BeginClaim, ClaimGranted, ClaimConflict, Retry, BeginRelease, ReleaseRead,
     ReleaseWrite, BeginWrite, WriteFile, End, Goto
<1> QED
  BY <1>2, <1>5, <1>6, <1>7, <1>8, <1>9, <1>10 DEF Next

\* Two workers that write the same file have not both been judged at this time: the
\* clock has gone on since one of them captured its own, and with it a lease may have
\* run out, which is the only way they come to overlap.
THEOREM OverlapsAreLate == OneSlot => (Spec => []OverlapLate)
<1> SUFFICES ASSUME OneSlot PROVE Spec => []OverlapLate
  OBVIOUS
<1>1. Init => Covered
  BY DEF Init, Covered
<1>2. IInv /\ Covered /\ [Next]_vars => Covered'
  BY StepCovered
<1>3. IInv /\ Covered => OverlapLate
  <2> SUFFICES ASSUME IInv, Covered, NEW c \in Calls, NEW d \in Calls,
                      pc[c] = "checked", pc[d] = "checked", Path(c) = Path(d),
                      ~(now[c] < clock \/ now[d] < clock)
               PROVE  Worker(c) = Worker(d)
    BY DEF OverlapLate
  <2>1. now[c] = clock /\ now[d] = clock
    <3>1. /\ now[c] \in Nat /\ now[d] \in Nat /\ clock \in Nat
          /\ now[c] <= clock /\ now[d] <= clock
      BY DEF IInv, TypeOK, NowPast
    <3> QED
      BY <3>1
  <2>5. Path(c) \in Paths
    BY DEF Calls, Path
  <2>2. PICK r \in claimed[Path(c)] : r.worker = Worker(c)
    BY <2>1 DEF Covered
  <2>3. PICK s \in claimed[Path(c)] : s.worker = Worker(d)
    BY <2>1 DEF Covered
  <2>4. r = s
    BY <2>2, <2>3, <2>5 DEF IInv, OneClaim
  <2> QED
    BY <2>2, <2>3, <2>4
<1> QED
  BY <1>1, <1>2, <1>3, Invariance, PTL DEF Spec

-----------------------------------------------------------------------------
(* A claim is finite *)

\* How far a claim is from its end that captured the time n last and gives up at e.
Way(at, n, e) ==
  CASE at = "insert" /\ n < e -> 2 * (e - n) + 1
    [] at = "insert" /\ ~(n < e) -> 1
    [] at = "sleep" -> 2 * (e - n)
    [] OTHER -> 0

StepsLeft(c) == Way(pc[c], now[c], deadline[c])

ClaimStep(c) == ClaimGranted(c) \/ ClaimConflict(c) \/ Retry(c)

\* A claim waits for timeout_s at most, and sleeps only before its deadline.
Patience ==
  \A c \in Calls :
    /\ pc[c] \in {"insert", "sleep"} => deadline[c] <= now[c] + Timeout
    /\ pc[c] = "sleep" => now[c] < deadline[c]

LEMMA StepPatience == IInv /\ Patience /\ [Next]_vars => Patience'
<1> SUFFICES ASSUME IInv, Patience, [Next]_vars, NEW c \in Calls
             PROVE  /\ pc'[c] \in {"insert", "sleep"} => deadline'[c] <= now'[c] + Timeout
                    /\ pc'[c] = "sleep" => now'[c] < deadline'[c]
  BY DEF Patience
<1> USE DEF IInv, TypeOK
<1>1. /\ now[c] \in Nat /\ deadline[c] \in Nat /\ clock \in Nat /\ now[c] <= clock /\ Timeout \in Nat
      /\ pc[c] \in {"insert", "sleep"} => deadline[c] <= now[c] + Timeout
      /\ pc[c] = "sleep" => now[c] < deadline[c]
  BY TimeoutAssumption DEF NowPast, Patience
<1>2. CASE BeginClaim(c)
  BY <1>1, <1>2 DEF BeginClaim, Goto, CaptureTime
<1>3. CASE ClaimConflict(c)
  BY <1>1, <1>3 DEF ClaimConflict, End, Goto
<1>4. CASE Retry(c)
  BY <1>1, <1>4 DEF Retry, Goto, CaptureTime
<1>5. CASE \/ ClaimGranted(c) \/ BeginRelease(c) \/ ReleaseRead(c) \/ ReleaseWrite(c)
           \/ BeginWrite(c) \/ WriteCheck(c) \/ WriteFile(c)
  BY <1>5 DEF ClaimGranted, BeginRelease, ReleaseRead, ReleaseWrite, BeginWrite, WriteCheck,
     WriteFile, End, Goto
<1>6. ASSUME NEW d \in Calls \ {c},
             \/ BeginClaim(d) \/ ClaimGranted(d) \/ ClaimConflict(d) \/ Retry(d)
             \/ BeginRelease(d) \/ ReleaseRead(d) \/ ReleaseWrite(d)
             \/ BeginWrite(d) \/ WriteCheck(d) \/ WriteFile(d)
      PROVE  pc'[c] = pc[c] /\ now'[c] = now[c] /\ deadline'[c] = deadline[c]
  BY <1>6 DEF BeginClaim, ClaimGranted, ClaimConflict, Retry, BeginRelease, ReleaseRead,
     ReleaseWrite, BeginWrite, WriteCheck, WriteFile, End, Goto, CaptureTime
<1>7. CASE Tick \/ UNCHANGED vars
  BY <1>1, <1>7 DEF Tick, vars
<1> QED
  BY <1>1, <1>2, <1>3, <1>4, <1>5, <1>6, <1>7 DEF Next

LEMMA WayBounded ==
  ASSUME NEW at, NEW n \in Nat, NEW e \in Nat,
         at \in {"insert", "sleep"} => e <= n + Timeout, at = "sleep" => n < e
  PROVE  /\ Way(at, n, e) \in 0..2 * Timeout + 1
         /\ Way(at, n, e) = 0 <=> at \notin {"insert", "sleep"}
<1>1. Timeout \in Nat
  BY TimeoutAssumption
<1>2. CASE at \in {"insert", "sleep"}
  <2>1. PICK b \in {"insert", "sleep"} : b = at
    BY <1>2
  <2>2. Way(b, n, e) \in 0..2 * Timeout + 1 /\ Way(b, n, e) # 0
    BY <1>1, <2>1 DEF Way
  <2> QED
    BY <1>2, <2>1, <2>2
<1>3. CASE at \notin {"insert", "sleep"}
  BY <1>1, <1>3 DEF Way
<1> QED
  BY <1>2, <1>3

\* A claim_file comes to its end after at most two steps per tick of its timeout and one
\* more, whoever claims, releases and writes meanwhile: each of its attempts and sleeps
\* leaves it fewer, and nothing gives it more.
THEOREM ClaimIsFinite ==
  Spec => \A c \in Calls :
    /\ [](/\ StepsLeft(c) \in 0..2 * Timeout + 1
          /\ StepsLeft(c) = 0 <=> pc[c] \notin {"insert", "sleep"})
    /\ [][/\ ClaimStep(c) => StepsLeft(c)' < StepsLeft(c)
          /\ ~BeginClaim(c) => StepsLeft(c)' <= StepsLeft(c)]_vars
<1> SUFFICES ASSUME NEW c \in Calls
             PROVE  Spec =>
    /\ [](/\ StepsLeft(c) \in 0..2 * Timeout + 1
          /\ StepsLeft(c) = 0 <=> pc[c] \notin {"insert", "sleep"})
    /\ [][/\ ClaimStep(c) => StepsLeft(c)' < StepsLeft(c)
          /\ ~BeginClaim(c) => StepsLeft(c)' <= StepsLeft(c)]_vars
  OBVIOUS
<1>1. Init => Patience
  BY DEF Init, Patience
<1>2. IInv /\ Patience /\ [Next]_vars => Patience'
  BY StepPatience
<1>3. IInv /\ Patience =>
        /\ StepsLeft(c) \in 0..2 * Timeout + 1
        /\ StepsLeft(c) = 0 <=> pc[c] \notin {"insert", "sleep"}
  <2> SUFFICES ASSUME IInv, Patience
               PROVE  /\ StepsLeft(c) \in 0..2 * Timeout + 1
                      /\ StepsLeft(c) = 0 <=> pc[c] \notin {"insert", "sleep"}
    OBVIOUS
  <2>1. now[c] \in Nat /\ deadline[c] \in Nat
    BY DEF IInv, TypeOK
  <2> QED
    BY <2>1, WayBounded DEF Patience, StepsLeft
<1>4. IInv /\ Patience /\ [Next]_vars =>
        [/\ ClaimStep(c) => StepsLeft(c)' < StepsLeft(c)
         /\ ~BeginClaim(c) => StepsLeft(c)' <= StepsLeft(c)]_vars
  <2> SUFFICES ASSUME IInv, Patience, [Next]_vars
               PROVE  /\ ClaimStep(c) => StepsLeft(c)' < StepsLeft(c)
                      /\ ~BeginClaim(c) => StepsLeft(c)' <= StepsLeft(c)
    OBVIOUS
  <2> USE DEF IInv, TypeOK
  <2>1. PICK n \in Nat, e \in Nat, t \in Nat : n = now[c] /\ e = deadline[c] /\ t = clock /\ n <= t
    BY DEF NowPast
  <2>2. StepsLeft(c) \in Nat /\ StepsLeft(c) = Way(pc[c], n, e)
    BY <1>3, <2>1, TimeoutAssumption DEF StepsLeft
  <2>3. ASSUME ~BeginClaim(c), pc'[c] \notin {"insert", "sleep"}
        PROVE  StepsLeft(c)' = 0
    BY <2>3 DEF StepsLeft, Way
  <2>4. CASE ClaimGranted(c)
    <3>1. pc'[c] = "granted" /\ pc[c] = "insert"
      BY <2>4 DEF ClaimGranted, End, Goto
    <3> QED
      BY <1>3, <2>2, <3>1 DEF StepsLeft, Way
  <2>5. CASE ClaimConflict(c)
    <3>1. pc[c] = "insert"
      BY <2>5 DEF ClaimConflict
    <3>2. CASE pc'[c] = "timeout"
      BY <1>3, <2>2, <3>1, <3>2 DEF StepsLeft, Way
    <3>3. CASE pc'[c] # "timeout"
      <4>1. t < e /\ pc'[c] = "sleep" /\ now'[c] = n /\ deadline'[c] = e
        BY <2>1, <2>5, <3>3 DEF ClaimConflict, End, Goto
      <4>2. /\ Way("sleep", n, e) < Way("insert", n, e)
            /\ Way("sleep", n, e) <= Way("insert", n, e)
        BY <2>1, <4>1 DEF Way
      <4>3. StepsLeft(c)' = Way("sleep", n, e) /\ StepsLeft(c) = Way("insert", n, e)
        BY <2>2, <3>1, <4>1, Zenon DEF StepsLeft
      <4> QED
        BY <4>2, <4>3
    <3> QED
      BY <3>2, <3>3
  <2>6. CASE Retry(c)
    <3>1. /\ pc[c] = "sleep" /\ n < t /\ n < e
          /\ pc'[c] = "insert" /\ now'[c] = t /\ deadline'[c] = e
      BY <2>1, <2>6 DEF Retry, Goto, CaptureTime, Patience
    <3>2. /\ Way("insert", t, e) < Way("sleep", n, e)
          /\ Way("insert", t, e) <= Way("sleep", n, e)
      BY <3>1 DEF Way
    <3>3. StepsLeft(c)' = Way("insert", t, e) /\ StepsLeft(c) = Way("sleep", n, e)
      BY <2>2, <3>1, Zenon DEF StepsLeft
    <3> QED
      BY <3>2, <3>3
  <2>7. CASE ~BeginClaim(c) /\ ~ClaimStep(c)
    <3>1. \/ pc'[c] = pc[c] /\ now'[c] = now[c] /\ deadline'[c] = deadline[c]
          \/ pc'[c] \notin {"insert", "sleep"}
      <4>1. ASSUME NEW d \in Calls \ {c},
                   \/ BeginClaim(d) \/ ClaimGranted(d) \/ ClaimConflict(d) \/ Retry(d)
                   \/ BeginRelease(d) \/ ReleaseRead(d) \/ ReleaseWrite(d)
                   \/ BeginWrite(d) \/ WriteCheck(d) \/ WriteFile(d)
            PROVE  pc'[c] = pc[c] /\ now'[c] = now[c] /\ deadline'[c] = deadline[c]
        BY <4>1 DEF BeginClaim, ClaimGranted, ClaimConflict, Retry, BeginRelease, ReleaseRead,
           ReleaseWrite, BeginWrite, WriteCheck, WriteFile, End, Goto, CaptureTime
      <4>2. CASE \/ BeginRelease(c) \/ ReleaseRead(c) \/ ReleaseWrite(c)
                 \/ BeginWrite(c) \/ WriteCheck(c) \/ WriteFile(c)
        BY <4>2 DEF BeginRelease, ReleaseRead, ReleaseWrite, BeginWrite, WriteCheck, WriteFile,
           End, Goto
      <4>3. CASE Tick \/ UNCHANGED vars
        BY <4>3 DEF Tick, vars
      <4> QED
        BY <2>7, <4>1, <4>2, <4>3 DEF Next, ClaimStep
    <3>2. CASE pc'[c] = pc[c] /\ now'[c] = now[c] /\ deadline'[c] = deadline[c]
      <4>1. StepsLeft(c)' = StepsLeft(c)
        BY <3>2 DEF StepsLeft
      <4> QED
        BY <2>2, <2>7, <4>1
    <3>3. CASE pc'[c] \notin {"insert", "sleep"}
      BY <2>2, <2>3, <2>7, <3>3
    <3> QED
      BY <3>1, <3>2, <3>3
  <2>8. CASE BeginClaim(c)
    <3>1. ~ClaimStep(c)
      BY <2>8 DEF BeginClaim, Free, Ended, ClaimStep, ClaimGranted, ClaimConflict, Retry
    <3> QED
      BY <2>8, <3>1
  <2> QED
    BY <2>4, <2>5, <2>6, <2>7, <2>8 DEF ClaimStep
<1> QED
  BY <1>1, <1>2, <1>3, <1>4, Invariance, PTL DEF Spec
=============================================================================
