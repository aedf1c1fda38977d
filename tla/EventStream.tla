---------------------------- MODULE EventStream ----------------------------
(***************************************************************************)
(* The events of one run: Engine.emit and Engine.replay of                 *)
(* core/nexussy/pipeline/engine.py, the generator of the stream routes in  *)
(* core/nexussy/api/server.py, and the reconnecting readers of the TUIs.   *)
(*                                                                         *)
(* A step ends where a coroutine can lose the event loop: at a read of the *)
(* database, at a yield of the generator, and, when the writer lane may be *)
(* busy (LaneBusy), at the persistence of an event.  With a free lane an   *)
(* emit runs from beginning to end without giving up the loop.             *)
(* Connections carry the number of the client's attempt, so that the queue *)
(* of an abandoned connection is a queue of its own.                       *)
(***************************************************************************)
EXTENDS Naturals, Sequences, Functions

CONSTANTS
  Emitters,      \* coroutines that emit events of the run
  Clients,       \* readers of the stream
  MaxConns,      \* bound: how often a client connects
  QMax,          \* sse.client_queue_max_events
  ReplayLimit,   \* default limit of Engine.replay
  MaxLog,        \* bound: no event is due once the log is this long
  Heartbeats,    \* whether sse.heartbeat_interval_s is short enough to matter
  LaneBusy       \* whether a write may wait for the writer lane

ASSUME BoundsAssumption ==
  /\ MaxConns \in Nat /\ MaxLog \in Nat
  /\ QMax \in Nat \ {0} /\ ReplayLimit \in Nat \ {0}
ASSUME SwitchAssumption == Heartbeats \in BOOLEAN /\ LaneBusy \in BOOLEAN

VARIABLES
  log,         \* table events: log[n] is the type of the event with sequence n
  registered,  \* engine.queues[run_id], as the set of their connections
  queue,       \* queue[k]: the asyncio.Queue of connection k, of sequence numbers
  emits,       \* emit calls suspended while they persist a sse_client_slow event
  cut,         \* events whose emit was cancelled while suspended (history)
  phase,       \* phase[k]: where the generator of connection k stands
  batch,       \* batch[k]: the replayed rows, or the heartbeat, still to yield
  since,       \* since[k]: length of the log when k was registered (history)
  attempts,    \* attempts[c]: how many connections client c has opened
  got          \* got[c]: the sequence numbers client c has received, in order

vars == <<log, registered, queue, emits, cut, phase, batch, since, attempts, got>>

Kinds == {"event", "done", "heartbeat", "slow"}
Conns == Clients \X (1 .. MaxConns)
Client(k) == k[1]
Sources == Emitters \cup Conns

Emit == [src : Sources, seq : Nat, full : Conns, todo : SUBSET Conns]

Init ==
  /\ log = <<>>
  /\ registered = {}
  /\ queue = [k \in Conns |-> <<>>]
  /\ emits = {}
  /\ cut = {}
  /\ phase = [k \in Conns |-> "unused"]
  /\ batch = [k \in Conns |-> <<>>]
  /\ since = [k \in Conns |-> 0]
  /\ attempts = [c \in Clients |-> 0]
  /\ got = [c \in Clients |-> <<>>]

\* The Last-Event-ID a client sends: the id of the event it received last.
LastId(c) == IF got[c] = <<>> THEN 0 ELSE got[c][Len(got[c])]

Received(c, kind) == \E n \in Range(got[c]) : log[n] = kind

Receive(c, n) == got' = [got EXCEPT ![c] = Append(@, n)]

\* With a free lane nobody else runs while an emit is under way.
LoopFree == LaneBusy \/ emits = {}

-----------------------------------------------------------------------------
(* Engine.emit *)

\* put_nowait of event n on the queues of K.
Offer(q, n, K) == [k \in Conns |-> IF k \in K THEN Append(q[k], n) ELSE q[k]]

\* The loop over the queues K, in any order since they are a set: it reaches
\* the end, or suspends at the first full queue it meets.
Broadcast(src, n, K, q, rest) ==
  LET full == {k \in K : Len(q[k]) >= QMax}
  IN \/ /\ full = {}
        /\ queue' = Offer(q, n, K)
        /\ emits' = rest
     \/ \E k \in full, put \in SUBSET (K \ full) :
          /\ queue' = Offer(q, n, put)
          /\ emits' = rest \cup
               {[src |-> src, seq |-> n, full |-> k, todo |-> K \ (put \cup {k})]}

Emitting(src) == \E m \in emits : m.src = src

\* The event is persisted, then broadcast to the queues registered at that time.
Publish(src, kind) ==
  /\ ~Emitting(src)
  /\ log' = Append(log, kind)
  /\ Broadcast(src, Len(log'), registered, queue, emits)
  /\ UNCHANGED <<registered, cut, since, attempts, got>>

EmitEvent(src) ==
  /\ LoopFree
  /\ Len(log) < MaxLog
  /\ \/ Publish(src, "event")
     \/ "done" \notin Range(log) /\ Publish(src, "done")
  /\ UNCHANGED <<phase, batch>>

\* Mutant: the oldest event stays in the full queue.
EmitSlowKeepsOldest(m) ==
  /\ log' = Append(log, "slow")
  /\ Broadcast(m.src, m.seq, m.todo, Offer(queue, Len(log'), {m.full}), emits \ {m})
  /\ registered' = registered \ {m.full}
  /\ UNCHANGED <<cut, phase, batch, since, attempts, got>>

\* Mutant: the loop over the queues is left after the first full one.
EmitSlowBreaks(m) ==
  /\ log' = Append(log, "slow")
  /\ queue' = [queue EXCEPT ![m.full] = Append(IF @ = <<>> THEN @ ELSE Tail(@), Len(log'))]
  /\ emits' = emits \ {m}
  /\ registered' = registered \ {m.full}
  /\ UNCHANGED <<cut, phase, batch, since, attempts, got>>

\* Mutant: the notice is put before there is room for it.
EmitSlowPutFirst(m) ==
  /\ log' = Append(log, "slow")
  /\ LET q == queue[m.full]
         room == IF Len(q) < QMax THEN Append(q, Len(log')) ELSE q
     IN Broadcast(m.src, m.seq, m.todo, [queue EXCEPT ![m.full] = Tail(room)], emits \ {m})
  /\ registered' = registered \ {m.full}
  /\ UNCHANGED <<cut, phase, batch, since, attempts, got>>

\* The sse_client_slow event is persisted; it replaces the oldest event of the
\* full queue, which is removed from the subscribers; the loop goes on.
EmitSlow(m) ==
  /\ log' = Append(log, "slow")
  /\ LET oldest == IF queue[m.full] = <<>> THEN <<>> ELSE Tail(queue[m.full])
         notice == IF Len(oldest) >= QMax THEN oldest ELSE Append(oldest, Len(log'))
     IN Broadcast(m.src, m.seq, m.todo, [queue EXCEPT ![m.full] = notice], emits \ {m})
  /\ registered' = registered \ {m.full}
  /\ UNCHANGED <<cut, phase, batch, since, attempts, got>>

\* The task of an emitter is cancelled (POST /pipeline/cancel) while its emit is
\* suspended: the queues the loop had still to visit do not get the event.
CancelEmit(m) ==
  /\ m.src \in Emitters
  /\ emits' = emits \ {m}
  /\ cut' = cut \cup {m.seq}
  /\ UNCHANGED <<log, registered, queue, phase, batch, since, attempts, got>>

-----------------------------------------------------------------------------
(* The generator of a stream route *)

\* Mutant: WHERE sequence >= Last-Event-ID.
ReplayInclusive(c) ==
  LET first == IF LastId(c) = 0 THEN 1 ELSE LastId(c)
      missed == Len(log) + 1 - first
  IN [i \in 1 .. (IF missed < ReplayLimit THEN missed ELSE ReplayLimit) |-> first + i - 1]

\* SELECT ... WHERE sequence > Last-Event-ID ORDER BY sequence LIMIT limit.
Replay(c) ==
  LET missed == Len(log) - LastId(c)
  IN [i \in 1 .. (IF missed < ReplayLimit THEN missed ELSE ReplayLimit) |-> LastId(c) + i]

\* A client without a connection connects, and the events it missed are read.
\* The done event was its last.
Connect(c) ==
  LET k == <<c, attempts[c] + 1>>
  IN /\ LoopFree
     /\ attempts[c] < MaxConns
     /\ attempts[c] > 0 => phase[<<c, attempts[c]>>] = "closed"
     /\ ~Received(c, "done")
     /\ attempts' = [attempts EXCEPT ![c] = @ + 1]
     /\ phase' = [phase EXCEPT ![k] = "replay"]
     /\ batch' = [batch EXCEPT ![k] = Replay(c)]
     /\ UNCHANGED <<log, registered, queue, emits, cut, since, got>>

YieldReplay(k) ==
  /\ LoopFree
  /\ phase[k] = "replay" /\ batch[k] # <<>>
  /\ Receive(Client(k), Head(batch[k]))
  /\ batch' = [batch EXCEPT ![k] = Tail(@)]
  /\ UNCHANGED <<log, registered, queue, emits, cut, phase, since, attempts>>

\* After the last replayed row, and only then, the queue is registered.
Register(k) ==
  /\ LoopFree
  /\ phase[k] = "replay" /\ batch[k] = <<>>
  /\ registered' = registered \cup {k}
  /\ phase' = [phase EXCEPT ![k] = "live"]
  /\ since' = [since EXCEPT ![k] = Len(log)]
  /\ UNCHANGED <<log, queue, emits, cut, batch, attempts, got>>

\* Mutant: the stream goes on after a sse_client_slow event.
DeliverKeepsOpen(k) ==
  /\ LoopFree
  /\ phase[k] = "live" /\ queue[k] # <<>>
  /\ Receive(Client(k), Head(queue[k]))
  /\ queue' = [queue EXCEPT ![k] = Tail(@)]
  /\ UNCHANGED <<log, registered, emits, cut, phase, batch, since, attempts>>

\* An event of the queue is yielded; a sse_client_slow event ends the stream.
Deliver(k) ==
  /\ LoopFree
  /\ phase[k] = "live" /\ queue[k] # <<>>
  /\ Receive(Client(k), Head(queue[k]))
  /\ queue' = [queue EXCEPT ![k] = Tail(@)]
  /\ IF log[Head(queue[k])] = "slow"
     THEN /\ phase' = [phase EXCEPT ![k] = "closed"]
          /\ registered' = registered \ {k}
     ELSE UNCHANGED <<phase, registered>>
  /\ UNCHANGED <<log, emits, cut, batch, since, attempts>>

\* q.get() times out on an empty queue: the session of the run is read.
Silence(k) ==
  /\ LoopFree /\ Heartbeats
  /\ Len(log) < MaxLog
  /\ phase[k] = "live" /\ queue[k] = <<>>
  /\ phase' = [phase EXCEPT ![k] = "beat"]
  /\ UNCHANGED <<log, registered, queue, emits, cut, batch, since, attempts, got>>

\* The generator emits a heartbeat: it also enters the connection's own queue.
Beat(k) ==
  /\ LoopFree
  /\ phase[k] = "beat" /\ batch[k] = <<>>
  /\ Publish(k, "heartbeat")
  /\ batch' = [batch EXCEPT ![k] = <<Len(log')>>]
  /\ UNCHANGED phase

\* Once emit has returned, the generator yields the heartbeat itself.
YieldBeat(k) ==
  /\ LoopFree
  /\ phase[k] = "beat" /\ batch[k] # <<>> /\ ~Emitting(k)
  /\ Receive(Client(k), Head(batch[k]))
  /\ batch' = [batch EXCEPT ![k] = <<>>]
  /\ phase' = [phase EXCEPT ![k] = "live"]
  /\ UNCHANGED <<log, registered, queue, emits, cut, since, attempts>>

\* The connection breaks: the generator is cancelled, with an emit it awaits.
Disconnect(k) ==
  /\ LoopFree
  /\ phase[k] \in {"replay", "live", "beat"}
  /\ phase' = [phase EXCEPT ![k] = "closed"]
  /\ registered' = registered \ {k}
  /\ emits' = {m \in emits : m.src # k}
  /\ cut' = cut \cup {m.seq : m \in emits \ emits'}
  /\ batch' = [batch EXCEPT ![k] = <<>>]
  /\ UNCHANGED <<log, queue, since, attempts, got>>

-----------------------------------------------------------------------------

Serve(k) == YieldReplay(k) \/ Register(k) \/ Deliver(k) \/ YieldBeat(k) \/ Beat(k)

Next ==
  \/ \E src \in Emitters : EmitEvent(src)
  \/ \E m \in emits : EmitSlow(m) \/ (LaneBusy /\ CancelEmit(m))
  \/ \E c \in Clients : Connect(c)
  \/ \E k \in Conns : Serve(k) \/ Silence(k) \/ Disconnect(k)

\* Writes get the lane, and the event loop runs the generators it can run.
Fairness ==
  /\ WF_vars(\E m \in emits : EmitSlow(m))
  /\ \A k \in Conns : WF_vars(Serve(k))

Spec == Init /\ [][Next]_vars /\ Fairness

-----------------------------------------------------------------------------
(* Properties *)

\* Every variable has its type, and no queue exceeds its bound.
TypeOK ==
  /\ log \in Seq(Kinds)
  /\ registered \subseteq Conns
  /\ queue \in [Conns -> Seq(1 .. Len(log))]
  /\ \A k \in Conns : Len(queue[k]) <= QMax
  /\ emits \subseteq Emit
  /\ cut \subseteq 1 .. Len(log)
  /\ phase \in [Conns -> {"unused", "replay", "live", "beat", "closed"}]
  /\ batch \in [Conns -> Seq(1 .. Len(log))]
  /\ since \in [Conns -> 0 .. Len(log)]
  /\ attempts \in [Clients -> 0 .. MaxConns]
  /\ got \in [Clients -> Seq(1 .. Len(log))]

\* A subscriber misses nothing: as long as a queue is registered, every event
\* persisted since it was registered was received, is queued, or is about to be
\* put by an emit on its way through the queues, unless the coroutine that was
\* emitting it was cancelled.  (The notices of other slow subscribers are
\* persisted but not broadcast.)
NothingLostLive ==
  \A k \in registered : \A n \in (since[k] + 1) .. Len(log) :
    \/ log[n] = "slow" \/ n \in cut
    \/ n \in Range(got[Client(k)]) \cup Range(queue[k])
    \/ \E m \in emits : k = m.full \/ (m.seq = n /\ k \in m.todo)

\* No connection is left open and deaf: one that was dropped from the subscribers
\* has the sse_client_slow notice that closes it in its queue.
NoDeafConnection ==
  \A k \in Conns \ registered :
    phase[k] \in {"live", "beat"} => \E n \in Range(queue[k]) : log[n] = "slow"

\* The done event reaches a subscriber that was registered when it was emitted, or the
\* connection ends (or the emit was cancelled).  A reader between its replay and its
\* registration is none, and a run that was cancelled emits none.
DoneArrives ==
  \A k \in Conns :
    (k \in registered /\ \E n \in ((since[k] + 1) .. Len(log)) \ cut : log[n] = "done")
      ~> \/ phase[k] = "closed" \/ Received(Client(k), "done")
         \/ \E n \in cut : log[n] = "done"

\* With a free lane and no heartbeat in between, the stream implements EventLog.
Abstract == INSTANCE EventLog WITH seen <- got
ImplementsLog == Abstract!Spec

\* SPEC.md 9.4: the server replays the events after Last-Event-ID before it
\* streams live ones, so that up to the last event a client received it has
\* received them all.  Stated without overflows (see OverflowRecovered).
NoEventSkipped ==
  \A c \in Clients : 1 .. LastId(c) \subseteq Range(got[c])

\* SPEC.md 9.4: sequence numbers increase along a stream.
InOrder ==
  [][\A c \in Clients : LastId(c) <= LastId(c)']_vars

\* SPEC.md 9.4: after an overflow a client can rely on Last-Event-ID replay: an
\* event taken from its queue is not one its Last-Event-ID claims it has.
OverflowRecovered ==
  \A k \in Conns :
    LET c == Client(k)
    IN /\ phase[k] = "closed" /\ attempts[c] = k[2]
       /\ got[c] # <<>> /\ log[LastId(c)] = "slow"
       => ((since[k] + 1) .. LastId(c)) \subseteq Range(got[c])
=============================================================================
