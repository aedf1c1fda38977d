------------------------------ MODULE EventLog ------------------------------
(***************************************************************************)
(* What the event stream of one run promises its readers: the events form  *)
(* one log that only grows, and a reader is shown events of the log in the *)
(* order of their sequence numbers, each at most once, whatever happens to *)
(* its connections.  It does not promise that a reader sees every event.   *)
(***************************************************************************)
EXTENDS Naturals, Sequences

CONSTANTS Clients, Kinds

VARIABLES
  log,     \* log[n]: the kind of the event with sequence number n
  seen     \* seen[c]: the sequence numbers shown to client c, in order

vars == <<log, seen>>

Init == log = <<>> /\ seen = [c \in Clients |-> <<>>]

LastSeen(c) == IF seen[c] = <<>> THEN 0 ELSE seen[c][Len(seen[c])]

\* An event of kind k is persisted under the next sequence number.
Publish(k) == log' = Append(log, k) /\ UNCHANGED seen

\* A client is shown an event later than the ones it has seen.
Show(c, n) == seen' = [seen EXCEPT ![c] = Append(@, n)] /\ UNCHANGED log

Next ==
  \/ \E k \in Kinds : Publish(k)
  \/ \E c \in Clients : \E n \in (LastSeen(c) + 1) .. Len(log) : Show(c, n)

Spec == Init /\ [][Next]_vars
=============================================================================
