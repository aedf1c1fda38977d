------------------------- MODULE EventStream_proofs -------------------------
(***************************************************************************)
(* Proofs about EventStream, for any emitters, clients, connections,       *)
(* queues and replay limits.                                               *)
(***************************************************************************)
EXTENDS EventStream, TLAPS, SequenceTheorems

-----------------------------------------------------------------------------
(* Types *)

\* The events up to n, as many sequences of them.
UpTo(n) == Seq(1 .. n)

\* A suspended emit is of an event of the log.
EmitsUpTo(n) == {m \in Emit : m.seq \in 1 .. n}

Types == TypeOK /\ emits \subseteq EmitsUpTo(Len(log))

\* What was in a shorter log is in a longer one.
LEMMA Longer ==
  ASSUME NEW M \in Nat, NEW N \in Nat, M <= N
  PROVE  1 .. M \subseteq 1 .. N /\ UpTo(M) \subseteq UpTo(N) /\ EmitsUpTo(M) \subseteq EmitsUpTo(N)
<1>1. 1 .. M \subseteq 1 .. N
  OBVIOUS
<1>2. UpTo(M) \subseteq UpTo(N)
  BY <1>1, SeqMonotonic DEF UpTo
<1>3. EmitsUpTo(M) \subseteq EmitsUpTo(N)
  BY <1>1 DEF EmitsUpTo
<1> QED
  BY <1>1, <1>2, <1>3

\* A queue, when an event is appended, and when its oldest is taken.
LEMMA Appended ==
  ASSUME NEW S, NEW s \in Seq(S), NEW e \in S
  PROVE  /\ Append(s, e) \in Seq(S) /\ Len(s) \in Nat /\ Len(Append(s, e)) = Len(s) + 1
         /\ Range(Append(s, e)) = Range(s) \cup {e}
<1>1. /\ Append(s, e) \in Seq(S) /\ Len(Append(s, e)) = Len(s) + 1 /\ Len(s) \in Nat
      /\ \A i \in 1 .. Len(s) : Append(s, e)[i] = s[i]
      /\ Append(s, e)[Len(s) + 1] = e
  BY AppendProperties, LenProperties
<1>2. /\ Range(s) = {s[i] : i \in 1 .. Len(s)}
      /\ Range(Append(s, e)) = {Append(s, e)[i] : i \in 1 .. Len(s) + 1}
  BY <1>1, RangeOfSeq DEF Range
<1>3. 1 .. Len(s) + 1 = (1 .. Len(s)) \cup {Len(s) + 1}
  BY <1>1
<1> QED
  BY <1>1, <1>2, <1>3

LEMMA Taken ==
  ASSUME NEW S, NEW s \in Seq(S), s # <<>>
  PROVE  /\ Head(s) \in S /\ Tail(s) \in Seq(S) /\ Len(s) \in Nat \ {0} /\ Len(Tail(s)) = Len(s) - 1
         /\ Range(s) = {Head(s)} \cup Range(Tail(s))
<1>1. /\ Head(s) \in S /\ Tail(s) \in Seq(S) /\ Len(Tail(s)) = Len(s) - 1
      /\ \A i \in 1 .. Len(Tail(s)) : Tail(s)[i] = s[i + 1]
      /\ Len(s) \in Nat \ {0} /\ Head(s) = s[1]
  BY HeadTailProperties, EmptySeq
<1>2. /\ Range(s) = {s[i] : i \in 1 .. Len(s)}
      /\ Range(Tail(s)) = {Tail(s)[i] : i \in 1 .. Len(s) - 1}
  <2>1. DOMAIN s = 1 .. Len(s) /\ DOMAIN Tail(s) = 1 .. Len(s) - 1
    BY <1>1, LenProperties
  <2> QED
    BY <2>1 DEF Range
<1>3. \A i \in 2 .. Len(s) : i - 1 \in 1 .. Len(s) - 1 /\ s[i] = Tail(s)[i - 1]
  BY <1>1
<1>4. Range(s) \subseteq {Head(s)} \cup Range(Tail(s))
  <2> SUFFICES ASSUME NEW i \in 1 .. Len(s) PROVE s[i] \in {Head(s)} \cup Range(Tail(s))
    BY <1>2
  <2>1. i = 1 \/ i \in 2 .. Len(s)
    BY <1>1
  <2> QED
    BY <1>1, <1>2, <1>3, <2>1
<1>5. {Head(s)} \cup Range(Tail(s)) \subseteq Range(s)
  <2>1. 1 \in 1 .. Len(s) /\ \A i \in 1 .. Len(s) - 1 : i + 1 \in 1 .. Len(s)
    BY <1>1
  <2> QED
    BY <1>1, <1>2, <2>1
<1> QED
  BY <1>1, <1>4, <1>5

\* An event is offered to queues that are not full.
LEMMA Offered ==
  ASSUME NEW N \in Nat, NEW n \in 1 .. N, NEW q \in [Conns -> UpTo(N)], NEW K \in SUBSET Conns,
         \A k \in Conns : Len(q[k]) <= QMax, \A k \in K : Len(q[k]) < QMax
  PROVE  /\ Offer(q, n, K) \in [Conns -> UpTo(N)]
         /\ \A k \in Conns : Len(Offer(q, n, K)[k]) <= QMax
         /\ \A k \in Conns : Range(q[k]) \subseteq Range(Offer(q, n, K)[k])
         /\ \A k \in K : n \in Range(Offer(q, n, K)[k])
<1> DEFINE o == Offer(q, n, K)
<1>1. \A k \in Conns : o[k] = IF k \in K THEN Append(q[k], n) ELSE q[k]
  BY DEF Offer
<1>2. \A k \in Conns : q[k] \in Seq(1 .. N)
  BY DEF UpTo
<1>3. ASSUME NEW k \in Conns
      PROVE  /\ Append(q[k], n) \in Seq(1 .. N) /\ Len(Append(q[k], n)) = Len(q[k]) + 1
             /\ Range(Append(q[k], n)) = Range(q[k]) \cup {n}
  BY <1>2, Appended
<1>4. o \in [Conns -> UpTo(N)]
  <2>1. \A k \in Conns : o[k] \in UpTo(N)
    BY <1>1, <1>2, <1>3 DEF UpTo
  <2> QED
    BY <2>1 DEF Offer
<1>5. \A k \in Conns : Len(o[k]) <= QMax
  <2> SUFFICES ASSUME NEW k \in Conns PROVE Len(o[k]) <= QMax
    OBVIOUS
  <2>1. Len(q[k]) \in Nat /\ QMax \in Nat
    BY <1>2, BoundsAssumption
  <2>2. CASE k \in K
    <3>1. Len(q[k]) < QMax /\ Len(o[k]) = Len(q[k]) + 1
      BY <1>1, <1>3, <2>2
    <3> QED
      BY <2>1, <3>1
  <2>3. CASE k \notin K
    BY <1>1, <2>3
  <2> QED
    BY <2>2, <2>3
<1> QED
  BY <1>1, <1>3, <1>4, <1>5

\* An emit has still to offer event n to the queue of k.
Carried(n, k) == \E m \in emits : m.seq = n /\ k \in m.todo \cup {m.full}

\* The event n reaches each of the queues, or a suspended emit has still to do so.
LEMMA BroadcastFacts ==
  ASSUME NEW N \in Nat, NEW n \in 1 .. N, NEW src \in Sources, NEW K \in SUBSET Conns,
         NEW q \in [Conns -> UpTo(N)], \A k \in Conns : Len(q[k]) <= QMax,
         NEW rest \in SUBSET EmitsUpTo(N), Broadcast(src, n, K, q, rest)
  PROVE  /\ queue' \in [Conns -> UpTo(N)]
         /\ \A k \in Conns : Len(queue'[k]) <= QMax
         /\ emits' \subseteq EmitsUpTo(N)
         /\ rest \subseteq emits'
         /\ \A k \in Conns : Range(q[k]) \subseteq Range(queue'[k])
         /\ \A k \in K : \/ n \in Range(queue'[k])
                         \/ Carried(n, k)'
<1> DEFINE full == {k \in K : Len(q[k]) >= QMax}
<1>1. \A k \in K \ full : Len(q[k]) < QMax
  <2> SUFFICES ASSUME NEW k \in K, ~(Len(q[k]) >= QMax) PROVE Len(q[k]) < QMax
    OBVIOUS
  <2>1. q[k] \in Seq(1 .. N)
    BY DEF UpTo
  <2> QED
    BY <2>1, BoundsAssumption
<1>2. CASE full = {} /\ queue' = Offer(q, n, K) /\ emits' = rest
  BY <1>1, <1>2, Offered
<1>3. ASSUME NEW k \in full, NEW put \in SUBSET (K \ full), queue' = Offer(q, n, put),
             emits' = rest \cup {[src |-> src, seq |-> n, full |-> k, todo |-> K \ (put \cup {k})]}
      PROVE  /\ queue' \in [Conns -> UpTo(N)]
             /\ \A j \in Conns : Len(queue'[j]) <= QMax
             /\ emits' \subseteq EmitsUpTo(N)
             /\ rest \subseteq emits'
             /\ \A j \in Conns : Range(q[j]) \subseteq Range(queue'[j])
             /\ \A j \in K : \/ n \in Range(queue'[j])
                             \/ Carried(n, j)'
  <2> DEFINE mine == [src |-> src, seq |-> n, full |-> k, todo |-> K \ (put \cup {k})]
  <2>1. \A j \in put : Len(q[j]) < QMax
    BY <1>1
  <2>2. /\ queue' \in [Conns -> UpTo(N)]
        /\ \A j \in Conns : Len(queue'[j]) <= QMax
        /\ \A j \in Conns : Range(q[j]) \subseteq Range(queue'[j])
        /\ \A j \in put : n \in Range(queue'[j])
    BY <1>3, <2>1, Offered
  <2>3. mine \in EmitsUpTo(N)
    BY DEF EmitsUpTo, Emit
  <2>4. mine \in emits' /\ mine.seq = n /\ mine.full = k /\ mine.todo = K \ (put \cup {k})
    BY <1>3
  <2>5. \A j \in K \ put : Carried(n, j)'
    <3> SUFFICES ASSUME NEW j \in K \ put PROVE Carried(n, j)'
      OBVIOUS
    <3>1. j \in mine.todo \cup {mine.full}
      BY <2>4
    <3> QED
      BY <2>4, <3>1 DEF Carried
  <2>6. emits' \subseteq EmitsUpTo(N) /\ rest \subseteq emits'
    BY <1>3, <2>3
  <2> QED
    BY <2>2, <2>5, <2>6
<1> QED
  BY <1>2, <1>3 DEF Broadcast

\* An event more in the log, the rest being as it is.
LEMMA LogGrows ==
  ASSUME Types, NEW kind \in Kinds, log' = Append(log, kind)
  PROVE  /\ log' \in Seq(Kinds) /\ Len(log) \in Nat /\ Len(log') = Len(log) + 1
         /\ \A n \in 1 .. Len(log) : log'[n] = log[n]
         /\ log'[Len(log')] = kind
         /\ queue \in [Conns -> UpTo(Len(log'))] /\ batch \in [Conns -> UpTo(Len(log'))]
         /\ got \in [Clients -> UpTo(Len(log'))] /\ since \in [Conns -> 0 .. Len(log')]
         /\ cut \subseteq 1 .. Len(log') /\ emits \subseteq EmitsUpTo(Len(log'))
<1>1. /\ log \in Seq(Kinds) /\ queue \in [Conns -> UpTo(Len(log))] /\ batch \in [Conns -> UpTo(Len(log))]
      /\ got \in [Clients -> UpTo(Len(log))] /\ since \in [Conns -> 0 .. Len(log)]
      /\ cut \subseteq 1 .. Len(log) /\ emits \subseteq EmitsUpTo(Len(log))
  BY DEF Types, TypeOK, UpTo
<1>2. /\ log' \in Seq(Kinds) /\ Len(log) \in Nat /\ Len(log') = Len(log) + 1
      /\ \A n \in 1 .. Len(log) : log'[n] = log[n]
      /\ log'[Len(log')] = kind
  BY <1>1, AppendProperties, LenProperties
<1>3. /\ 1 .. Len(log) \subseteq 1 .. Len(log') /\ UpTo(Len(log)) \subseteq UpTo(Len(log'))
      /\ EmitsUpTo(Len(log)) \subseteq EmitsUpTo(Len(log')) /\ 0 .. Len(log) \subseteq 0 .. Len(log')
  BY <1>2, Longer
<1>4. queue \in [Conns -> UpTo(Len(log'))] /\ batch \in [Conns -> UpTo(Len(log'))]
  BY <1>1, <1>3
<1>5. got \in [Clients -> UpTo(Len(log'))] /\ since \in [Conns -> 0 .. Len(log')]
  BY <1>1, <1>3
<1>6. cut \subseteq 1 .. Len(log') /\ emits \subseteq EmitsUpTo(Len(log'))
  BY <1>1, <1>3
<1> QED
  BY <1>2, <1>4, <1>5, <1>6

\* What an emit does: the log and the queues grow.
LEMMA PublishFacts ==
  ASSUME Types, NEW src \in Sources, NEW kind \in Kinds, Publish(src, kind)
  PROVE  /\ queue' \in [Conns -> UpTo(Len(log'))] /\ emits' \subseteq EmitsUpTo(Len(log'))
         /\ \A k \in Conns : Len(queue'[k]) <= QMax /\ Range(queue[k]) \subseteq Range(queue'[k])
         /\ emits \subseteq emits'
         /\ \A k \in registered : \/ Len(log') \in Range(queue'[k])
                                  \/ \E N : N = Len(log') /\ Carried(N, k)'
<1>1. PICK N : N = Len(log')
  OBVIOUS
<1>2. /\ N \in Nat /\ N \in 1 .. N /\ queue \in [Conns -> UpTo(N)] /\ emits \in SUBSET EmitsUpTo(N)
  BY <1>1, LogGrows DEF Publish
<1>3. registered \in SUBSET Conns /\ \A k \in Conns : Len(queue[k]) <= QMax
  BY DEF Types, TypeOK
<1>4. Broadcast(src, N, registered, queue, emits)
  BY <1>1 DEF Publish
<1>5. /\ queue' \in [Conns -> UpTo(N)]
      /\ \A k \in Conns : Len(queue'[k]) <= QMax
      /\ emits' \subseteq EmitsUpTo(N)
      /\ emits \subseteq emits'
      /\ \A k \in Conns : Range(queue[k]) \subseteq Range(queue'[k])
      /\ \A k \in registered : \/ N \in Range(queue'[k])
                               \/ Carried(N, k)'
  BY <1>2, <1>3, <1>4, BroadcastFacts
<1> QED
  BY <1>1, <1>5

\* A full queue with the notice is not longer than it was.
LEMMA NoticeFits ==
  ASSUME NEW N \in Nat \ {0}, NEW s \in UpTo(N), Len(s) <= QMax,
         NEW oldest, oldest = IF s = <<>> THEN <<>> ELSE Tail(s),
         NEW notice, notice = IF Len(oldest) >= QMax THEN oldest ELSE Append(oldest, N)
  PROVE  notice \in UpTo(N) /\ Len(notice) <= QMax /\ N \in Range(notice)
<1>1. s \in Seq(1 .. N) /\ Len(s) \in Nat /\ QMax \in Nat \ {0}
  BY LenProperties, BoundsAssumption DEF UpTo
<1>2. oldest \in Seq(1 .. N) /\ Len(oldest) \in Nat /\ Len(oldest) < QMax
  <2>1. CASE s = <<>>
    <3>1. oldest \in Seq(1 .. N) /\ Len(oldest) = 0
      BY <2>1, EmptySeq
    <3> QED
      BY <1>1, <3>1
  <2>2. CASE s # <<>>
    <3>1. oldest \in Seq(1 .. N) /\ Len(s) \in Nat \ {0} /\ Len(oldest) = Len(s) - 1
      BY <1>1, <2>2, Taken
    <3> QED
      BY <1>1, <3>1
  <2> QED
    BY <2>1, <2>2
<1>3. notice = Append(oldest, N)
  BY <1>1, <1>2
<1>4. N \in 1 .. N
  OBVIOUS
<1>5. /\ Append(oldest, N) \in Seq(1 .. N) /\ Len(Append(oldest, N)) = Len(oldest) + 1
      /\ Range(Append(oldest, N)) = Range(oldest) \cup {N}
  BY <1>2, <1>4, Appended
<1>6. notice \in Seq(1 .. N) /\ Len(notice) = Len(oldest) + 1
  BY <1>3, <1>5
<1>7. N \in Range(notice)
  BY <1>3, <1>5
<1>8. Len(notice) <= QMax
  BY <1>1, <1>2, <1>6
<1> QED
  BY <1>6, <1>7, <1>8 DEF UpTo

\* The notice replaces the oldest event of the full queue; then the event of the emit
\* reaches the other queues as if it had been emitted anew.
LEMMA SlowFacts ==
  ASSUME Types, NEW m \in emits, EmitSlow(m)
  PROVE  /\ queue' \in [Conns -> UpTo(Len(log'))] /\ emits' \subseteq EmitsUpTo(Len(log'))
         /\ \A k \in Conns : Len(queue'[k]) <= QMax
         /\ \A k \in Conns \ {m.full} : Range(queue[k]) \subseteq Range(queue'[k])
         /\ Len(log') \in Range(queue'[m.full]) /\ m.full \in Conns
         /\ emits \ {m} \subseteq emits'
         /\ \A k \in m.todo : \/ m.seq \in Range(queue'[k])
                              \/ Carried(m.seq, k)'
<1>1. PICK N : N = Len(log')
  OBVIOUS
<1>2. /\ N \in Nat \ {0} /\ queue \in [Conns -> UpTo(N)] /\ emits \subseteq EmitsUpTo(N)
  BY <1>1, LogGrows DEF EmitSlow, Kinds
<1>3. /\ m.src \in Sources /\ m.full \in Conns /\ m.todo \in SUBSET Conns /\ m.seq \in 1 .. N
  BY <1>2 DEF EmitsUpTo, Emit
<1>4. \A k \in Conns : Len(queue[k]) <= QMax
  BY DEF Types, TypeOK
<1>5. PICK oldest : oldest = IF queue[m.full] = <<>> THEN <<>> ELSE Tail(queue[m.full])
  OBVIOUS
<1>6. PICK notice : notice = IF Len(oldest) >= QMax THEN oldest ELSE Append(oldest, N)
  OBVIOUS
<1>7. notice \in UpTo(N) /\ Len(notice) <= QMax /\ N \in Range(notice)
  <2>1. queue[m.full] \in UpTo(N) /\ Len(queue[m.full]) <= QMax
    BY <1>2, <1>3, <1>4
  <2> QED
    BY <1>2, <1>5, <1>6, <2>1, NoticeFits
<1>8. PICK q : q = [queue EXCEPT ![m.full] = notice]
  OBVIOUS
<1>9. /\ q \in [Conns -> UpTo(N)] /\ q[m.full] = notice
      /\ \A k \in Conns : Len(q[k]) <= QMax
      /\ \A k \in Conns \ {m.full} : q[k] = queue[k]
  BY <1>2, <1>3, <1>4, <1>7, <1>8
<1>10. Broadcast(m.src, m.seq, m.todo, q, emits \ {m})
  BY <1>1, <1>5, <1>6, <1>8 DEF EmitSlow
<1>11. PICK rest : rest = emits \ {m}
  OBVIOUS
<1>12. rest \in SUBSET EmitsUpTo(N)
  BY <1>2, <1>11
<1>13. ASSUME NEW src \in Sources, NEW n \in 1 .. N, NEW K \in SUBSET Conns,
              Broadcast(src, n, K, q, rest)
       PROVE  /\ queue' \in [Conns -> UpTo(N)]
              /\ \A k \in Conns : Len(queue'[k]) <= QMax
              /\ emits' \subseteq EmitsUpTo(N)
              /\ rest \subseteq emits'
              /\ \A k \in Conns : Range(q[k]) \subseteq Range(queue'[k])
              /\ \A k \in K : n \in Range(queue'[k]) \/ Carried(n, k)'
  <2>1. N \in Nat
    BY <1>2
  <2> QED
    BY <1>9, <1>12, <1>13, <2>1, BroadcastFacts
<1>14. /\ queue' \in [Conns -> UpTo(N)]
       /\ \A k \in Conns : Len(queue'[k]) <= QMax
       /\ emits' \subseteq EmitsUpTo(N)
       /\ rest \subseteq emits'
       /\ \A k \in Conns : Range(q[k]) \subseteq Range(queue'[k])
       /\ \A k \in m.todo : m.seq \in Range(queue'[k]) \/ Carried(m.seq, k)'
  BY <1>3, <1>10, <1>11, <1>13
<1> QED
  BY <1>1, <1>3, <1>7, <1>9, <1>11, <1>14

LEMMA InitTypes == Init => Types
<1> SUFFICES ASSUME Init PROVE Types
  OBVIOUS
<1>1. <<>> \in Seq(Kinds) /\ Len(<<>>) = 0 /\ \A n \in Nat : <<>> \in Seq(1 .. n)
  OBVIOUS
<1>2. \A c \in Clients : 0 \in 0 .. MaxConns
  BY BoundsAssumption
<1>3. \A k \in Conns : Len(queue[k]) <= QMax
  BY <1>1, BoundsAssumption DEF Init
<1> QED
  BY <1>1, <1>2, <1>3 DEF Init, Types, TypeOK

LEMMA ReplayFits ==
  ASSUME Types, NEW c \in Clients
  PROVE  LastId(c) \in 0 .. Len(log) /\ Replay(c) \in Seq(1 .. Len(log))
<1>1. got[c] \in Seq(1 .. Len(log)) /\ Len(log) \in Nat /\ ReplayLimit \in Nat
  BY BoundsAssumption DEF Types, TypeOK
<1>2. LastId(c) \in 0 .. Len(log)
  <2>1. CASE got[c] = <<>>
    BY <1>1, <2>1 DEF LastId
  <2>2. CASE got[c] # <<>>
    <3>1. Len(got[c]) \in 1 .. Len(got[c])
      BY <1>1, <2>2, EmptySeq
    <3>2. got[c][Len(got[c])] \in 1 .. Len(log)
      BY <1>1, <3>1, ElementOfSeq
    <3> QED
      BY <1>1, <2>2, <3>2 DEF LastId
  <2> QED
    BY <2>1, <2>2
<1>3. PICK last : last = LastId(c)
  OBVIOUS
<1>4. PICK size : size = IF Len(log) - last < ReplayLimit THEN Len(log) - last ELSE ReplayLimit
  OBVIOUS
<1>5. last \in Nat /\ size \in Nat /\ last + size <= Len(log)
  BY <1>1, <1>2, <1>3, <1>4
<1>6. Replay(c) = [i \in 1 .. size |-> last + i]
  BY <1>3, <1>4 DEF Replay
<1>7. \A i \in 1 .. size : last + i \in 1 .. Len(log)
  BY <1>1, <1>5
<1>8. Replay(c) \in [1 .. size -> 1 .. Len(log)]
  BY <1>6, <1>7
<1> QED
  BY <1>2, <1>5, <1>8, SeqDef

\* The types are kept by emits,
LEMMA PublishTypes ==
  ASSUME Types, NEW src \in Sources, NEW kind \in Kinds, Publish(src, kind),
         phase' \in [Conns -> {"unused", "replay", "live", "beat", "closed"}],
         batch' \in [Conns -> Seq(1 .. Len(log'))]
  PROVE  Types'
<1>1. /\ log' \in Seq(Kinds) /\ got \in [Clients -> Seq(1 .. Len(log'))]
      /\ since \in [Conns -> 0 .. Len(log')] /\ cut \subseteq 1 .. Len(log')
  BY LogGrows DEF Publish, UpTo
<1>2. /\ queue' \in [Conns -> Seq(1 .. Len(log'))] /\ emits' \subseteq EmitsUpTo(Len(log'))
      /\ \A k \in Conns : Len(queue'[k]) <= QMax
  BY PublishFacts DEF UpTo
<1>3. emits' \subseteq Emit
  BY <1>2 DEF EmitsUpTo
<1>4. UNCHANGED <<registered, cut, since, attempts, got>>
  BY DEF Publish
<1>5. registered \subseteq Conns /\ attempts \in [Clients -> 0 .. MaxConns]
  BY DEF Types, TypeOK
<1> QED
  BY <1>1, <1>2, <1>3, <1>4, <1>5 DEF Types, TypeOK

LEMMA EmitTypes ==
  ASSUME Types, NEW m \in emits, EmitSlow(m) \/ CancelEmit(m)
  PROVE  Types'
<1>1. CASE EmitSlow(m)
  <2>1. /\ log' \in Seq(Kinds) /\ got \in [Clients -> Seq(1 .. Len(log'))]
        /\ since \in [Conns -> 0 .. Len(log')] /\ cut \subseteq 1 .. Len(log')
        /\ batch \in [Conns -> Seq(1 .. Len(log'))]
    BY <1>1, LogGrows DEF EmitSlow, UpTo, Kinds
  <2>2. /\ queue' \in [Conns -> Seq(1 .. Len(log'))] /\ emits' \subseteq EmitsUpTo(Len(log'))
        /\ \A k \in Conns : Len(queue'[k]) <= QMax
    BY <1>1, SlowFacts DEF UpTo
  <2>3. emits' \subseteq Emit
    BY <2>2 DEF EmitsUpTo
  <2>4. UNCHANGED <<cut, phase, batch, since, attempts, got>> /\ registered' \subseteq registered
    BY <1>1 DEF EmitSlow
  <2>5. /\ registered \subseteq Conns /\ attempts \in [Clients -> 0 .. MaxConns]
        /\ phase \in [Conns -> {"unused", "replay", "live", "beat", "closed"}]
    BY DEF Types, TypeOK
  <2> QED
    BY <2>1, <2>2, <2>3, <2>4, <2>5 DEF Types, TypeOK
<1>2. CASE CancelEmit(m)
  <2>1. m.seq \in 1 .. Len(log) /\ emits' \subseteq emits /\ cut' = cut \cup {m.seq}
    BY <1>2 DEF CancelEmit, Types, EmitsUpTo
  <2> QED
    BY <1>2, <2>1 DEF CancelEmit, Types, TypeOK
<1> QED
  BY <1>1, <1>2

\* and by the generators.
LEMMA ConnectTypes ==
  ASSUME Types, NEW c \in Clients, Connect(c)
  PROVE  Types'
<1>1. attempts[c] \in 0 .. MaxConns /\ attempts[c] < MaxConns /\ MaxConns \in Nat
  BY BoundsAssumption DEF Types, TypeOK, Connect
<1>2. <<c, attempts[c] + 1>> \in Conns /\ attempts[c] + 1 \in 0 .. MaxConns
  BY <1>1 DEF Conns
<1>3. Replay(c) \in Seq(1 .. Len(log))
  BY ReplayFits
<1>4. /\ attempts' \in [Clients -> 0 .. MaxConns]
      /\ phase' \in [Conns -> {"unused", "replay", "live", "beat", "closed"}]
      /\ batch' \in [Conns -> Seq(1 .. Len(log))]
  BY <1>2, <1>3 DEF Types, TypeOK, Connect
<1> QED
  BY <1>4 DEF Types, TypeOK, Connect

LEMMA ReceiveTypes ==
  ASSUME Types, NEW k \in Conns, NEW n \in 1 .. Len(log), Receive(Client(k), n)
  PROVE  /\ Client(k) \in Clients /\ got' \in [Clients -> Seq(1 .. Len(log))]
         /\ \A c \in Clients : Range(got[c]) \subseteq Range(got'[c])
         /\ n \in Range(got'[Client(k)])
<1>1. Client(k) \in Clients
  BY DEF Conns, Client
<1>2. \A c \in Clients : got[c] \in Seq(1 .. Len(log))
  BY DEF Types, TypeOK
<1>3. /\ Append(got[Client(k)], n) \in Seq(1 .. Len(log))
      /\ Range(Append(got[Client(k)], n)) = Range(got[Client(k)]) \cup {n}
  BY <1>1, <1>2, Appended
<1>4. got' = [got EXCEPT ![Client(k)] = Append(got[Client(k)], n)] /\ DOMAIN got = Clients
  BY DEF Receive, Types, TypeOK
<1> QED
  BY <1>1, <1>2, <1>3, <1>4

LEMMA BeatTypes ==
  ASSUME Types, NEW k \in Conns, Beat(k)
  PROVE  Types'
<1>1. k \in Sources /\ "heartbeat" \in Kinds
  BY DEF Sources, Kinds
<1>2. Publish(k, "heartbeat")
  BY DEF Beat
<1>3. Len(log') \in 1 .. Len(log') /\ batch \in [Conns -> Seq(1 .. Len(log'))]
  BY <1>1, <1>2, LogGrows DEF Publish, UpTo
<1>4. <<Len(log')>> \in Seq(1 .. Len(log'))
  BY <1>3
<1>5. batch' \in [Conns -> Seq(1 .. Len(log'))]
  BY <1>3, <1>4 DEF Beat
<1>6. phase' \in [Conns -> {"unused", "replay", "live", "beat", "closed"}]
  BY DEF Beat, Types, TypeOK
<1> QED
  BY <1>1, <1>2, <1>5, <1>6, PublishTypes

LEMMA ConnTypes ==
  ASSUME Types, NEW k \in Conns, Serve(k) \/ Silence(k) \/ Disconnect(k)
  PROVE  Types'
<1> USE DEF Types, TypeOK
<1>1. Len(log) \in Nat /\ queue[k] \in Seq(1 .. Len(log)) /\ batch[k] \in Seq(1 .. Len(log))
  OBVIOUS
<1>2. CASE YieldReplay(k)
  <2>1. Head(batch[k]) \in 1 .. Len(log) /\ Tail(batch[k]) \in Seq(1 .. Len(log))
    BY <1>1, <1>2, Taken DEF YieldReplay
  <2>2. got' \in [Clients -> Seq(1 .. Len(log))]
    BY <1>2, <2>1, ReceiveTypes DEF YieldReplay
  <2>3. batch' \in [Conns -> Seq(1 .. Len(log))]
    BY <1>2, <2>1 DEF YieldReplay
  <2> QED
    BY <1>2, <2>2, <2>3 DEF YieldReplay
<1>3. CASE Register(k)
  BY <1>1, <1>3 DEF Register
<1>4. CASE Deliver(k)
  <2>1. /\ Head(queue[k]) \in 1 .. Len(log) /\ Tail(queue[k]) \in Seq(1 .. Len(log))
        /\ Len(Tail(queue[k])) = Len(queue[k]) - 1 /\ Len(queue[k]) \in Nat
    BY <1>1, <1>4, Taken DEF Deliver
  <2>2. got' \in [Clients -> Seq(1 .. Len(log))]
    BY <1>4, <2>1, ReceiveTypes DEF Deliver
  <2>3. queue' = [queue EXCEPT ![k] = Tail(queue[k])]
    BY <1>4 DEF Deliver
  <2>4. queue' \in [Conns -> Seq(1 .. Len(log))]
    BY <2>1, <2>3
  <2>5. \A j \in Conns : Len(queue'[j]) <= QMax
    <3>1. Len(Tail(queue[k])) <= QMax
      BY <2>1, BoundsAssumption
    <3> QED
      BY <2>3, <3>1
  <2>6. /\ registered' \subseteq Conns
        /\ phase' \in [Conns -> {"unused", "replay", "live", "beat", "closed"}]
    BY <1>4 DEF Deliver
  <2> QED
    BY <1>4, <2>2, <2>4, <2>5, <2>6 DEF Deliver
<1>5. CASE YieldBeat(k)
  <2>1. Head(batch[k]) \in 1 .. Len(log) /\ <<>> \in Seq(1 .. Len(log))
    BY <1>1, <1>5, Taken DEF YieldBeat
  <2>2. got' \in [Clients -> Seq(1 .. Len(log))]
    BY <1>5, <2>1, ReceiveTypes DEF YieldBeat
  <2> QED
    BY <1>5, <2>1, <2>2 DEF YieldBeat
<1>6. CASE Beat(k)
  BY <1>6, BeatTypes
<1>7. CASE Silence(k)
  BY <1>7 DEF Silence
<1>8. CASE Disconnect(k)
  <2>1. cut' \subseteq 1 .. Len(log)
    <3>1. \A m \in emits : m.seq \in 1 .. Len(log)
      BY DEF EmitsUpTo
    <3>2. cut' = cut \cup {m.seq : m \in emits \ emits'}
      BY <1>8 DEF Disconnect
    <3>3. cut \subseteq 1 .. Len(log)
      OBVIOUS
    <3> QED
      BY <3>1, <3>2, <3>3
  <2>2. emits' \subseteq emits /\ <<>> \in Seq(1 .. Len(log))
    BY <1>8 DEF Disconnect
  <2> QED
    BY <1>8, <2>1, <2>2 DEF Disconnect
<1> QED
  BY <1>2, <1>3, <1>4, <1>5, <1>6, <1>7, <1>8 DEF Serve

LEMMA StepTypes == Types /\ [Next]_vars => Types'
<1> SUFFICES ASSUME Types, [Next]_vars PROVE Types'
  OBVIOUS
<1>1. ASSUME NEW src \in Emitters, EmitEvent(src) PROVE Types'
  <2>1. PICK kind \in {"event", "done"} : Publish(src, kind)
    BY <1>1 DEF EmitEvent
  <2>2. src \in Sources /\ kind \in Kinds
    BY DEF Sources, Kinds
  <2>3. batch \in [Conns -> Seq(1 .. Len(log'))]
    BY <2>1, <2>2, LogGrows DEF Publish, UpTo
  <2>4. UNCHANGED <<phase, batch>>
    BY <1>1 DEF EmitEvent
  <2>5. phase \in [Conns -> {"unused", "replay", "live", "beat", "closed"}]
    BY DEF Types, TypeOK
  <2> QED
    BY <2>1, <2>2, <2>3, <2>4, <2>5, PublishTypes
<1>2. CASE UNCHANGED vars
  BY <1>2 DEF vars, Types, TypeOK
<1> QED
  BY <1>1, <1>2, EmitTypes, ConnectTypes, ConnTypes DEF Next

\* No queue is longer than it may be, and the rest has its type.
THEOREM TypeCorrect == Spec => []TypeOK
<1>1. Types => TypeOK
  BY DEF Types
<1> QED
  BY <1>1, InitTypes, StepTypes, PTL DEF Spec

-----------------------------------------------------------------------------
(* Nothing is lost, and nobody is deaf *)

\* What NothingLostLive says of event n and connection k; the emit that has still to
\* reach a full queue is the one of this event.
Had(k, n) ==
  \/ log[n] = "slow" \/ n \in cut
  \/ n \in Range(got[Client(k)]) \/ n \in Range(queue[k])
  \/ Carried(n, k)

Delivered == \A k \in registered : \A n \in (since[k] + 1) .. Len(log) : Had(k, n)

\* The notice is in the queue.
Noticed(k) == \E n \in Range(queue[k]) : log[n] = "slow"

Heard == \A k \in Conns \ registered : phase[k] \in {"live", "beat"} => Noticed(k)

LEMMA InitHeard == Init => Delivered /\ Heard
  BY DEF Init, Delivered, Heard

\* What was had stays, unless the emit that has it goes.
LEMMA HadStays ==
  ASSUME NEW k, NEW n, Had(k, n), log'[n] = log[n], cut \subseteq cut',
         Range(got[Client(k)]) \subseteq Range(got'[Client(k)]),
         Range(queue[k]) \subseteq Range(queue'[k]) \cup Range(got'[Client(k)]),
         Carried(n, k) => Carried(n, k)' \/ n \in cut' \/ n \in Range(queue'[k])
  PROVE  Had(k, n)'
  BY DEF Had

LEMMA PublishHeard ==
  ASSUME Types, Delivered, Heard, NEW src \in Sources, NEW kind \in Kinds, Publish(src, kind),
         phase' = phase
  PROVE  Delivered' /\ Heard'
<1>1. PICK N : N = Len(log')
  OBVIOUS
<1>2. /\ N \in Nat /\ Len(log) \in Nat /\ N = Len(log) + 1
      /\ \A n \in 1 .. Len(log) : log'[n] = log[n]
  BY <1>1, LogGrows DEF Publish
<1>3. /\ \A k \in Conns : Range(queue[k]) \subseteq Range(queue'[k])
      /\ emits \subseteq emits'
      /\ \A k \in registered : N \in Range(queue'[k]) \/ Carried(N, k)'
  BY <1>1, PublishFacts
<1>4. UNCHANGED <<registered, cut, since, got>> /\ registered \subseteq Conns
      /\ since \in [Conns -> 0 .. Len(log)] /\ queue \in [Conns -> Seq(1 .. Len(log))]
  BY DEF Publish, Types, TypeOK
<1>5. Delivered'
  <2> SUFFICES ASSUME NEW k \in registered, NEW n \in (since[k] + 1) .. N PROVE Had(k, n)'
    BY <1>1, <1>4 DEF Delivered
  <2>1. CASE n = N
    BY <1>3, <2>1 DEF Had
  <2>2. CASE n # N
    <3>1. n \in 1 .. Len(log) /\ n \in (since[k] + 1) .. Len(log)
      BY <1>2, <1>4, <2>2
    <3>2. Had(k, n) /\ log'[n] = log[n]
      BY <1>2, <3>1 DEF Delivered
    <3>3. Carried(n, k) => Carried(n, k)'
      BY <1>3 DEF Carried
    <3> QED
      BY <1>3, <1>4, <3>2, <3>3, HadStays
  <2> QED
    BY <2>1, <2>2
<1>6. Heard'
  <2> SUFFICES ASSUME NEW k \in Conns \ registered, phase[k] \in {"live", "beat"} PROVE Noticed(k)'
    BY <1>4 DEF Heard
  <2>1. PICK n \in Range(queue[k]) : log[n] = "slow"
    BY DEF Heard, Noticed
  <2>2. n \in 1 .. Len(log)
    BY <1>4, RangeOfSeq
  <2> QED
    BY <1>2, <1>3, <2>1, <2>2 DEF Noticed
<1> QED
  BY <1>5, <1>6

LEMMA EmitHeard ==
  ASSUME Types, Delivered, Heard, NEW m \in emits, EmitSlow(m) \/ CancelEmit(m)
  PROVE  Delivered' /\ Heard'
<1>1. CASE EmitSlow(m)
  <2>1. PICK N : N = Len(log')
    OBVIOUS
  <2>2. /\ N \in Nat /\ Len(log) \in Nat /\ N = Len(log) + 1 /\ log'[N] = "slow"
        /\ \A n \in 1 .. Len(log) : log'[n] = log[n]
    BY <1>1, <2>1, LogGrows DEF EmitSlow, Kinds
  <2>3. /\ \A k \in Conns \ {m.full} : Range(queue[k]) \subseteq Range(queue'[k])
        /\ N \in Range(queue'[m.full]) /\ m.full \in Conns
        /\ emits \ {m} \subseteq emits'
        /\ \A k \in m.todo : m.seq \in Range(queue'[k]) \/ Carried(m.seq, k)'
    BY <1>1, <2>1, SlowFacts
  <2>4. /\ UNCHANGED <<cut, since, got, phase>> /\ registered' = registered \ {m.full}
        /\ registered \subseteq Conns /\ since \in [Conns -> 0 .. Len(log)]
        /\ queue \in [Conns -> Seq(1 .. Len(log))]
    BY <1>1 DEF EmitSlow, Types, TypeOK
  <2>5. Delivered'
    <3> SUFFICES ASSUME NEW k \in registered \ {m.full}, NEW n \in (since[k] + 1) .. N
                 PROVE  Had(k, n)'
      BY <2>1, <2>4 DEF Delivered
    <3>1. CASE n = N
      BY <2>2, <3>1 DEF Had
    <3>2. CASE n # N
      <4>1. n \in 1 .. Len(log) /\ n \in (since[k] + 1) .. Len(log)
        BY <2>2, <2>4, <3>2
      <4>2. Had(k, n) /\ log'[n] = log[n]
        BY <2>2, <4>1 DEF Delivered
      <4>3. Carried(n, k) => Carried(n, k)' \/ n \in Range(queue'[k])
        <5> SUFFICES ASSUME NEW e \in emits, e.seq = n, k \in e.todo \cup {e.full}
                     PROVE  Carried(n, k)' \/ n \in Range(queue'[k])
          BY DEF Carried
        <5>1. CASE e = m
          BY <2>3, <5>1
        <5>2. CASE e # m
          BY <2>3, <5>2 DEF Carried
        <5> QED
          BY <5>1, <5>2
      <4> QED
        BY <2>3, <2>4, <4>2, <4>3, HadStays
    <3> QED
      BY <3>1, <3>2
  <2>6. Heard'
    <3> SUFFICES ASSUME NEW k \in Conns, k \notin registered \ {m.full}, phase[k] \in {"live", "beat"}
                 PROVE  Noticed(k)'
      BY <2>4 DEF Heard
    <3>1. CASE k = m.full
      BY <2>2, <2>3, <3>1 DEF Noticed
    <3>2. CASE k # m.full
      <4>1. PICK n \in Range(queue[k]) : log[n] = "slow"
        BY <3>2 DEF Heard, Noticed
      <4>2. n \in 1 .. Len(log)
        BY <2>4, RangeOfSeq
      <4> QED
        BY <2>2, <2>3, <3>2, <4>1, <4>2 DEF Noticed
    <3> QED
      BY <3>1, <3>2
  <2> QED
    BY <2>5, <2>6
<1>2. CASE CancelEmit(m)
  <2>1. /\ emits' = emits \ {m} /\ cut' = cut \cup {m.seq}
        /\ UNCHANGED <<log, registered, queue, phase, since, got>>
    BY <1>2 DEF CancelEmit
  <2>2. \A k, n : Carried(n, k) => Carried(n, k)' \/ n \in cut'
    BY <2>1 DEF Carried
  <2>3. \A k, n : Had(k, n) => Had(k, n)'
    BY <2>1, <2>2 DEF Had
  <2> QED
    BY <2>1, <2>3 DEF Delivered, Heard, Noticed
<1> QED
  BY <1>1, <1>2

LEMMA ConnHeard ==
  ASSUME Types, Delivered, Heard, NEW k \in Conns, Serve(k) \/ Silence(k) \/ Disconnect(k)
  PROVE  Delivered' /\ Heard'
<1>1. /\ Len(log) \in Nat /\ queue \in [Conns -> Seq(1 .. Len(log))]
      /\ batch \in [Conns -> Seq(1 .. Len(log))] /\ registered \subseteq Conns
      /\ \A j \in Conns : Client(j) \in Clients
      /\ phase \in [Conns -> {"unused", "replay", "live", "beat", "closed"}]
      /\ since \in [Conns -> 0 .. Len(log)]
  BY DEF Types, TypeOK, Conns, Client
<1>2. CASE YieldReplay(k) \/ YieldBeat(k)
  <2>1. Head(batch[k]) \in 1 .. Len(log)
    BY <1>1, <1>2, Taken DEF YieldReplay, YieldBeat
  <2>2. Receive(Client(k), Head(batch[k]))
    BY <1>2 DEF YieldReplay, YieldBeat
  <2>3. \A c \in Clients : Range(got[c]) \subseteq Range(got'[c])
    BY <2>1, <2>2, ReceiveTypes
  <2>4. UNCHANGED <<log, registered, queue, emits, cut, since>>
    BY <1>2 DEF YieldReplay, YieldBeat
  <2>5. \A j \in Conns : phase'[j] = phase[j] \/ (phase[j] = "beat" /\ phase'[j] = "live")
    BY <1>1, <1>2 DEF YieldReplay, YieldBeat
  <2>6. \A j \in Conns : \A n : Had(j, n) => Had(j, n)'
    BY <1>1, <2>3, <2>4 DEF Had, Carried
  <2> QED
    BY <1>1, <2>4, <2>5, <2>6 DEF Delivered, Heard, Noticed
<1>3. CASE Register(k)
  <2>1. /\ UNCHANGED <<log, queue, emits, cut, got>> /\ registered' = registered \cup {k}
        /\ since'[k] = Len(log) /\ \A j \in Conns \ {k} : since'[j] = since[j] /\ phase'[j] = phase[j]
    BY <1>1, <1>3 DEF Register
  <2>2. \A j, n : Had(j, n) => Had(j, n)'
    BY <2>1 DEF Had, Carried
  <2>3. Delivered'
    <3> SUFFICES ASSUME NEW j \in registered \cup {k}, NEW n \in (since'[j] + 1) .. Len(log)
                 PROVE  Had(j, n)
      BY <2>1, <2>2 DEF Delivered
    <3>1. j # k
      BY <1>1, <2>1
    <3> QED
      BY <1>1, <2>1, <3>1 DEF Delivered
  <2>4. Heard'
    BY <1>1, <2>1 DEF Heard, Noticed
  <2> QED
    BY <2>3, <2>4
<1>4. CASE Deliver(k)
  <2>1. /\ Head(queue[k]) \in 1 .. Len(log)
        /\ Range(queue[k]) = {Head(queue[k])} \cup Range(Tail(queue[k]))
    BY <1>1, <1>4, Taken DEF Deliver
  <2>2. /\ \A c \in Clients : Range(got[c]) \subseteq Range(got'[c])
        /\ Head(queue[k]) \in Range(got'[Client(k)])
    BY <1>4, <2>1, ReceiveTypes DEF Deliver
  <2>3. /\ UNCHANGED <<log, emits, cut, since>> /\ registered' \subseteq registered
        /\ queue'[k] = Tail(queue[k]) /\ \A j \in Conns \ {k} : queue'[j] = queue[j] /\ phase'[j] = phase[j]
        /\ registered \ {k} \subseteq registered'
    BY <1>1, <1>4 DEF Deliver
  <2>4. \A j \in Conns : \A n : Had(j, n) => Had(j, n)'
    <3> SUFFICES ASSUME NEW j \in Conns, NEW n, Had(j, n) PROVE Had(j, n)'
      OBVIOUS
    <3>1. Range(queue[j]) \subseteq Range(queue'[j]) \cup Range(got'[Client(j)])
      BY <2>1, <2>2, <2>3
    <3>2. Carried(n, j) => Carried(n, j)'
      BY <2>3 DEF Carried
    <3> QED
      BY <1>1, <2>2, <2>3, <3>1, <3>2, HadStays
  <2>5. Delivered'
    BY <1>1, <2>3, <2>4 DEF Delivered
  <2>6. ASSUME k \notin registered', phase'[k] \in {"live", "beat"} PROVE Noticed(k)'
    <3>1. log[Head(queue[k])] # "slow" /\ phase[k] = "live" /\ k \notin registered
      BY <1>1, <1>4, <2>6 DEF Deliver
    <3>2. PICK n \in Range(queue[k]) : log[n] = "slow"
      BY <3>1 DEF Heard, Noticed
    <3> QED
      BY <2>1, <2>3, <3>1, <3>2 DEF Noticed
  <2>7. Heard'
    BY <1>1, <2>3, <2>6 DEF Heard, Noticed
  <2> QED
    BY <2>5, <2>7
<1>5. CASE Beat(k)
  <2>1. k \in Sources /\ "heartbeat" \in Kinds /\ phase' = phase /\ Publish(k, "heartbeat")
    BY <1>5 DEF Sources, Kinds, Beat
  <2> QED
    BY <2>1, PublishHeard
<1>6. CASE Silence(k)
  <2>1. k \in registered
    <3>1. queue[k] = <<>> /\ phase[k] = "live"
      BY <1>6 DEF Silence
    <3>2. ~Noticed(k)
      BY <3>1 DEF Noticed, Range
    <3> QED
      BY <3>1, <3>2 DEF Heard
  <2>2. /\ UNCHANGED <<log, registered, queue, emits, cut, since, got>>
        /\ \A j \in Conns \ {k} : phase'[j] = phase[j]
    BY <1>1, <1>6 DEF Silence
  <2> QED
    BY <2>1, <2>2 DEF Delivered, Had, Carried, Heard, Noticed
<1>7. CASE Disconnect(k)
  <2>1. /\ UNCHANGED <<log, queue, since, got>> /\ registered' = registered \ {k}
        /\ phase'[k] = "closed" /\ \A j \in Conns \ {k} : phase'[j] = phase[j]
        /\ cut' = cut \cup {m.seq : m \in emits \ emits'}
    BY <1>1, <1>7 DEF Disconnect
  <2>2. \A j, n : Carried(n, j) => Carried(n, j)' \/ n \in cut'
    BY <2>1 DEF Carried
  <2>3. \A j, n : Had(j, n) => Had(j, n)'
    BY <2>1, <2>2 DEF Had
  <2> QED
    BY <2>1, <2>3 DEF Delivered, Heard, Noticed
<1> QED
  BY <1>2, <1>3, <1>4, <1>5, <1>6, <1>7 DEF Serve

LEMMA StepHeard == Types /\ Delivered /\ Heard /\ [Next]_vars => Delivered' /\ Heard'
<1> SUFFICES ASSUME Types, Delivered, Heard, [Next]_vars PROVE Delivered' /\ Heard'
  OBVIOUS
<1>1. ASSUME NEW src \in Emitters, EmitEvent(src) PROVE Delivered' /\ Heard'
  <2>1. PICK kind \in {"event", "done"} : Publish(src, kind)
    BY <1>1 DEF EmitEvent
  <2>2. src \in Sources /\ kind \in Kinds /\ phase' = phase
    BY <1>1 DEF Sources, Kinds, EmitEvent
  <2> QED
    BY <2>1, <2>2, PublishHeard
<1>2. ASSUME NEW c \in Clients, Connect(c) PROVE Delivered' /\ Heard'
  <2>1. /\ UNCHANGED <<log, registered, queue, emits, cut, since, got>>
        /\ \A j \in Conns : phase'[j] = phase[j] \/ phase'[j] = "replay"
    BY <1>2 DEF Connect, Types, TypeOK
  <2> QED
    BY <2>1 DEF Delivered, Had, Carried, Heard, Noticed
<1>3. CASE UNCHANGED vars
  BY <1>3 DEF vars, Delivered, Had, Carried, Heard, Noticed
<1> QED
  BY <1>1, <1>2, <1>3, EmitHeard, ConnHeard DEF Next

\* However emits overlap, are cancelled and overflow queues, a registered queue misses
\* nothing; a queue that is not is told to close.
THEOREM NothingIsLost == Spec => []NothingLostLive
<1>1. Types /\ Delivered => NothingLostLive
  <2> SUFFICES ASSUME Types, Delivered, NEW k \in registered, NEW n \in (since[k] + 1) .. Len(log)
               PROVE  \/ log[n] = "slow" \/ n \in cut
                      \/ n \in Range(got[Client(k)]) \cup Range(queue[k])
                      \/ \E m \in emits : k = m.full \/ (m.seq = n /\ k \in m.todo)
    BY DEF NothingLostLive
  <2>1. Had(k, n)
    BY DEF Delivered
  <2>2. Carried(n, k) => \E m \in emits : k = m.full \/ (m.seq = n /\ k \in m.todo)
    BY DEF Carried
  <2> QED
    BY <2>1, <2>2 DEF Had
<1> QED
  BY <1>1, InitTypes, StepTypes, InitHeard, StepHeard, PTL DEF Spec

THEOREM NobodyIsDeaf == Spec => []NoDeafConnection
<1>1. Heard => NoDeafConnection
  BY DEF Heard, Noticed, NoDeafConnection
<1> QED
  BY <1>1, InitTypes, StepTypes, InitHeard, StepHeard, PTL DEF Spec

-----------------------------------------------------------------------------
(* The stream implements EventLog, with a free lane and no heartbeats *)

\* A queue is in the order of the log.
Rising(s) == \A i, j \in 1 .. Len(s) : i < j => s[i] < s[j]

LEMMA RisingAppended ==
  ASSUME NEW N \in Nat, NEW s \in Seq(1 .. N), Rising(s), NEW n \in Nat,
         \A e \in Range(s) : e < n
  PROVE  Rising(Append(s, n))
<1>1. s \in Seq(Nat) /\ Len(s) \in Nat /\ \A i \in 1 .. Len(s) : s[i] \in 1 .. N /\ s[i] \in Range(s)
  BY SeqMonotonic, LenProperties, ElementOfSeq, RangeEquality
<1>2. /\ Len(Append(s, n)) = Len(s) + 1 /\ Append(s, n)[Len(s) + 1] = n
      /\ \A i \in 1 .. Len(s) : Append(s, n)[i] = s[i]
  BY <1>1, AppendProperties
<1> SUFFICES ASSUME NEW i \in 1 .. Len(s) + 1, NEW j \in 1 .. Len(s) + 1, i < j
             PROVE  Append(s, n)[i] < Append(s, n)[j]
  BY <1>2 DEF Rising
<1>3. i \in 1 .. Len(s) /\ (j \in 1 .. Len(s) \/ j = Len(s) + 1)
  BY <1>1
<1>4. CASE j \in 1 .. Len(s)
  BY <1>2, <1>3, <1>4 DEF Rising
<1>5. CASE j = Len(s) + 1
  BY <1>1, <1>2, <1>3, <1>5
<1> QED
  BY <1>3, <1>4, <1>5

LEMMA RisingTaken ==
  ASSUME NEW N \in Nat, NEW s \in Seq(1 .. N), s # <<>>, Rising(s)
  PROVE  Rising(Tail(s)) /\ \A e \in Range(Tail(s)) : e > Head(s)
<1>1. /\ Len(s) \in Nat \ {0} /\ Len(Tail(s)) = Len(s) - 1 /\ Tail(s) \in Seq(1 .. N)
      /\ \A i \in 1 .. Len(Tail(s)) : Tail(s)[i] = s[i + 1]
      /\ Head(s) = s[1] /\ \A i \in 1 .. Len(s) : s[i] \in 1 .. N
  BY HeadTailProperties, EmptySeq, ElementOfSeq
<1>2. Rising(Tail(s))
  <2> SUFFICES ASSUME NEW i \in 1 .. Len(s) - 1, NEW j \in 1 .. Len(s) - 1, i < j
               PROVE  Tail(s)[i] < Tail(s)[j]
    BY <1>1 DEF Rising
  <2>1. i + 1 \in 1 .. Len(s) /\ j + 1 \in 1 .. Len(s) /\ i + 1 < j + 1
    BY <1>1
  <2>2. s[i + 1] < s[j + 1]
    BY <2>1 DEF Rising
  <2> QED
    BY <1>1, <2>2
<1>3. \A e \in Range(Tail(s)) : e > Head(s)
  <2>0. Range(Tail(s)) = {Tail(s)[i] : i \in 1 .. Len(s) - 1}
    <3>1. Range(Tail(s)) = {Tail(s)[i] : i \in 1 .. Len(Tail(s))}
      BY <1>1, RangeEquality
    <3> QED
      BY <1>1, <3>1
  <2> SUFFICES ASSUME NEW i \in 1 .. Len(s) - 1 PROVE Tail(s)[i] > Head(s)
    BY <2>0
  <2>1. 1 \in 1 .. Len(s) /\ i + 1 \in 1 .. Len(s) /\ 1 < i + 1
    BY <1>1
  <2>2. s[1] < s[i + 1] /\ s[1] \in 1 .. N /\ s[i + 1] \in 1 .. N
    BY <1>1, <2>1 DEF Rising
  <2> QED
    BY <1>1, <2>2
<1> QED
  BY <1>2, <1>3

\* What the client of k has still to be shown by k, in order and after what it was.
Coming(k, s) == Rising(s) /\ \A n \in Range(s) : n > LastId(Client(k))

\* A connection is the latest of its client, is over, or has not begun; it has a queue
\* once it is live, and events to replay before.
Ordered(k) ==
  /\ phase[k] # "beat"
  /\ k \in registered => phase[k] = "live"
  /\ phase[k] \in {"replay", "live"} => k[2] = attempts[Client(k)]
  /\ k[2] > attempts[Client(k)] => phase[k] = "unused"
  /\ phase[k] \in {"unused", "replay"} => queue[k] = <<>>
  /\ phase[k] = "replay" => Coming(k, batch[k])
  /\ phase[k] = "live" => Coming(k, queue[k])

\* An emit that is suspended comes after all that is in the queues it has still to
\* visit, which are registered.
Tidy(m) ==
  /\ m.full \in registered /\ m.todo \subseteq registered \ {m.full}
  /\ \A k \in m.todo : LastId(Client(k)) < m.seq /\ \A n \in Range(queue[k]) : n < m.seq

InLine ==
  /\ \A k \in Conns : Ordered(k)
  /\ \A m \in emits : Tidy(m)
  /\ \A m, e \in emits : m = e

LEMMA InitInLine == Init => InLine
<1> SUFFICES ASSUME Init PROVE InLine
  OBVIOUS
<1>1. \A k \in Conns : Client(k) \in Clients /\ k[2] \in 1 .. MaxConns
  BY DEF Conns, Client
<1> QED
  BY <1>1 DEF Init, InLine, Ordered

\* What a broadcast does to the queues, and what it may leave to do.
Spread(src, n, K, q) ==
  /\ \A k \in Conns : queue'[k] = q[k] \/ (k \in K /\ queue'[k] = Append(q[k], n))
  /\ \/ emits' = {}
     \/ \E full \in K : \E todo \in SUBSET (K \ {full}) :
          /\ \A k \in todo : queue'[k] = q[k]
          /\ emits' = {[src |-> src, seq |-> n, full |-> full, todo |-> todo]}

LEMMA BroadcastShape ==
  ASSUME NEW N \in Nat, NEW n, NEW src, NEW K \in SUBSET Conns, NEW q \in [Conns -> UpTo(N)],
         Broadcast(src, n, K, q, {})
  PROVE  Spread(src, n, K, q)
<1>1. ASSUME NEW P \in SUBSET K, queue' = Offer(q, n, P)
      PROVE  /\ \A k \in Conns : queue'[k] = q[k] \/ (k \in K /\ queue'[k] = Append(q[k], n))
             /\ \A k \in K \ P : queue'[k] = q[k]
  <2>1. /\ \A k \in P : k \in Conns /\ k \in K /\ queue'[k] = Append(q[k], n)
        /\ \A k \in Conns \ P : queue'[k] = q[k]
    BY <1>1 DEF Offer
  <2>2. \A k \in Conns : queue'[k] = q[k] \/ (k \in K /\ queue'[k] = Append(q[k], n))
    BY <2>1
  <2> QED
    BY <2>1, <2>2
<1>2. CASE queue' = Offer(q, n, K) /\ emits' = {}
  <2>1. \A k \in Conns : queue'[k] = q[k] \/ (k \in K /\ queue'[k] = Append(q[k], n))
    BY <1>1, <1>2
  <2> QED
    BY <1>2, <2>1 DEF Spread
<1>3. ASSUME NEW full \in K, NEW put \in SUBSET (K \ {full}), queue' = Offer(q, n, put),
             emits' = {[src |-> src, seq |-> n, full |-> full, todo |-> K \ (put \cup {full})]}
      PROVE  \E f \in K : \E todo \in SUBSET (K \ {f}) :
               /\ \A k \in todo : queue'[k] = q[k]
               /\ emits' = {[src |-> src, seq |-> n, full |-> f, todo |-> todo]}
  <2>1. K \ (put \cup {full}) \in SUBSET (K \ {full})
    OBVIOUS
  <2>2. \A k \in K \ (put \cup {full}) : queue'[k] = q[k]
    BY <1>1, <1>3
  <2> QED
    BY <1>3, <2>1, <2>2
<1>4. \/ queue' = Offer(q, n, K) /\ emits' = {}
      \/ \E full \in K : \E put \in SUBSET (K \ {full}) :
           /\ queue' = Offer(q, n, put)
           /\ emits' = {[src |-> src, seq |-> n, full |-> full, todo |-> K \ (put \cup {full})]}
  <2>1. ASSUME NEW full \in {k \in K : Len(q[k]) >= QMax},
               NEW put \in SUBSET (K \ {k \in K : Len(q[k]) >= QMax})
        PROVE  put \in SUBSET (K \ {full})
    OBVIOUS
  <2> QED
    BY <2>1 DEF Broadcast
<1>5. ASSUME NEW full \in K, NEW put \in SUBSET (K \ {full}), queue' = Offer(q, n, put)
      PROVE  \A k \in Conns : queue'[k] = q[k] \/ (k \in K /\ queue'[k] = Append(q[k], n))
  BY <1>1, <1>5
<1> QED
  BY <1>2, <1>3, <1>4, <1>5 DEF Spread

\* The queues stay in order when an event comes after all that they have.
LEMMA BroadcastInLine ==
  ASSUME InLine, registered' \subseteq registered, UNCHANGED <<phase, batch, attempts, got>>,
         NEW N \in Nat, NEW n \in 1 .. N, NEW src, NEW K \in SUBSET Conns, K \subseteq registered',
         NEW q \in [Conns -> UpTo(N)], Broadcast(src, n, K, q, {}),
         \A k \in Conns : phase[k] = "live" => Coming(k, q[k]),
         \A k \in Conns : phase[k] \in {"unused", "replay"} => q[k] = <<>>,
         \A k \in K : LastId(Client(k)) < n /\ \A e \in Range(q[k]) : e < n
  PROVE  InLine'
<1>1. /\ \A k \in Conns : queue'[k] = q[k] \/ (k \in K /\ queue'[k] = Append(q[k], n))
      /\ \/ emits' = {}
         \/ \E full \in K : \E todo \in SUBSET (K \ {full}) :
              /\ \A k \in todo : queue'[k] = q[k]
              /\ emits' = {[src |-> src, seq |-> n, full |-> full, todo |-> todo]}
  <2>1. Spread(src, n, K, q)
    BY BroadcastShape
  <2> QED
    BY <2>1 DEF Spread
<1>2. \A c : LastId(c)' = LastId(c)
  BY DEF LastId
<1>3. ASSUME NEW k \in Conns PROVE Ordered(k)'
  <2>1. Ordered(k)
    BY DEF InLine
  <2>2. phase[k] = "live" => Coming(k, queue[k])'
    <3> SUFFICES ASSUME phase[k] = "live" PROVE Coming(k, queue[k])'
      OBVIOUS
    <3>1. Coming(k, q[k]) /\ q[k] \in Seq(1 .. N)
      BY DEF UpTo
    <3>2. CASE queue'[k] = q[k]
      BY <1>2, <3>1, <3>2 DEF Coming
    <3>3. CASE k \in K /\ queue'[k] = Append(q[k], n)
      <4>1. LastId(Client(k)) < n /\ \A e \in Range(q[k]) : e < n
        BY <3>3
      <4>2. Rising(queue'[k])
        BY <3>1, <3>3, <4>1, RisingAppended DEF Coming
      <4>3. Range(queue'[k]) = Range(q[k]) \cup {n}
        BY <3>1, <3>3, Appended
      <4>4. \A e \in Range(queue'[k]) : e > LastId(Client(k))
        BY <3>1, <4>1, <4>3 DEF Coming
      <4> QED
        BY <1>2, <4>2, <4>4 DEF Coming
    <3> QED
      BY <1>1, <3>2, <3>3
  <2>3. phase[k] \in {"unused", "replay"} => queue'[k] = <<>>
    BY <1>1, <2>1 DEF Ordered
  <2>4. phase[k] = "replay" => Coming(k, batch[k])'
    BY <1>2, <2>1 DEF Ordered, Coming
  <2> QED
    BY <2>1, <2>2, <2>3, <2>4 DEF Ordered
<1>4. CASE emits' = {}
  BY <1>3, <1>4 DEF InLine
<1>5. ASSUME NEW full \in K, NEW todo \in SUBSET (K \ {full}), \A k \in todo : queue'[k] = q[k],
             emits' = {[src |-> src, seq |-> n, full |-> full, todo |-> todo]}
      PROVE  InLine'
  <2>1. PICK m : m = [src |-> src, seq |-> n, full |-> full, todo |-> todo]
    OBVIOUS
  <2>2. m.seq = n /\ m.full = full /\ m.todo = todo
    BY <2>1
  <2>3. emits' = {m}
    BY <1>5, <2>1
  <2>4. \A k \in todo : LastId(Client(k))' < n /\ \A e \in Range(queue'[k]) : e < n
    BY <1>2, <1>5
  <2>5. Tidy(m)'
    BY <2>2, <2>4 DEF Tidy
  <2> QED
    BY <1>3, <2>3, <2>5 DEF InLine
<1> QED
  BY <1>1, <1>4, <1>5

LEMMA PublishInLine ==
  ASSUME Types, InLine, emits = {}, NEW src \in Sources, NEW kind \in Kinds, Publish(src, kind),
         UNCHANGED <<phase, batch>>
  PROVE  InLine'
<1>1. PICK N : N = Len(log')
  OBVIOUS
<1>2. /\ N \in Nat /\ N \in 1 .. N /\ Len(log) \in Nat /\ N = Len(log) + 1
      /\ queue \in [Conns -> UpTo(N)]
  BY <1>1, LogGrows DEF Publish
<1>3. PICK q : q = queue
  OBVIOUS
<1>4. PICK K : K = registered
  OBVIOUS
<1>5. /\ registered' = registered /\ UNCHANGED <<attempts, got>>
      /\ registered \in SUBSET Conns /\ \A k \in Conns : queue[k] \in Seq(1 .. Len(log))
      /\ \A k \in Conns : Client(k) \in Clients
  BY DEF Publish, Types, TypeOK, Conns, Client
<1>6. \A k \in K : LastId(Client(k)) < N /\ \A e \in Range(q[k]) : e < N
  <2> SUFFICES ASSUME NEW k \in Conns PROVE LastId(Client(k)) < N /\ \A e \in Range(queue[k]) : e < N
    BY <1>3, <1>4, <1>5
  <2>1. Range(queue[k]) \subseteq 1 .. Len(log)
    BY <1>5, RangeOfSeq
  <2>2. LastId(Client(k)) \in 0 .. Len(log)
    BY <1>5, ReplayFits
  <2> QED
    BY <1>2, <2>1, <2>2
<1>7. /\ \A k \in Conns : phase[k] = "live" => Coming(k, q[k])
      /\ \A k \in Conns : phase[k] \in {"unused", "replay"} => q[k] = <<>>
  BY <1>3 DEF InLine, Ordered
<1>8. Broadcast(src, N, K, q, {})
  BY <1>1, <1>3, <1>4 DEF Publish
<1> QED
  BY <1>2, <1>3, <1>4, <1>5, <1>6, <1>7, <1>8, BroadcastInLine

LEMMA SlowInLine ==
  ASSUME Types, InLine, NEW m \in emits, EmitSlow(m)
  PROVE  InLine'
<1>1. PICK N : N = Len(log')
  OBVIOUS
<1>2. /\ N \in Nat \ {0} /\ N \in 1 .. N /\ Len(log) \in Nat /\ N = Len(log) + 1
      /\ queue \in [Conns -> UpTo(N)] /\ emits \subseteq EmitsUpTo(N)
  BY <1>1, LogGrows DEF EmitSlow, Kinds
<1>3. /\ m.full \in Conns /\ m.todo \in SUBSET Conns /\ m.seq \in 1 .. N
  BY <1>2 DEF EmitsUpTo, Emit
<1>4. Tidy(m) /\ emits \ {m} = {}
  BY DEF InLine
<1>5. PICK oldest : oldest = IF queue[m.full] = <<>> THEN <<>> ELSE Tail(queue[m.full])
  OBVIOUS
<1>6. PICK notice : notice = IF Len(oldest) >= QMax THEN oldest ELSE Append(oldest, N)
  OBVIOUS
<1>7. PICK q : q = [queue EXCEPT ![m.full] = notice]
  OBVIOUS
<1>8. \A k \in Conns : Client(k) \in Clients /\ queue[k] \in Seq(1 .. Len(log)) /\ Len(queue[k]) <= QMax
  BY DEF Types, TypeOK, Conns, Client
<1>9. notice \in UpTo(N)
  <2>1. queue[m.full] \in UpTo(N) /\ Len(queue[m.full]) <= QMax
    BY <1>2, <1>3, <1>8
  <2> QED
    BY <1>2, <1>5, <1>6, <2>1, NoticeFits
<1>10. phase[m.full] = "live" /\ Coming(m.full, queue[m.full])
  BY <1>3, <1>4 DEF InLine, Tidy, Ordered
<1>11. oldest \in Seq(1 .. Len(log)) /\ Coming(m.full, oldest)
  <2>1. CASE queue[m.full] = <<>>
    BY <1>3, <1>5, <1>8, <1>10, <2>1
  <2>2. CASE queue[m.full] # <<>>
    <3>1. oldest = Tail(queue[m.full]) /\ queue[m.full] \in Seq(1 .. Len(log))
      BY <1>3, <1>5, <1>8, <2>2
    <3>2. Rising(Tail(queue[m.full]))
      BY <1>2, <1>10, <2>2, <3>1, RisingTaken DEF Coming
    <3>3. /\ Tail(queue[m.full]) \in Seq(1 .. Len(log))
          /\ Range(Tail(queue[m.full])) \subseteq Range(queue[m.full])
      BY <2>2, <3>1, Taken
    <3> QED
      BY <1>10, <3>1, <3>2, <3>3 DEF Coming
  <2> QED
    BY <2>1, <2>2
<1>12. Coming(m.full, notice)
  <2>1. CASE notice = oldest
    BY <1>11, <2>1
  <2>2. CASE notice = Append(oldest, N)
    <3>1. \A e \in Range(oldest) : e < N
      <4>1. Range(oldest) \subseteq 1 .. Len(log)
        BY <1>11, RangeOfSeq
      <4> QED
        BY <1>2, <4>1
    <3>2. Rising(Append(oldest, N))
      BY <1>2, <1>11, <3>1, RisingAppended DEF Coming
    <3>3. Range(Append(oldest, N)) = Range(oldest) \cup {N}
      <4>1. oldest \in Seq(Nat) /\ N \in Nat
        BY <1>2, <1>11, SeqMonotonic
      <4> QED
        BY <4>1, Appended
    <3>4. N > LastId(Client(m.full))
      <4>1. LastId(Client(m.full)) \in 0 .. Len(log)
        BY <1>3, <1>8, ReplayFits
      <4> QED
        BY <1>2, <4>1
    <3> QED
      BY <1>11, <2>2, <3>2, <3>3, <3>4 DEF Coming
  <2> QED
    BY <1>6, <2>1, <2>2
<1>13. /\ q \in [Conns -> UpTo(N)] /\ q[m.full] = notice
       /\ \A k \in Conns \ {m.full} : q[k] = queue[k]
  BY <1>2, <1>3, <1>7, <1>9
<1>14. \A k \in Conns : phase[k] = "live" => Coming(k, q[k])
  <2> SUFFICES ASSUME NEW k \in Conns, phase[k] = "live" PROVE Coming(k, q[k])
    OBVIOUS
  <2>1. CASE k = m.full
    BY <1>12, <1>13, <2>1
  <2>2. CASE k # m.full
    BY <1>13, <2>2 DEF InLine, Ordered
  <2> QED
    BY <2>1, <2>2
<1>15. \A k \in Conns : phase[k] \in {"unused", "replay"} => q[k] = <<>>
  BY <1>10, <1>13 DEF InLine, Ordered
<1>16. /\ registered' = registered \ {m.full} /\ UNCHANGED <<phase, batch, attempts, got>>
       /\ Broadcast(m.src, m.seq, m.todo, q, {})
  BY <1>1, <1>4, <1>5, <1>6, <1>7 DEF EmitSlow
<1>17. ASSUME NEW src, NEW n \in 1 .. N, NEW K \in SUBSET Conns, Broadcast(src, n, K, q, {}),
              K \subseteq registered \ {m.full},
              \A k \in K : LastId(Client(k)) < n /\ \A e \in Range(queue[k]) : e < n
       PROVE  InLine'
  <2>1. \A k \in K : LastId(Client(k)) < n /\ \A e \in Range(q[k]) : e < n
    BY <1>13, <1>17
  <2>2. N \in Nat /\ registered' \subseteq registered /\ K \subseteq registered'
        /\ UNCHANGED <<phase, batch, attempts, got>>
    BY <1>2, <1>16, <1>17
  <2> QED
    BY <1>13, <1>14, <1>15, <1>17, <2>1, <2>2, BroadcastInLine
<1> QED
  BY <1>3, <1>4, <1>16, <1>17 DEF Tidy

\* A client is shown an event: it is its Last-Event-ID from then on.
LEMMA Shown ==
  ASSUME Types, NEW c \in Clients, NEW n \in 1 .. Len(log), Receive(c, n)
  PROVE  LastId(c)' = n /\ \A d \in Clients \ {c} : LastId(d)' = LastId(d)
<1>1. got \in [Clients -> Seq(1 .. Len(log))]
  BY DEF Types, TypeOK
<1>2. PICK s : s = Append(got[c], n)
  OBVIOUS
<1>3. /\ got[c] \in Seq(1 .. Len(log)) /\ Len(got[c]) \in Nat
      /\ Len(s) = Len(got[c]) + 1 /\ s[Len(got[c]) + 1] = n
  BY <1>1, <1>2, AppendProperties, LenProperties
<1>4. s # <<>> /\ s[Len(s)] = n
  BY <1>3
<1>5. got'[c] = s /\ \A d \in Clients \ {c} : got'[d] = got[d]
  BY <1>1, <1>2 DEF Receive
<1> QED
  BY <1>4, <1>5 DEF LastId

\* The replayed rows are in order, and after what the client was shown.
LEMMA ReplayComing ==
  ASSUME Types, NEW k \in Conns
  PROVE  Coming(k, Replay(Client(k)))
<1>1. PICK c : c = Client(k)
  OBVIOUS
<1>2. LastId(c) \in 0 .. Len(log) /\ Replay(c) \in Seq(1 .. Len(log)) /\ Len(log) \in Nat
  <2>1. c \in Clients
    BY <1>1 DEF Conns, Client
  <2> QED
    BY <2>1, ReplayFits DEF Types, TypeOK
<1>3. PICK last : last = LastId(c)
  OBVIOUS
<1>4. PICK size : size = IF Len(log) - last < ReplayLimit THEN Len(log) - last ELSE ReplayLimit
  OBVIOUS
<1>5. last \in Nat /\ size \in Nat
  BY <1>2, <1>3, <1>4, BoundsAssumption
<1>6. Replay(c) = [i \in 1 .. size |-> last + i]
  BY <1>3, <1>4 DEF Replay
<1>7. PICK s : s = Replay(c)
  OBVIOUS
<1>8. Len(s) = size /\ \A i \in 1 .. size : s[i] = last + i
  <2>1. s = [i \in 1 .. size |-> last + i]
    BY <1>6, <1>7
  <2>2. s \in Seq(Nat) /\ DOMAIN s = 1 .. size
    BY <1>2, <1>7, <2>1, SeqMonotonic
  <2> QED
    BY <1>5, <2>1, <2>2, LenProperties
<1>9. Rising(s)
  BY <1>5, <1>8 DEF Rising
<1>10. \A n \in Range(s) : n > last
  <2>1. Range(s) = {s[i] : i \in 1 .. Len(s)}
    BY <1>2, <1>7, RangeEquality
  <2> QED
    BY <1>5, <1>8, <2>1
<1> QED
  BY <1>1, <1>3, <1>7, <1>9, <1>10 DEF Coming

LEMMA ConnectInLine ==
  ASSUME Types, InLine, emits = {}, NEW c \in Clients, Connect(c)
  PROVE  InLine'
<1>1. PICK j : j = <<c, attempts[c] + 1>>
  OBVIOUS
<1>2. attempts[c] \in 0 .. MaxConns /\ attempts[c] < MaxConns /\ MaxConns \in Nat
  BY BoundsAssumption DEF Types, TypeOK, Connect
<1>3. /\ j \in Conns /\ Client(j) = c /\ j[2] = attempts[c] + 1
  BY <1>1, <1>2 DEF Conns, Client
<1>4. /\ phase' = [phase EXCEPT ![j] = "replay"] /\ batch' = [batch EXCEPT ![j] = Replay(c)]
      /\ attempts' = [attempts EXCEPT ![c] = attempts[c] + 1]
      /\ attempts[c] > 0 => phase[<<c, attempts[c]>>] = "closed"
      /\ UNCHANGED <<registered, queue, emits, got>>
  BY <1>1 DEF Connect
<1>5. /\ phase'[j] = "replay" /\ batch'[j] = Replay(c)
      /\ attempts'[c] = attempts[c] + 1 /\ \A d \in Clients \ {c} : attempts'[d] = attempts[d]
      /\ \A k \in Conns \ {j} : phase'[k] = phase[k] /\ batch'[k] = batch[k]
  BY <1>3, <1>4 DEF Types, TypeOK
<1>6. \A d : LastId(d)' = LastId(d)
  BY <1>4 DEF LastId
<1>7. Ordered(j)'
  <2>1. j \notin registered /\ queue[j] = <<>>
    BY <1>2, <1>3 DEF InLine, Ordered
  <2>2. Coming(j, batch[j])'
    BY <1>3, <1>5, <1>6, ReplayComing DEF Coming
  <2>3. j[2] = attempts'[Client(j)] /\ attempts'[Client(j)] \in Nat
    BY <1>2, <1>3, <1>5
  <2> QED
    BY <1>4, <1>5, <2>1, <2>2, <2>3 DEF Ordered
<1>8. ASSUME NEW k \in Conns \ {j} PROVE Ordered(k)'
  <2>1. Ordered(k) /\ phase'[k] = phase[k] /\ batch'[k] = batch[k]
    BY <1>5 DEF InLine
  <2>2. Client(k) \in Clients /\ k[2] \in 1 .. MaxConns /\ k = <<Client(k), k[2]>>
    BY DEF Conns, Client
  <2>3. CASE Client(k) = c
    <3>1. phase[k] \notin {"replay", "live"}
      <4> SUFFICES ASSUME phase[k] \in {"replay", "live"} PROVE FALSE
        OBVIOUS
      <4>1. k[2] = attempts[c]
        BY <2>1, <2>3 DEF Ordered
      <4>2. k = <<c, attempts[c]>> /\ attempts[c] > 0
        BY <1>2, <2>2, <2>3, <4>1
      <4> QED
        BY <1>4, <4>2
    <3>2. k[2] > attempts'[c] => k[2] > attempts[c]
      BY <1>2, <1>5, <2>2
    <3>3. k \notin registered /\ phase[k] # "beat" /\ (k[2] > attempts[c] => phase[k] = "unused")
          /\ (phase[k] = "unused" => queue[k] = <<>>)
      BY <2>1, <2>3, <3>1 DEF Ordered
    <3> QED
      BY <1>4, <2>1, <2>3, <3>1, <3>2, <3>3 DEF Ordered
  <2>4. CASE Client(k) # c
    <3>1. attempts'[Client(k)] = attempts[Client(k)]
      BY <1>5, <2>2, <2>4
    <3> QED
      BY <1>4, <1>6, <2>1, <3>1 DEF Ordered, Coming
  <2> QED
    BY <2>3, <2>4
<1> QED
  BY <1>4, <1>7, <1>8 DEF InLine

\* No other connection of the client is under way when it is shown an event.
LEMMA ShownInLine ==
  ASSUME Types, InLine, NEW k \in Conns, phase[k] \in {"replay", "live"},
         NEW n \in 1 .. Len(log), Receive(Client(k), n),
         emits' = {}, UNCHANGED attempts, registered' \subseteq registered,
         \A j \in Conns \ {k} : phase'[j] = phase[j] /\ queue'[j] = queue[j] /\ batch'[j] = batch[j],
         Ordered(k)'
  PROVE  InLine'
<1>1. /\ \A j \in Conns : Client(j) \in Clients /\ j = <<Client(j), j[2]>>
      /\ \A d \in Clients \ {Client(k)} : LastId(d)' = LastId(d)
  BY Shown DEF Conns, Client
<1>2. ASSUME NEW j \in Conns \ {k} PROVE Ordered(j)'
  <2>1. Ordered(j) /\ phase'[j] = phase[j] /\ queue'[j] = queue[j] /\ batch'[j] = batch[j]
    BY DEF InLine
  <2>2. CASE Client(j) = Client(k)
    <3>1. phase[j] \notin {"replay", "live"}
      BY <1>1, <2>1, <2>2 DEF InLine, Ordered
    <3> QED
      BY <2>1, <3>1 DEF Ordered
  <2>3. CASE Client(j) # Client(k)
    <3>1. LastId(Client(j))' = LastId(Client(j))
      BY <1>1, <2>3
    <3> QED
      BY <2>1, <3>1 DEF Ordered, Coming
  <2> QED
    BY <2>2, <2>3
<1> QED
  BY <1>2 DEF InLine

\* What a generator yields comes next to its client.
LEMMA ServeInLine ==
  ASSUME Types, InLine, emits = {}, NEW k \in Conns, YieldReplay(k) \/ Register(k) \/ Deliver(k)
  PROVE  InLine'
<1>1. /\ Len(log) \in Nat /\ queue[k] \in Seq(1 .. Len(log)) /\ batch[k] \in Seq(1 .. Len(log))
      /\ Client(k) \in Clients /\ Ordered(k)
  BY DEF Types, TypeOK, InLine, Conns, Client
<1>2. ASSUME NEW s \in Seq(1 .. Len(log)), s # <<>>, Coming(k, s), Receive(Client(k), Head(s))
      PROVE  Head(s) \in 1 .. Len(log) /\ Coming(k, Tail(s))'
  <2>1. Head(s) \in 1 .. Len(log)
    BY <1>2, Taken
  <2>2. LastId(Client(k))' = Head(s)
    BY <1>1, <1>2, <2>1, Shown
  <2>3. Rising(Tail(s)) /\ \A e \in Range(Tail(s)) : e > Head(s)
    BY <1>1, <1>2, RisingTaken DEF Coming
  <2>4. \A e \in Range(Tail(s)) : e > LastId(Client(k))'
    BY <2>2, <2>3
  <2> QED
    BY <2>1, <2>3, <2>4 DEF Coming
<1>3. CASE YieldReplay(k)
  <2>1. /\ phase[k] = "replay" /\ batch[k] # <<>> /\ Receive(Client(k), Head(batch[k]))
        /\ UNCHANGED <<registered, queue, emits, phase, attempts>>
    BY <1>3 DEF YieldReplay
  <2>2. /\ batch'[k] = Tail(batch[k]) /\ \A j \in Conns \ {k} : batch'[j] = batch[j]
    BY <1>3 DEF YieldReplay, Types, TypeOK
  <2>3. Head(batch[k]) \in 1 .. Len(log) /\ \E s : s = Tail(batch[k]) /\ Coming(k, s)'
    <3>1. PICK s : s = batch[k]
      OBVIOUS
    <3>2. s \in Seq(1 .. Len(log)) /\ s # <<>> /\ Coming(k, s) /\ Receive(Client(k), Head(s))
      BY <1>1, <2>1, <3>1 DEF Ordered
    <3>3. Head(s) \in 1 .. Len(log) /\ Coming(k, Tail(s))'
      BY <1>2, <3>2
    <3> QED
      BY <3>1, <3>3
  <2>4. Coming(k, batch[k])'
    BY <2>2, <2>3 DEF Coming
  <2>5. Ordered(k)'
    BY <1>1, <2>1, <2>4 DEF Ordered
  <2> QED
    BY <2>1, <2>2, <2>3, <2>5, ShownInLine
<1>4. CASE Register(k)
  <2>1. /\ phase[k] = "replay" /\ phase' = [phase EXCEPT ![k] = "live"]
        /\ registered' = registered \cup {k} /\ UNCHANGED <<queue, emits, batch, attempts, got>>
    BY <1>4 DEF Register
  <2>2. /\ phase'[k] = "live" /\ \A j \in Conns \ {k} : phase'[j] = phase[j]
        /\ \A d : LastId(d)' = LastId(d)
    BY <2>1 DEF Types, TypeOK, LastId
  <2>3. queue[k] = <<>> /\ k[2] = attempts[Client(k)] /\ attempts[Client(k)] \in Nat
    BY <1>1, <2>1 DEF Ordered, Types, TypeOK
  <2>4. Coming(k, queue[k])'
    <3>1. Len(<<>>) = 0 /\ Range(<<>>) = {}
      BY DEF Range
    <3> QED
      BY <2>1, <2>3, <3>1 DEF Coming, Rising
  <2>5. Ordered(k)'
    BY <2>1, <2>2, <2>3, <2>4 DEF Ordered
  <2>6. ASSUME NEW j \in Conns \ {k} PROVE Ordered(j)'
    <3>1. Ordered(j)
      BY DEF InLine
    <3> QED
      BY <2>1, <2>2, <3>1 DEF Ordered, Coming
  <2> QED
    BY <2>1, <2>5, <2>6 DEF InLine
<1>5. CASE Deliver(k)
  <2>1. /\ phase[k] = "live" /\ queue[k] # <<>> /\ Receive(Client(k), Head(queue[k]))
        /\ \/ phase' = [phase EXCEPT ![k] = "closed"] /\ registered' = registered \ {k}
           \/ UNCHANGED <<phase, registered>>
        /\ UNCHANGED <<emits, batch, attempts>>
    BY <1>5 DEF Deliver
  <2>2. queue'[k] = Tail(queue[k]) /\ \A j \in Conns \ {k} : queue'[j] = queue[j]
    BY <1>5 DEF Deliver, Types, TypeOK
  <2>3. /\ \A j \in Conns \ {k} : phase'[j] = phase[j]
        /\ \/ phase'[k] = "closed" /\ k \notin registered'
           \/ phase'[k] = "live"
    BY <2>1 DEF Types, TypeOK
  <2>4. Head(queue[k]) \in 1 .. Len(log) /\ \E s : s = Tail(queue[k]) /\ Coming(k, s)'
    <3>1. PICK s : s = queue[k]
      OBVIOUS
    <3>2. s \in Seq(1 .. Len(log)) /\ s # <<>> /\ Coming(k, s) /\ Receive(Client(k), Head(s))
      BY <1>1, <2>1, <3>1 DEF Ordered
    <3>3. Head(s) \in 1 .. Len(log) /\ Coming(k, Tail(s))'
      BY <1>2, <3>2
    <3> QED
      BY <3>1, <3>3
  <2>5. Coming(k, queue[k])'
    BY <2>2, <2>4 DEF Coming
  <2>6. k[2] = attempts[Client(k)] /\ attempts[Client(k)] \in Nat
    BY <1>1, <2>1 DEF Ordered, Types, TypeOK
  <2>7. Ordered(k)'
    BY <2>1, <2>3, <2>5, <2>6 DEF Ordered
  <2> QED
    BY <2>1, <2>2, <2>3, <2>4, <2>7, ShownInLine
<1> QED
  BY <1>3, <1>4, <1>5

LEMMA DisconnectInLine ==
  ASSUME Types, InLine, emits = {}, NEW k \in Conns, Disconnect(k)
  PROVE  InLine'
<1>1. /\ phase[k] \in {"replay", "live", "beat"} /\ phase' = [phase EXCEPT ![k] = "closed"]
      /\ registered' = registered \ {k} /\ emits' = {}
      /\ batch' = [batch EXCEPT ![k] = <<>>] /\ UNCHANGED <<queue, attempts, got>>
  BY DEF Disconnect
<1>2. /\ phase'[k] = "closed" /\ \A d : LastId(d)' = LastId(d)
      /\ \A j \in Conns \ {k} : phase'[j] = phase[j] /\ batch'[j] = batch[j]
  BY <1>1 DEF Types, TypeOK, LastId
<1>3. ASSUME NEW j \in Conns PROVE Ordered(j)'
  <2>1. Ordered(j)
    BY DEF InLine
  <2>2. CASE j = k
    BY <1>1, <1>2, <2>1, <2>2 DEF Ordered
  <2>3. CASE j # k
    BY <1>1, <1>2, <2>1, <2>3 DEF Ordered, Coming
  <2> QED
    BY <2>2, <2>3
<1> QED
  BY <1>1, <1>3 DEF InLine

\* With a free lane and no heartbeats these are all the steps there are.
LEMMA QuietSteps ==
  ASSUME ~LaneBusy, ~Heartbeats, Types, InLine, Next
  PROVE  \/ emits = {} /\ \E src \in Emitters : EmitEvent(src)
         \/ \E m \in emits : EmitSlow(m)
         \/ emits = {} /\ \E c \in Clients : Connect(c)
         \/ emits = {} /\ \E k \in Conns : \/ YieldReplay(k) \/ Register(k) \/ Deliver(k)
                                           \/ Disconnect(k)
<1>1. LoopFree => emits = {}
  BY DEF LoopFree
<1>2. ASSUME NEW k \in Conns, Serve(k) \/ Silence(k) \/ Disconnect(k)
      PROVE  emits = {} /\ (YieldReplay(k) \/ Register(k) \/ Deliver(k) \/ Disconnect(k))
  <2>1. phase[k] # "beat"
    BY DEF InLine, Ordered
  <2>2. ~YieldBeat(k) /\ ~Beat(k) /\ ~Silence(k)
    BY <2>1 DEF YieldBeat, Beat, Silence
  <2>3. YieldReplay(k) \/ Register(k) \/ Deliver(k) \/ Disconnect(k)
    BY <1>2, <2>2 DEF Serve
  <2>4. LoopFree
    BY <2>3 DEF YieldReplay, Register, Deliver, Disconnect
  <2> QED
    BY <1>1, <2>3, <2>4
<1>3. ASSUME NEW src \in Emitters, EmitEvent(src) PROVE emits = {}
  BY <1>1, <1>3 DEF EmitEvent
<1>4. ASSUME NEW c \in Clients, Connect(c) PROVE emits = {}
  BY <1>1, <1>4 DEF Connect
<1> QED
  BY <1>2, <1>3, <1>4 DEF Next

LEMMA StepInLine ==
  ASSUME ~LaneBusy, ~Heartbeats, Types, InLine, [Next]_vars
  PROVE  InLine'
<1>1. ASSUME emits = {}, NEW src \in Emitters, EmitEvent(src) PROVE InLine'
  <2>1. PICK kind \in {"event", "done"} : Publish(src, kind)
    BY <1>1 DEF EmitEvent
  <2>2. src \in Sources /\ kind \in Kinds /\ UNCHANGED <<phase, batch>>
    BY <1>1 DEF Sources, Kinds, EmitEvent
  <2> QED
    BY <1>1, <2>1, <2>2, PublishInLine
<1>2. CASE UNCHANGED vars
  BY <1>2 DEF vars, InLine, Ordered, Tidy, Coming, LastId
<1>3. CASE Next
  BY <1>1, <1>3, QuietSteps, SlowInLine, ConnectInLine, ServeInLine, DisconnectInLine
<1> QED
  BY <1>2, <1>3

\* Every step is one of EventLog, or changes nothing of it.
LEMMA StepOfLog ==
  ASSUME ~LaneBusy, ~Heartbeats, Types, InLine, [Next]_vars
  PROVE  [Abstract!Next]_(Abstract!vars)
<1>1. ASSUME NEW src \in Emitters, EmitEvent(src) PROVE Abstract!Next
  <2>1. PICK kind \in {"event", "done"} : Publish(src, kind)
    BY <1>1 DEF EmitEvent
  <2>2. kind \in Kinds /\ Abstract!Publish(kind)
    BY <2>1 DEF Kinds, Publish, Abstract!Publish
  <2> QED
    BY <2>2 DEF Abstract!Next
<1>2. ASSUME NEW m \in emits, EmitSlow(m) PROVE Abstract!Next
  <2>1. "slow" \in Kinds /\ Abstract!Publish("slow")
    BY <1>2 DEF Kinds, EmitSlow, Abstract!Publish
  <2> QED
    BY <2>1 DEF Abstract!Next
<1>3. ASSUME NEW k \in Conns, NEW s \in Seq(1 .. Len(log)), s # <<>>, Coming(k, s),
             Receive(Client(k), Head(s)), UNCHANGED log
      PROVE  Abstract!Next
  <2>1. Client(k) \in Clients /\ Len(log) \in Nat /\ LastId(Client(k)) \in 0 .. Len(log)
    <3>1. Client(k) \in Clients
      BY DEF Conns, Client
    <3> QED
      BY <3>1, ReplayFits DEF Types, TypeOK
  <2>2. Head(s) \in 1 .. Len(log) /\ Head(s) \in Range(s)
    BY <1>3, Taken
  <2>3. Head(s) \in (LastId(Client(k)) + 1) .. Len(log)
    BY <1>3, <2>1, <2>2 DEF Coming
  <2>4. Abstract!LastSeen(Client(k)) = LastId(Client(k))
    BY DEF Abstract!LastSeen, LastId
  <2>5. Abstract!Show(Client(k), Head(s))
    BY <1>3 DEF Receive, Abstract!Show
  <2> QED
    BY <2>1, <2>3, <2>4, <2>5 DEF Abstract!Next
<1>4. ASSUME NEW k \in Conns, YieldReplay(k) PROVE Abstract!Next
  <2>1. /\ batch[k] \in Seq(1 .. Len(log)) /\ batch[k] # <<>> /\ Coming(k, batch[k])
        /\ Receive(Client(k), Head(batch[k])) /\ UNCHANGED log
    BY <1>4 DEF YieldReplay, Types, TypeOK, InLine, Ordered
  <2> QED
    BY <1>3, <2>1
<1>5. ASSUME NEW k \in Conns, Deliver(k) PROVE Abstract!Next
  <2>1. /\ queue[k] \in Seq(1 .. Len(log)) /\ queue[k] # <<>> /\ Coming(k, queue[k])
        /\ Receive(Client(k), Head(queue[k])) /\ UNCHANGED log
    BY <1>5 DEF Deliver, Types, TypeOK, InLine, Ordered
  <2> QED
    BY <1>3, <2>1
<1>6. ASSUME NEW c \in Clients, Connect(c) PROVE UNCHANGED Abstract!vars
  BY <1>6 DEF Connect, Abstract!vars
<1>7. ASSUME NEW k \in Conns, Register(k) \/ Disconnect(k) PROVE UNCHANGED Abstract!vars
  BY <1>7 DEF Register, Disconnect, Abstract!vars
<1>8. CASE UNCHANGED vars
  BY <1>8 DEF vars, Abstract!vars
<1>9. CASE Next
  BY <1>1, <1>2, <1>4, <1>5, <1>6, <1>7, <1>9, QuietSteps
<1> QED
  BY <1>8, <1>9

\* While no write waits for the lane and no heartbeat comes in between, a reader is
\* shown events of the log in its order, each at most once, however it reconnects.
THEOREM StreamImplementsLog ==
  ASSUME ~LaneBusy, ~Heartbeats
  PROVE  Spec => ImplementsLog
<1>1. Init => Abstract!Init
  BY DEF Init, Abstract!Init
<1>2. Types /\ InLine /\ [Next]_vars => InLine' /\ [Abstract!Next]_(Abstract!vars)
  BY StepInLine, StepOfLog
<1> QED
  BY <1>1, <1>2, InitTypes, StepTypes, InitInLine, PTL DEF Spec, ImplementsLog, Abstract!Spec

\* So the sequence numbers increase along a stream and from each to the next, which they
\* do not for a client of a stream with heartbeats.
THEOREM StreamInOrder ==
  ASSUME ~LaneBusy, ~Heartbeats
  PROVE  Spec => InOrder
<1>1. Types /\ InLine /\ [Next]_vars => [\A c \in Clients : LastId(c) <= LastId(c)']_vars
  <2> SUFFICES ASSUME Types, InLine, [Next]_vars, NEW c \in Clients
               PROVE  LastId(c) <= LastId(c)'
    OBVIOUS
  <2>1. got \in [Clients -> Seq(1 .. Len(log))] /\ LastId(c) \in Nat
    <3>1. LastId(c) \in 0 .. Len(log) /\ Len(log) \in Nat
      BY ReplayFits DEF Types, TypeOK
    <3> QED
      BY <3>1 DEF Types, TypeOK
  <2>2. CASE got' = got
    BY <2>1, <2>2 DEF LastId
  <2>3. ASSUME NEW d \in Clients, NEW n \in (LastId(d) + 1) .. Len(log),
               got' = [got EXCEPT ![d] = Append(@, n)]
        PROVE  LastId(c) <= LastId(c)'
    <3>1. CASE c = d
      <4>1. PICK s \in Seq(Nat) : s = got[c]
        <5>1. 1 .. Len(log) \subseteq Nat
          OBVIOUS
        <5>2. got[c] \in Seq(Nat)
          BY <2>1, <5>1, SeqMonotonic
        <5> QED
          BY <5>2
      <4>2. n \in Nat /\ LastId(c) <= n
        <5>1. Len(log) \in Nat
          BY DEF Types, TypeOK
        <5> QED
          BY <2>1, <3>1, <5>1
      <4>3. got'[c] = Append(s, n) /\ Append(s, n) # <<>> /\ Append(s, n)[Len(Append(s, n))] = n
        <5>1. got'[c] = Append(s, n)
          BY <2>1, <2>3, <3>1, <4>1
        <5>2. Len(Append(s, n)) = Len(s) + 1 /\ Append(s, n)[Len(s) + 1] = n /\ Len(s) \in Nat
          BY <4>1, <4>2, AppendProperties, LenProperties
        <5>3. Append(s, n) # <<>>
          BY <5>2, EmptySeq
        <5> QED
          BY <5>1, <5>2, <5>3
      <4>4. LastId(c)' = n
        BY <4>3 DEF LastId
      <4> QED
        BY <4>2, <4>4
    <3>2. CASE c # d
      <4>1. got'[c] = got[c]
        BY <2>1, <2>3, <3>2
      <4> QED
        BY <2>1, <4>1 DEF LastId
    <3> QED
      BY <3>1, <3>2
  <2>4. got' = got \/ \E d \in Clients : \E n \in (LastId(d) + 1) .. Len(log) :
                          got' = [got EXCEPT ![d] = Append(@, n)]
    <3>1. [Abstract!Next]_(Abstract!vars)
      BY StepOfLog
    <3> QED
      BY <3>1 DEF Abstract!Next, Abstract!vars, Abstract!Publish, Abstract!Show, Abstract!LastSeen, LastId
  <2> QED
    BY <2>2, <2>3, <2>4
<1> QED
  BY <1>1, StepInLine, InitTypes, StepTypes, InitInLine, PTL DEF Spec, InOrder
=============================================================================
