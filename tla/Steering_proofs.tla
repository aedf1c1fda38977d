-------------------------- MODULE Steering_proofs --------------------------
(***************************************************************************)
(* Proofs about Steering, for any stages, any length of the context and    *)
(* any number of messages, reviews and pauses.                             *)
(***************************************************************************)
EXTENDS Steering, FiniteSetTheorems, SequenceTheorems, TLAPS

-----------------------------------------------------------------------------
(* Rising sequences, and what is left of one that is cut *)

Rising(s) == \A i, j \in 1 .. Len(s) : i < j => s[i] < s[j]
Before(s, t) == \A i \in 1 .. Len(s), j \in 1 .. Len(t) : s[i] < t[j]

\* Message m is not among the latest ones, which fill the context s.
Fallen(m, s) == Len(s) = ContextMax /\ \A i \in 1 .. Len(s) : m < s[i]

LEMMA Joined ==
  ASSUME NEW s \in Seq(Nat), NEW t \in Seq(Nat), Rising(s), Rising(t), Before(s, t)
  PROVE  /\ s \o t \in Seq(Nat) /\ Rising(s \o t)
         /\ ToSet(s \o t) = ToSet(s) \cup ToSet(t)
<1>1. PICK u \in Seq(Nat) : u = s \o t
  <2>1. s \o t \in Seq(Nat)
    BY ConcatProperties
  <2> QED
    BY <2>1
<1>2. /\ Len(u) = Len(s) + Len(t) /\ Len(s) \in Nat /\ Len(t) \in Nat
      /\ \A i \in 1 .. Len(s) : u[i] = s[i]
      /\ \A i \in 1 .. Len(t) : u[Len(s) + i] = t[i]
  BY <1>1
<1>3. \A i \in 1 .. Len(u) : i \in 1 .. Len(s) \/ \E j \in 1 .. Len(t) : i = Len(s) + j
  <2> TAKE i \in 1 .. Len(u)
  <2>1. CASE i > Len(s)
    <3>1. i - Len(s) \in 1 .. Len(t) /\ i = Len(s) + (i - Len(s))
      BY <1>2, <2>1
    <3> QED
      BY <3>1
  <2> QED
    BY <1>2, <2>1
<1>4. Rising(u)
  <2> SUFFICES ASSUME NEW i \in 1 .. Len(u), NEW j \in 1 .. Len(u), i < j PROVE u[i] < u[j]
    BY DEF Rising
  <2>1. CASE i \in 1 .. Len(s) /\ j \in 1 .. Len(s)
    BY <1>2, <2>1 DEF Rising
  <2>2. CASE i \in 1 .. Len(s) /\ \E k \in 1 .. Len(t) : j = Len(s) + k
    BY <1>2, <2>2 DEF Before
  <2>3. ASSUME NEW k \in 1 .. Len(t), i = Len(s) + k PROVE u[i] < u[j]
    <3>1. PICK l \in 1 .. Len(t) : j = Len(s) + l
      <4>1. j \notin 1 .. Len(s)
        BY <1>2, <2>3
      <4> QED
        BY <1>3, <4>1
    <3>2. k < l
      BY <1>2, <2>3, <3>1
    <3> QED
      BY <1>2, <2>3, <3>1, <3>2 DEF Rising
  <2> QED
    BY <1>3, <2>1, <2>2, <2>3
<1>5. DOMAIN u = 1 .. Len(u) /\ DOMAIN s = 1 .. Len(s) /\ DOMAIN t = 1 .. Len(t)
  OBVIOUS
<1>6. ToSet(u) \subseteq ToSet(s) \cup ToSet(t)
  <2> SUFFICES ASSUME NEW x \in ToSet(u) PROVE x \in ToSet(s) \cup ToSet(t)
    OBVIOUS
  <2>1. PICK i \in 1 .. Len(u) : x = u[i]
    BY <1>5 DEF ToSet
  <2>2. CASE i \in 1 .. Len(s)
    BY <1>2, <1>5, <2>1, <2>2 DEF ToSet
  <2>3. ASSUME NEW j \in 1 .. Len(t), i = Len(s) + j PROVE x \in ToSet(t)
    BY <1>2, <1>5, <2>1, <2>3 DEF ToSet
  <2> QED
    BY <1>3, <2>2, <2>3
<1>7. ToSet(s) \subseteq ToSet(u)
  BY <1>2, <1>5 DEF ToSet
<1>8. ToSet(t) \subseteq ToSet(u)
  <2>1. \A i \in 1 .. Len(t) : Len(s) + i \in 1 .. Len(u)
    BY <1>2
  <2> QED
    BY <1>2, <1>5, <2>1 DEF ToSet
<1> QED
  BY <1>1, <1>4, <1>6, <1>7, <1>8

LEMMA FrontIn ==
  ASSUME NEW S, NEW s \in Seq(S), NEW t \in Seq(S)
  PROVE  ToSet(s) \subseteq ToSet(s \o t)
<1>1. PICK u \in Seq(S) : u = s \o t
  BY ConcatProperties
<1>2. /\ Len(u) = Len(s) + Len(t) /\ Len(s) \in Nat /\ Len(t) \in Nat
      /\ \A i \in 1 .. Len(s) : u[i] = s[i]
  BY <1>1
<1>3. DOMAIN u = 1 .. Len(u) /\ DOMAIN s = 1 .. Len(s)
  OBVIOUS
<1>4. \A i \in 1 .. Len(s) : i \in 1 .. Len(u)
  BY <1>2
<1> QED
  BY <1>1, <1>2, <1>3, <1>4 DEF ToSet

\* What a context may have of messages.
Shortened(u) == IF Len(u) > ContextMax THEN SubSeq(u, Len(u) - ContextMax + 1, Len(u)) ELSE u

\* That is all there is, but for what is earlier than a context full of it.
LEMMA Cut ==
  ASSUME NEW u \in Seq(Nat), Rising(u), NEW t, t = Shortened(u)
  PROVE  /\ t \in Seq(Nat) /\ Rising(t) /\ Len(t) <= ContextMax /\ ToSet(t) \subseteq ToSet(u)
         /\ Len(u) >= ContextMax => Len(t) = ContextMax
         /\ \A m \in ToSet(u) : m \in ToSet(t) \/ Fallen(m, t)
<1>1. ContextMax \in Nat \ {0} /\ Len(u) \in Nat /\ DOMAIN u = 1 .. Len(u)
  BY SteeringAssumption
<1>2. CASE Len(u) <= ContextMax
  <2>1. t = u
    BY <1>1, <1>2 DEF Shortened
  <2>2. Len(u) >= ContextMax => Len(u) = ContextMax
    <3>1. PICK l \in Nat : l = Len(u)
      BY <1>1
    <3>2. PICK c \in Nat : c = ContextMax
      BY <1>1
    <3>3. l <= c /\ (l >= c => l = c)
      BY <1>2, <3>1, <3>2
    <3> QED
      BY <3>1, <3>2, <3>3, Zenon
  <2> QED
    BY <1>2, <2>1, <2>2, Zenon
<1>3. CASE Len(u) > ContextMax
  <2>1. PICK d \in Nat : d = Len(u) - ContextMax /\ d > 0
    <3>1. Len(u) - ContextMax \in Nat /\ Len(u) - ContextMax > 0
      BY <1>1, <1>3
    <3> QED
      BY <3>1
  <2>2. t = SubSeq(u, d + 1, Len(u))
    BY <1>1, <1>3, <2>1 DEF Shortened
  <2>3. t \in Seq(Nat) /\ Len(t) = ContextMax /\ \A i \in 1 .. ContextMax : t[i] = u[d + i]
    <3>1. \A i \in d + 1 .. Len(u) : u[i] \in Nat
      BY <1>1, <2>1
    <3>2. /\ t \in Seq(Nat)
          /\ Len(t) = IF d + 1 <= Len(u) THEN Len(u) - (d + 1) + 1 ELSE 0
          /\ \A i \in 1 .. Len(u) - (d + 1) + 1 : t[i] = u[d + 1 + i - 1]
      BY <1>1, <2>1, <2>2, <3>1, SubSeqProperties
    <3>3. d + 1 <= Len(u) /\ Len(u) - (d + 1) + 1 = ContextMax
      BY <1>1, <2>1
    <3>4. \A i \in 1 .. ContextMax : d + 1 + i - 1 = d + i
      BY <1>1, <2>1
    <3> QED
      BY <3>2, <3>3, <3>4
  <2>4. \A i \in 1 .. ContextMax : d + i \in 1 .. Len(u)
    BY <1>1, <2>1
  <2>5. Rising(t)
    <3> SUFFICES ASSUME NEW i \in 1 .. ContextMax, NEW j \in 1 .. ContextMax, i < j
                 PROVE  t[i] < t[j]
      BY <2>3 DEF Rising
    <3>1. d + i \in 1 .. Len(u) /\ d + j \in 1 .. Len(u) /\ d + i < d + j
      BY <1>1, <2>1, <2>4
    <3> QED
      BY <2>3, <3>1 DEF Rising
  <2>6. DOMAIN t = 1 .. ContextMax
    BY <2>3
  <2>7. ToSet(t) \subseteq ToSet(u)
    BY <1>1, <2>3, <2>4, <2>6 DEF ToSet
  <2>8. ASSUME NEW m \in ToSet(u) PROVE m \in ToSet(t) \/ Fallen(m, t)
    <3>1. PICK k \in 1 .. Len(u) : m = u[k]
      BY <1>1 DEF ToSet
    <3>2. CASE k > d
      <4>1. k - d \in 1 .. ContextMax /\ d + (k - d) = k
        BY <1>1, <2>1, <3>2
      <4> QED
        BY <2>3, <2>6, <3>1, <4>1 DEF ToSet
    <3>3. CASE k <= d
      <4>1. \A i \in 1 .. ContextMax : k < d + i
        BY <1>1, <2>1, <3>3
      <4>2. \A i \in 1 .. ContextMax : m < t[i]
        BY <2>3, <2>4, <3>1, <4>1 DEF Rising
      <4> QED
        BY <2>3, <4>2 DEF Fallen
    <3> QED
      BY <2>1, <3>2, <3>3
  <2>9. Len(t) <= ContextMax
    <3>1. ContextMax <= ContextMax
      BY <1>1
    <3> QED
      BY <2>3, <3>1, Zenon
  <2> QED
    BY <2>3, <2>5, <2>7, <2>8, <2>9
<1> QED
  BY <1>1, <1>2, <1>3

\* What has fallen out of a full context is not among the latest messages.
LEMMA Outnumbered ==
  ASSUME NEW n \in Nat, NEW S \in SUBSET (1 .. n), NEW s \in Seq(Nat), Rising(s),
         ToSet(s) \subseteq S, NEW m \in S, Fallen(m, s)
  PROVE  m \notin Latest(S)
<1>1. ContextMax \in Nat \ {0} /\ Len(s) = ContextMax /\ DOMAIN s = 1 .. ContextMax
  BY SteeringAssumption DEF Fallen
<1>2. PICK T : T = {k \in S : k > m}
  OBVIOUS
<1>3. IsFiniteSet(T)
  <2>1. IsFiniteSet(1 .. n)
    BY FS_Interval
  <2>2. T \in SUBSET (1 .. n)
    BY <1>2
  <2> QED
    BY <2>1, <2>2, FS_Subset
<1>4. \A i \in 1 .. ContextMax : s[i] \in T
  BY <1>1, <1>2 DEF Fallen, ToSet
<1>5. s \in [1 .. ContextMax -> T]
  BY <1>1, <1>4
<1>6. \A i, j \in 1 .. ContextMax : s[i] = s[j] => i = j
  <2> TAKE i, j \in 1 .. ContextMax
  <2>1. s[i] \in Nat /\ s[j] \in Nat
    BY <1>1
  <2>2. i < j => s[i] < s[j]
    BY <1>1 DEF Rising
  <2>3. j < i => s[j] < s[i]
    BY <1>1 DEF Rising
  <2> QED
    BY <2>1, <2>2, <2>3
<1>7. IsFiniteSet(1 .. ContextMax) /\ Cardinality(1 .. ContextMax) = ContextMax
  BY <1>1, FS_Interval
<1>8. Cardinality(T) \in Nat
  BY <1>3, FS_CardinalityType
<1>9. ~(Cardinality(T) < ContextMax)
  <2> SUFFICES ASSUME Cardinality(T) < Cardinality(1 .. ContextMax) PROVE FALSE
    BY <1>7
  <2>1. \E i, j \in 1 .. ContextMax : i # j /\ s[i] = s[j]
    BY <1>3, <1>5, <1>7, FS_PigeonHole
  <2> QED
    BY <1>6, <2>1
<1> QED
  BY <1>2, <1>9 DEF Latest

-----------------------------------------------------------------------------
(* Types *)

Kinds ==
  /\ urgent \in Seq(BOOLEAN) /\ Len(urgent) <= MaxSent
  /\ consumed \subseteq Sent /\ cleared \subseteq Sent /\ due \subseteq Sent

Lists ==
  /\ queue \in Seq(Sent) /\ context \in Seq(Sent) /\ hand \in Seq(Sent)
  /\ plan \in Seq(Sent) /\ specs \in Seq(Sent) /\ Len(context) <= ContextMax

Standing ==
  /\ pc \in {"top", "asking", "end", "done", "take"} /\ stage \in 1 .. Len(Stages)
  /\ then \in Places /\ clearing \in BOOLEAN /\ paused \in BOOLEAN
  /\ pauses \in 0 .. MaxPauses /\ reviews \in 0 .. MaxReviews

\* What is queued comes after what is in the context, and none of it was cleared.
InLine ==
  /\ Rising(context) /\ Rising(queue) /\ Before(context, queue)
  /\ ToSet(context) \cup ToSet(queue) \subseteq Sent \ cleared

\* Every message that was not cleared is queued or in the context, or has fallen out.
Kept ==
  \A m \in Sent \ cleared : m \in ToSet(context) \cup ToSet(queue) \/ Fallen(m, context)

Types == Kinds /\ Lists /\ Standing

LEMMA Domains == DOMAIN Stages = 1 .. Len(Stages) /\ Len(Stages) \in Nat \ {0}
<1>1. PICK n : n = Len(Stages)
  OBVIOUS
<1> QED
  BY <1>1, SteeringAssumption, EmptySeq, LenProperties

LEMMA TypesFit == Types => TypeOK
BY Domains DEF Types, Kinds, Lists, Standing, TypeOK

LEMMA InitHolds == Init => Types /\ InLine /\ Kept
<1> SUFFICES ASSUME Init PROVE Types /\ InLine /\ Kept
  OBVIOUS
<1>1. /\ Len(urgent) = 0 /\ Sent = {} /\ 1 \in 1 .. Len(Stages)
      /\ ContextMax \in Nat /\ MaxSent \in Nat /\ MaxPauses \in Nat /\ MaxReviews \in Nat
  BY Domains, SteeringAssumption DEF Init, Sent
<1>2. Kinds /\ Lists
  BY <1>1 DEF Init, Kinds, Lists
<1>3. Standing
  <2>1. 0 \in 0 .. MaxPauses /\ 0 \in 0 .. MaxReviews
    BY <1>1
  <2> QED
    BY <1>1, <2>1, Zenon DEF Init, Standing, Places
<1>4. InLine /\ Kept
  BY <1>1 DEF Init, InLine, Kept, Rising, Before, ToSet
<1> QED
  BY <1>2, <1>3, <1>4 DEF Types

-----------------------------------------------------------------------------
(* What the messages go through *)

\* Sequences of messages of which there are more.
LEMMA MoreSent ==
  ASSUME NEW n \in Nat, NEW k \in Nat, n <= k, NEW s \in Seq(1 .. n)
  PROVE  s \in Seq(1 .. k)
<1>1. 1 .. n \subseteq 1 .. k
  OBVIOUS
<1> QED
  BY <1>1, SeqMonotonic

LEMMA SteerKeeps ==
  ASSUME Types, InLine, Kept, Steer
  PROVE  Types' /\ InLine' /\ Kept'
<1>1. PICK n \in Nat : n = Len(urgent)
  <2>1. Len(urgent) \in Nat
    BY DEF Types, Kinds
  <2> QED
    BY <2>1
<1>2. /\ urgent' \in Seq(BOOLEAN) /\ Len(urgent') = n + 1 /\ n + 1 <= MaxSent
      /\ queue' = Append(queue, n + 1)
      /\ UNCHANGED <<consumed, context, clearing, cleared, pipeline, paused, pauses>>
  <2>1. PICK u \in BOOLEAN : urgent' = Append(urgent, u)
    BY DEF Steer
  <2>2. n < MaxSent /\ MaxSent \in Nat
    BY <1>1, SteeringAssumption DEF Steer
  <2>3. urgent' \in Seq(BOOLEAN) /\ Len(urgent') = n + 1
    BY <1>1, <2>1 DEF Types, Kinds
  <2> QED
    BY <1>1, <2>2, <2>3 DEF Steer
<1>3. Sent = 1 .. n /\ Sent' = 1 .. n + 1 /\ Sent \subseteq Sent'
  BY <1>1, <1>2 DEF Sent
<1>4. Kinds'
  BY <1>2, <1>3 DEF Types, Kinds, pipeline
<1>5. /\ queue \in Seq(1 .. n + 1) /\ context \in Seq(1 .. n + 1) /\ hand \in Seq(1 .. n + 1)
      /\ plan \in Seq(1 .. n + 1) /\ specs \in Seq(1 .. n + 1)
  <2>1. n + 1 \in Nat /\ n <= n + 1
    OBVIOUS
  <2> QED
    BY <1>3, <2>1, MoreSent DEF Types, Lists
<1>6. queue' \in Seq(1 .. n + 1) /\ Len(queue') = Len(queue) + 1 /\ Len(queue) \in Nat
      /\ (\A i \in 1 .. Len(queue) : queue'[i] = queue[i]) /\ queue'[Len(queue) + 1] = n + 1
  BY <1>2, <1>5
<1>7. Lists'
  BY <1>2, <1>3, <1>5, <1>6 DEF Types, Lists, pipeline
<1>8. Standing'
  BY <1>2 DEF Types, Standing, pipeline
<1>9. /\ \A i \in 1 .. Len(queue) : queue[i] \in 1 .. n
      /\ \A i \in 1 .. Len(context) : context[i] \in 1 .. n
  BY <1>3, ElementOfSeq DEF Types, Lists
<1>10. Rising(queue')
  <2> SUFFICES ASSUME NEW i \in 1 .. Len(queue) + 1, NEW j \in 1 .. Len(queue) + 1, i < j
               PROVE  queue'[i] < queue'[j]
    BY <1>6 DEF Rising
  <2>1. i \in 1 .. Len(queue) /\ queue'[i] = queue[i] /\ queue[i] \in 1 .. n
    BY <1>6, <1>9
  <2>2. CASE j \in 1 .. Len(queue)
    BY <1>6, <2>1, <2>2 DEF InLine, Rising
  <2>3. CASE j = Len(queue) + 1
    BY <1>6, <2>1, <2>3
  <2> QED
    BY <1>6, <2>2, <2>3
<1>11. Before(context', queue')
  BY <1>2, <1>6, <1>9 DEF InLine, Before
<1>12. ToSet(queue') = ToSet(queue) \cup {n + 1}
  <2>1. DOMAIN queue = 1 .. Len(queue) /\ DOMAIN queue' = 1 .. Len(queue) + 1
    BY <1>6 DEF Types, Lists
  <2>2. ToSet(queue') \subseteq ToSet(queue) \cup {n + 1}
    BY <1>6, <2>1 DEF ToSet
  <2>3. ToSet(queue) \subseteq ToSet(queue')
    <3>1. \A i \in 1 .. Len(queue) : i \in 1 .. Len(queue) + 1
      BY <1>6
    <3> QED
      BY <1>6, <2>1, <3>1 DEF ToSet
  <2>4. n + 1 \in ToSet(queue')
    <3>1. Len(queue) + 1 \in 1 .. Len(queue) + 1
      BY <1>6
    <3> QED
      BY <1>6, <2>1, <3>1 DEF ToSet
  <2> QED
    BY <2>2, <2>3, <2>4
<1>13. n + 1 \notin cleared
  BY <1>3 DEF Types, Kinds
<1>14. InLine'
  BY <1>2, <1>3, <1>10, <1>11, <1>12, <1>13 DEF InLine
<1>15. Kept'
  BY <1>2, <1>3, <1>12 DEF Kept
<1> QED
  BY <1>4, <1>7, <1>8, <1>14, <1>15 DEF Types

LEMMA ClearKeeps ==
  ASSUME Types, InLine, Kept, Clear
  PROVE  Types' /\ InLine' /\ Kept' /\ Sent' \subseteq cleared'
<1>1. PICK n \in Nat : n = Len(urgent)
  <2>1. Len(urgent) \in Nat
    BY DEF Types, Kinds
  <2> QED
    BY <2>1
<1>2. /\ urgent' \in Seq(BOOLEAN) /\ Len(urgent') = n + 1 /\ n + 1 <= MaxSent
      /\ queue' = <<>> /\ context' = <<>> /\ clearing' = TRUE /\ cleared' = Sent \cup {n + 1}
      /\ UNCHANGED <<consumed, pipeline, paused, pauses>>
  <2>1. n < MaxSent /\ MaxSent \in Nat
    BY <1>1, SteeringAssumption DEF Clear
  <2>2. urgent' \in Seq(BOOLEAN) /\ Len(urgent') = n + 1
    BY <1>1 DEF Clear, Types, Kinds
  <2> QED
    BY <2>1, <2>2 DEF Clear
<1>3. Sent = 1 .. n /\ Sent' = 1 .. n + 1 /\ Sent \subseteq Sent' /\ cleared' = Sent'
  BY <1>1, <1>2 DEF Sent
<1>4. Kinds'
  BY <1>2, <1>3 DEF Types, Kinds, pipeline
<1>5. hand \in Seq(1 .. n + 1) /\ plan \in Seq(1 .. n + 1) /\ specs \in Seq(1 .. n + 1)
  <2>1. n + 1 \in Nat /\ n <= n + 1
    OBVIOUS
  <2> QED
    BY <1>3, <2>1, MoreSent DEF Types, Lists
<1>6. Lists'
  BY <1>2, <1>3, <1>5, SteeringAssumption DEF Lists, pipeline
<1>7. Standing'
  BY <1>2 DEF Types, Standing, pipeline
<1>8. InLine' /\ Kept'
  BY <1>2, <1>3 DEF InLine, Kept, Rising, Before, ToSet
<1> QED
  BY <1>3, <1>4, <1>6, <1>7, <1>8 DEF Types

\* The queue comes to the context, whose end has the latest messages.
LEMMA TakeKeeps ==
  ASSUME Types, InLine, Kept, NEW place \in Places, Take(place), UNCHANGED <<paused, pauses>>
  PROVE  /\ Types' /\ InLine' /\ Kept'
         /\ place = "develop" => Latest(due') \subseteq ToSet(context')
<1>1. PICK n \in Nat : n = Len(urgent) /\ Sent = 1 .. n
  <2>1. Len(urgent) \in Nat /\ Sent = 1 .. Len(urgent)
    BY DEF Types, Kinds, Sent
  <2> QED
    BY <2>1
<1>2. /\ queue' = <<>> /\ context' = NewContext(queue) /\ hand' = queue /\ then' = place /\ pc' = "take"
      /\ due' = IF place = "develop" THEN Sent \ cleared ELSE due
      /\ UNCHANGED <<urgent, consumed, clearing, cleared, stage, reviews, plan, specs>>
      /\ UNCHANGED <<paused, pauses>>
  BY DEF Take
<1>3. Sent' = Sent
  BY <1>2 DEF Sent
<1>4. context \in Seq(Nat) /\ queue \in Seq(Nat)
  <2>1. 1 .. n \subseteq Nat
    OBVIOUS
  <2> QED
    BY <1>1, <2>1, SeqMonotonic DEF Types, Lists
<1>5. PICK u \in Seq(Nat) : u = context \o queue
  <2>1. context \o queue \in Seq(Nat)
    BY <1>4, ConcatProperties
  <2> QED
    BY <2>1
<1>6. Rising(u) /\ ToSet(u) = ToSet(context) \cup ToSet(queue)
  BY <1>4, <1>5, Joined DEF InLine
<1>7. PICK t : t = context'
  OBVIOUS
<1>8. t = Shortened(u)
  BY <1>2, <1>5, <1>7, Zenon DEF NewContext, Shortened
<1>9. /\ t \in Seq(Nat) /\ Rising(t) /\ Len(t) <= ContextMax /\ ToSet(t) \subseteq ToSet(u)
      /\ Len(u) >= ContextMax => Len(t) = ContextMax
      /\ \A m \in ToSet(u) : m \in ToSet(t) \/ Fallen(m, t)
  BY <1>5, <1>6, <1>8, Cut
<1>10. ToSet(t) \subseteq Sent \ cleared
  BY <1>6, <1>9 DEF InLine
<1>11. ASSUME NEW m \in Sent \ cleared PROVE m \in ToSet(t) \/ Fallen(m, t)
  <2>1. CASE m \in ToSet(context) \cup ToSet(queue)
    BY <1>6, <1>9, <2>1
  <2>2. CASE Fallen(m, context)
    <3>1. /\ DOMAIN context = 1 .. Len(context) /\ DOMAIN queue = 1 .. Len(queue)
          /\ Len(queue) \in Nat /\ DOMAIN t = 1 .. Len(t)
      BY <1>4, <1>9
    <3>2. ContextMax \in Nat \ {0} /\ Len(context) = ContextMax
      BY <2>2, SteeringAssumption DEF Fallen
    <3>3. \A i \in 1 .. Len(context) : m < context[i]
      BY <2>2 DEF Fallen
    <3>4. \A j \in 1 .. Len(queue) : m < queue[j]
      <4> TAKE j \in 1 .. Len(queue)
      <4>1. 1 \in 1 .. Len(context)
        BY <3>2
      <4>2. context[1] < queue[j] /\ m < context[1]
        BY <3>3, <4>1 DEF InLine, Before
      <4>3. context[1] \in Nat /\ queue[j] \in Nat /\ m \in Nat
        BY <1>1, <1>4, <4>1, ElementOfSeq
      <4> QED
        BY <4>2, <4>3
    <3>5. \A x \in ToSet(u) : m < x
      BY <1>6, <3>1, <3>3, <3>4 DEF ToSet
    <3>6. \A i \in 1 .. Len(t) : m < t[i]
      BY <1>9, <3>1, <3>5 DEF ToSet
    <3>7. Len(t) = ContextMax
      <4>1. Len(u) = Len(context) + Len(queue)
        BY <1>4, <1>5, ConcatProperties
      <4>2. Len(u) >= ContextMax
        BY <3>1, <3>2, <4>1
      <4> QED
        BY <1>9, <4>2
    <3> QED
      BY <3>6, <3>7 DEF Fallen
  <2> QED
    BY <2>1, <2>2 DEF Kept
<1>12. t \in Seq(Sent)
  <2>1. DOMAIN t = 1 .. Len(t) /\ Len(t) \in Nat
    BY <1>9
  <2>2. \A i \in 1 .. Len(t) : t[i] \in Sent
    BY <1>10, <2>1 DEF ToSet
  <2> QED
    BY <1>9, <2>1, <2>2
<1>13. Kinds'
  BY <1>2, <1>3 DEF Types, Kinds
<1>14. Lists'
  BY <1>2, <1>3, <1>7, <1>9, <1>12 DEF Types, Lists
<1>15. Standing'
  BY <1>2 DEF Types, Standing
<1>16. ToSet(queue') = {} /\ Rising(queue') /\ Before(context', queue')
  BY <1>2 DEF ToSet, Rising, Before
<1>17. InLine'
  BY <1>2, <1>3, <1>7, <1>9, <1>10, <1>16 DEF InLine
<1>18. Kept'
  BY <1>2, <1>3, <1>7, <1>11 DEF Kept
<1>19. ASSUME place = "develop" PROVE Latest(due') \subseteq ToSet(context')
  <2>1. PICK S \in SUBSET (1 .. n) : S = Sent \ cleared
    BY <1>1
  <2>2. due' = S
    BY <1>2, <1>19, <2>1
  <2>3. \A m \in S : m \in ToSet(t) \/ m \notin Latest(S)
    BY <1>9, <1>10, <1>11, <2>1, Outnumbered
  <2>4. Latest(S) \subseteq S
    BY DEF Latest
  <2> QED
    BY <1>7, <2>2, <2>3, <2>4
<1> QED
  BY <1>13, <1>14, <1>15, <1>17, <1>18, <1>19 DEF Types

\* Nothing else touches the messages that have still to be shown,
LEMMA RestKeeps ==
  ASSUME InLine, Kept, UNCHANGED <<urgent, queue, context, cleared>>
  PROVE  Sent' = Sent /\ InLine' /\ Kept'
<1>1. Sent' = Sent
  BY DEF Sent
<1> QED
  BY <1>1 DEF InLine, Kept

\* nor leaves the types.
LEMMA TakenTypes ==
  ASSUME Types, EndPause \/ AskPlan \/ BuildSpecs \/ EndTaken
  PROVE  /\ Types' /\ UNCHANGED <<urgent, queue, context, cleared, due, stage>>
         /\ pc = "take" /\ pc' \in {"top", "asking", "end"}
<1>1. PICK place \in {"top", "plan", "develop", "end"} : Taken(place)
  BY DEF EndPause, AskPlan, BuildSpecs, EndTaken
<1>2. /\ pc = "take" /\ then' = "none" /\ hand' = <<>> /\ consumed' = consumed \cup ToSet(hand)
      /\ UNCHANGED <<urgent, queue, context, clearing, cleared, reviews, due, pauses>>
  BY <1>1 DEF Taken
<1>3. Sent' = Sent
  BY <1>2 DEF Sent
<1>4. ToSet(hand) \subseteq Sent
  BY DEF Types, Lists, ToSet
<1>5. /\ pc' \in {"top", "asking", "end"} /\ stage' = stage /\ paused' \in BOOLEAN
      /\ plan' \in {plan, hand} /\ specs' \in {specs, context \o hand}
  BY DEF Types, Standing, EndPause, AskPlan, BuildSpecs, EndTaken
<1>6. context \o hand \in Seq(Sent)
  BY ConcatProperties DEF Types, Lists
<1>7. Kinds'
  BY <1>2, <1>3, <1>4 DEF Types, Kinds
<1>8. Lists'
  <2>1. plan \in Seq(Sent) /\ hand \in Seq(Sent) /\ specs \in Seq(Sent)
    BY DEF Types, Lists
  <2>2. plan' \in Seq(Sent) /\ specs' \in Seq(Sent) /\ hand' \in Seq(Sent)
    <3>1. <<>> \in Seq(Sent)
      BY EmptySeq
    <3> QED
      BY <1>2, <1>5, <1>6, <2>1, <3>1, Zenon
  <2>3. UNCHANGED <<queue, context>>
    BY <1>2
  <2> QED
    BY <1>3, <2>2, <2>3 DEF Types, Lists
<1>9. Standing'
  BY <1>2, <1>5 DEF Types, Standing, Places
<1> QED
  BY <1>2, <1>5, <1>7, <1>8, <1>9 DEF Types

\* What goes on without a change of the messages.
Moves ==
  \/ NextStage \/ ReviewFails
  \/ BeginStage /\ Stages[stage] \notin {"plan", "develop"}
  \/ EndStage /\ queue = <<>> /\ pc' = "end"

LEMMA MovesTypes ==
  ASSUME Types, Moves
  PROVE  /\ Types' /\ UNCHANGED <<urgent, queue, context, cleared, due>>
         /\ pc' # "take" /\ (pc' = "asking" => Stages[stage'] # "develop")
<1>1. DOMAIN Stages = 1 .. Len(Stages) /\ Len(Stages) \in Nat \ {0}
  BY Domains
<1>2. ASSUME NEW s \in 1 .. Len(Stages), NEW p \in {"top", "asking", "end", "done"}, NEW r \in 0 .. MaxReviews,
             stage' = s, pc' = p, reviews' = r,
             UNCHANGED <<messages, then, hand, due, plan, specs, paused, pauses>>
      PROVE  Types' /\ UNCHANGED <<urgent, queue, context, cleared, due>>
  <2>1. Sent' = Sent
    BY <1>2 DEF Sent, messages
  <2> QED
    BY <1>2, <2>1 DEF Types, Kinds, Lists, Standing, messages
<1>3. stage \in 1 .. Len(Stages) /\ reviews \in 0 .. MaxReviews /\ MaxReviews \in Nat
  BY SteeringAssumption DEF Types, Standing
<1>4. CASE NextStage
  <2>1. \E s \in 1 .. Len(Stages) : stage' = s
    <3>1. stage < Len(Stages) => stage + 1 \in 1 .. Len(Stages)
      BY <1>1, <1>3
    <3> QED
      BY <1>3, <1>4, <3>1 DEF NextStage
  <2>2. pc' \in {"top", "done"} /\ reviews' = reviews
        /\ UNCHANGED <<messages, then, hand, due, plan, specs, paused, pauses>>
    BY <1>4 DEF NextStage
  <2> QED
    BY <1>2, <1>3, <2>1, <2>2
<1>5. CASE ReviewFails
  <2>1. \E s \in 1 .. Len(Stages) : stage' = s
    BY <1>1, <1>5 DEF ReviewFails
  <2>2. reviews + 1 \in 0 .. MaxReviews
    BY <1>3, <1>5 DEF ReviewFails
  <2>3. pc' = "top" /\ reviews' = reviews + 1
        /\ UNCHANGED <<messages, then, hand, due, plan, specs, paused, pauses>>
    BY <1>5 DEF ReviewFails
  <2> QED
    BY <1>2, <2>1, <2>2, <2>3
<1>6. CASE BeginStage /\ Stages[stage] \notin {"plan", "develop"}
  <2>1. pc' = "asking" /\ stage' = stage /\ reviews' = reviews
        /\ UNCHANGED <<messages, then, hand, due, plan, specs, paused, pauses>>
    BY <1>6 DEF BeginStage
  <2> QED
    BY <1>2, <1>3, <1>6, <2>1
<1>7. CASE EndStage /\ queue = <<>> /\ pc' = "end"
  <2>1. stage' = stage /\ reviews' = reviews
        /\ UNCHANGED <<messages, then, hand, due, plan, specs, paused, pauses>>
    BY <1>7 DEF EndStage
  <2> QED
    BY <1>2, <1>3, <1>7, <2>1
<1> QED
  BY <1>4, <1>5, <1>6, <1>7 DEF Moves

LEMMA OutsideTypes ==
  ASSUME Types, MarkRows \/ Pause \/ Resume
  PROVE  Types' /\ UNCHANGED <<urgent, queue, context, cleared, pipeline>>
<1>1. CASE MarkRows
  <2>1. /\ UNCHANGED <<urgent, queue, context, cleared, pipeline, paused, pauses>>
        /\ consumed' = Sent /\ clearing' = FALSE
    BY <1>1 DEF MarkRows
  <2>2. Sent' = Sent
    BY <2>1 DEF Sent
  <2> QED
    BY <2>1, <2>2 DEF Types, Kinds, Lists, Standing, pipeline
<1>2. CASE Pause
  <2>1. UNCHANGED <<messages, pipeline>> /\ paused' = TRUE /\ pauses' \in 0 .. MaxPauses
    BY <1>2, SteeringAssumption DEF Pause, Types, Standing
  <2>2. Sent' = Sent
    BY <2>1 DEF Sent, messages
  <2> QED
    BY <2>1, <2>2 DEF Types, Kinds, Lists, Standing, pipeline, messages
<1>3. CASE Resume
  <2>1. UNCHANGED <<messages, pipeline, pauses>> /\ paused' = FALSE
    BY <1>3 DEF Resume
  <2>2. Sent' = Sent
    BY <2>1 DEF Sent, messages
  <2> QED
    BY <2>1, <2>2 DEF Types, Kinds, Lists, Standing, pipeline, messages
<1> QED
  BY <1>1, <1>2, <1>3

-----------------------------------------------------------------------------
(* What develop is shown *)

\* consume_steer goes back to the stage that called it.  What was due when develop
\* called it is in the context, and then in the specs, but for what was cleared since.
Shown ==
  /\ pc = "take" /\ then \in {"plan", "develop"} => Stages[stage] = then
  /\ pc = "take" /\ then = "develop" => Latest(due) \ cleared \subseteq ToSet(context)
  /\ pc = "asking" /\ Stages[stage] = "develop" => Latest(due) \ cleared \subseteq ToSet(specs)

Whole == Types /\ InLine /\ Kept

LEMMA InitShown == Init => Shown
BY DEF Init, Shown

\* The queue is taken at one of four places.
LEMMA Takes ==
  ASSUME Types, Preempt \/ BeginStage \/ EndStage, ~Moves
  PROVE  \E place \in Places :
           /\ Take(place) /\ UNCHANGED <<paused, pauses>>
           /\ place \in {"plan", "develop"} => Stages[stage] = place
<1>1. CASE Preempt
  BY <1>1 DEF Preempt, Places
<1>2. CASE BeginStage
  <2>1. Stages[stage] \in {"plan", "develop"} /\ Take(Stages[stage]) /\ UNCHANGED <<paused, pauses>>
    BY <1>2 DEF BeginStage, Moves
  <2> QED
    BY <2>1 DEF Places
<1>3. CASE EndStage
  BY <1>3 DEF EndStage, Moves, Places
<1> QED
  BY <1>1, <1>2, <1>3

LEMMA StepShown == Whole /\ Shown /\ [Next]_vars => Whole' /\ Shown'
<1> SUFFICES ASSUME Whole, Shown, [Next]_vars PROVE Whole' /\ Shown'
  OBVIOUS
<1>1. Types /\ InLine /\ Kept
  BY DEF Whole
<1>2. due \subseteq Sent
  BY <1>1 DEF Types, Kinds
<1>3. CASE Steer
  <2>1. Whole'
    BY <1>1, <1>3, SteerKeeps DEF Whole
  <2>2. UNCHANGED <<context, cleared, pipeline>>
    BY <1>3 DEF Steer
  <2> QED
    BY <2>1, <2>2 DEF Shown, pipeline, Latest
<1>4. CASE Clear
  <2>1. Whole' /\ Sent' \subseteq cleared'
    BY <1>1, <1>4, ClearKeeps DEF Whole
  <2>2. UNCHANGED pipeline
    BY <1>4 DEF Clear
  <2>3. due' \subseteq Sent'
    BY <2>1 DEF Whole, Types, Kinds
  <2>4. Latest(due') \subseteq due'
    BY DEF Latest
  <2>5. Latest(due') \ cleared' = {}
    BY <2>1, <2>3, <2>4
  <2>6. (pc' = "take" /\ then' \in {"plan", "develop"}) => Stages[stage'] = then'
    BY <2>2 DEF Shown, pipeline
  <2>7. Shown'
    BY <2>5, <2>6 DEF Shown, Latest
  <2> QED
    BY <2>1, <2>7
<1>5. CASE MarkRows \/ Pause \/ Resume
  <2>1. Types' /\ UNCHANGED <<urgent, queue, context, cleared, pipeline>>
    BY <1>1, <1>5, OutsideTypes
  <2>2. InLine' /\ Kept'
    BY <1>1, <2>1, RestKeeps
  <2> QED
    BY <2>1, <2>2 DEF Whole, Shown, pipeline, Latest
<1>6. CASE Moves
  <2>1. /\ Types' /\ UNCHANGED <<urgent, queue, context, cleared, due>>
        /\ pc' # "take" /\ (pc' = "asking" => Stages[stage'] # "develop")
    BY <1>1, <1>6, MovesTypes
  <2>2. InLine' /\ Kept'
    BY <1>1, <2>1, RestKeeps
  <2> QED
    BY <2>1, <2>2 DEF Whole, Shown
<1>7. CASE (Preempt \/ BeginStage \/ EndStage) /\ ~Moves
  <2>1. PICK place \in Places :
          /\ Take(place) /\ UNCHANGED <<paused, pauses>>
          /\ place \in {"plan", "develop"} => Stages[stage] = place
    BY <1>1, <1>7, Takes
  <2>2. Types' /\ InLine' /\ Kept' /\ (place = "develop" => Latest(due') \subseteq ToSet(context'))
    BY <1>1, <2>1, TakeKeeps
  <2>3. pc' = "take" /\ then' = place /\ stage' = stage
    BY <2>1 DEF Take
  <2> QED
    BY <2>1, <2>2, <2>3 DEF Whole, Shown
<1>8. CASE EndPause \/ AskPlan \/ BuildSpecs \/ EndTaken
  <2>1. /\ Types' /\ UNCHANGED <<urgent, queue, context, cleared, due, stage>>
        /\ pc = "take" /\ pc' \in {"top", "asking", "end"}
    BY <1>1, <1>8, TakenTypes
  <2>2. InLine' /\ Kept'
    BY <1>1, <2>1, RestKeeps
  <2>3. ASSUME pc' = "asking", Stages[stage'] = "develop"
        PROVE  Latest(due') \ cleared' \subseteq ToSet(specs')
    <3>1. BuildSpecs
      <4>1. ~EndPause /\ ~EndTaken
        BY <2>3 DEF EndPause, EndTaken
      <4>2. ~AskPlan
        BY <2>1, <2>3 DEF AskPlan, Taken, Shown
      <4> QED
        BY <1>8, <4>1, <4>2
    <3>2. then = "develop" /\ specs' = context \o hand
      BY <3>1 DEF BuildSpecs, Taken
    <3>3. Latest(due) \ cleared \subseteq ToSet(context)
      BY <2>1, <3>2 DEF Shown
    <3>4. ToSet(context) \subseteq ToSet(context \o hand)
      <4>1. context \in Seq(Sent) /\ hand \in Seq(Sent)
        BY <1>1 DEF Types, Lists
      <4> QED
        BY <4>1, FrontIn
    <3>5. Latest(due') = Latest(due)
      BY <2>1 DEF Latest
    <3> QED
      BY <2>1, <3>2, <3>3, <3>4, <3>5
  <2> QED
    BY <2>1, <2>2, <2>3 DEF Whole, Shown
<1>9. CASE UNCHANGED vars
  <2>1. UNCHANGED <<messages, pipeline, paused, pauses>>
    BY <1>9 DEF vars
  <2>2. Whole'
    BY <1>1, <2>1 DEF Whole, Types, Kinds, Lists, Standing, InLine, Kept, Sent, messages, pipeline
  <2> QED
    BY <2>1, <2>2 DEF Shown, messages, pipeline, Latest
<1> QED
  BY <1>3, <1>4, <1>5, <1>6, <1>7, <1>8, <1>9 DEF Next, Pipeline, Moves

\* Messages, context and specs have their types, and the context its bound.
THEOREM TypeCorrect == Spec => []TypeOK
<1>1. Init => Whole /\ Shown
  BY InitHolds, InitShown DEF Whole
<1>2. Whole => TypeOK
  BY TypesFit DEF Whole
<1> QED
  BY <1>1, <1>2, StepShown, PTL DEF Spec

\* However messages came to be taken, the specs of develop have the latest of them that
\* were not cleared.
THEOREM DevelopAlwaysSees == Spec => []DevelopSees
<1>1. Init => Whole /\ Shown
  BY InitHolds, InitShown DEF Whole
<1>2. Shown => DevelopSees
  BY DEF Shown, DevelopSees
<1> QED
  BY <1>1, <1>2, StepShown, PTL DEF Spec

-----------------------------------------------------------------------------
(* The table and the queue *)

\* Nothing but a CLEAR_CONTEXT drops a message: a row that is not marked has its message
\* in the queue, or in the hand of consume_steer.
Accounted == Sent \subseteq consumed \cup ToSet(queue) \cup ToSet(hand) \cup cleared

\* Until there is a CLEAR_CONTEXT, what is queued is exactly what is neither marked nor
\* about to be.
Tally ==
  cleared = {} => /\ ToSet(queue) = Sent \ (consumed \cup ToSet(hand))
                  /\ consumed \cap ToSet(hand) = {}

Ledger ==
  /\ clearing => cleared # {}
  /\ pc # "take" => hand = <<>>
  /\ Accounted /\ Tally

LEMMA EmptyHasNone == ToSet(<<>>) = {}
  BY DEF ToSet

LEMMA OneMore ==
  ASSUME NEW S, NEW s \in Seq(S), NEW x
  PROVE  ToSet(Append(s, x)) = ToSet(s) \cup {x}
<1>1. /\ Len(s) \in Nat /\ DOMAIN s = 1 .. Len(s) /\ DOMAIN Append(s, x) = 1 .. Len(s) + 1
      /\ \A i \in 1 .. Len(s) : Append(s, x)[i] = s[i]
      /\ Append(s, x)[Len(s) + 1] = x
  <2>1. s \in Seq(S \cup {x})
    BY SeqMonotonic
  <2> QED
    BY <2>1, AppendProperties, LenProperties
<1>2. \A i \in 1 .. Len(s) : i \in 1 .. Len(s) + 1
  BY <1>1
<1>3. ToSet(Append(s, x)) \subseteq ToSet(s) \cup {x}
  BY <1>1 DEF ToSet
<1>4. ToSet(s) \subseteq ToSet(Append(s, x))
  BY <1>1, <1>2 DEF ToSet
<1>5. x \in ToSet(Append(s, x))
  <2>1. Len(s) + 1 \in 1 .. Len(s) + 1
    BY <1>1
  <2> QED
    BY <1>1, <2>1 DEF ToSet
<1> QED
  BY <1>3, <1>4, <1>5

LEMMA StepLedger == Types /\ Ledger /\ [Next]_vars => Ledger'
<1> SUFFICES ASSUME Types, Ledger, [Next]_vars PROVE Ledger'
  OBVIOUS
<1>1. /\ urgent \in Seq(BOOLEAN) /\ queue \in Seq(Sent) /\ consumed \subseteq Sent
      /\ ToSet(hand) \subseteq Sent /\ Len(urgent) \in Nat /\ Sent = 1 .. Len(urgent)
  <2>1. hand \in Seq(Sent) /\ urgent \in Seq(BOOLEAN)
    BY DEF Types, Kinds, Lists
  <2>2. ToSet(hand) \subseteq Sent
    BY <2>1 DEF ToSet
  <2> QED
    BY <2>1, <2>2 DEF Types, Kinds, Lists, Sent
<1>2. CASE Steer
  <2>1. /\ UNCHANGED <<consumed, clearing, cleared, hand, pc>>
        /\ queue' = Append(queue, Len(urgent'))
    BY <1>2 DEF Steer, pipeline
  <2>2. Len(urgent') = Len(urgent) + 1
    BY <1>1, <1>2 DEF Steer
  <2>3. Sent' = Sent \cup {Len(urgent')} /\ Len(urgent') \notin Sent
    BY <1>1, <2>2 DEF Sent
  <2>4. ToSet(queue') = ToSet(queue) \cup {Len(urgent')}
    BY <1>1, <2>1, OneMore
  <2> QED
    BY <1>1, <2>1, <2>3, <2>4 DEF Ledger, Accounted, Tally
<1>3. CASE Clear
  <2>1. /\ UNCHANGED <<consumed, hand, pc>>
        /\ urgent' = Append(urgent, FALSE) /\ cleared' = Sent \cup {Len(urgent')}
    BY <1>3 DEF Clear, pipeline
  <2>2. Len(urgent') = Len(urgent) + 1
    BY <1>1, <2>1
  <2>3. Sent' = cleared'
    BY <1>1, <2>1, <2>2 DEF Sent
  <2> QED
    BY <2>1, <2>3 DEF Ledger, Accounted, Tally
<1>4. CASE MarkRows
  <2>1. /\ UNCHANGED <<urgent, queue, cleared, hand, pc>> /\ clearing /\ clearing' = FALSE
        /\ consumed' = Sent
    BY <1>4 DEF MarkRows, pipeline
  <2> QED
    BY <2>1 DEF Ledger, Accounted, Tally, Sent
<1>5. CASE (Preempt \/ BeginStage \/ EndStage) /\ ~Moves
  <2>1. PICK place \in Places : Take(place)
    BY <1>5, Takes
  <2>2. pc # "take"
    BY <1>5 DEF Preempt, BeginStage, EndStage
  <2>3. /\ UNCHANGED <<urgent, consumed, clearing, cleared>>
        /\ queue' = <<>> /\ hand' = queue /\ pc' = "take"
    BY <2>1 DEF Take
  <2> QED
    BY <1>1, <2>2, <2>3, EmptyHasNone DEF Ledger, Accounted, Tally, Sent
<1>6. CASE EndPause \/ AskPlan \/ BuildSpecs \/ EndTaken
  <2>1. PICK place : Taken(place)
    BY <1>6 DEF EndPause, AskPlan, BuildSpecs, EndTaken
  <2>2. /\ UNCHANGED <<urgent, queue, clearing, cleared>>
        /\ hand' = <<>> /\ consumed' = consumed \cup ToSet(hand)
    BY <2>1 DEF Taken
  <2> QED
    BY <1>1, <2>2, EmptyHasNone DEF Ledger, Accounted, Tally, Sent
<1>7. CASE Moves \/ Pause \/ Resume \/ UNCHANGED vars
  <2>1. UNCHANGED <<messages, hand>> /\ (pc' # "take" => pc # "take" \/ hand = <<>>)
    BY <1>7 DEF Moves, NextStage, ReviewFails, BeginStage, EndStage, Pause, Resume, pipeline, vars
  <2> QED
    BY <2>1 DEF Ledger, Accounted, Tally, Sent, messages
<1> QED
  BY <1>2, <1>3, <1>4, <1>5, <1>6, <1>7 DEF Next, Pipeline, Moves

\* The rows of steer_events account for every message: however the queue is taken, a
\* message that is neither marked nor cleared is queued or in hand, and while nothing
\* was cleared a message that is queued is not marked.
THEOREM RowsAccount == Spec => [](Accounted /\ Tally)
<1>1. Init => Whole /\ Shown
  BY InitHolds, InitShown DEF Whole
<1>2. Init => Ledger
  <2> SUFFICES ASSUME Init PROVE Ledger
    OBVIOUS
  <2>1. Len(urgent) = 0 /\ Sent = {}
    BY DEF Init, Sent
  <2> QED
    BY <2>1, EmptyHasNone DEF Init, Ledger, Accounted, Tally
<1>3. Whole => Types
  BY DEF Whole
<1>4. Ledger => Accounted /\ Tally
  BY DEF Ledger
<1> QED
  BY <1>1, <1>2, <1>3, <1>4, StepShown, StepLedger, PTL DEF Spec
=============================================================================
