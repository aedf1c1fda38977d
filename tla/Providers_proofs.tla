-------------------------- MODULE Providers_proofs --------------------------
(***************************************************************************)
(* Proofs about Providers, for any callers, number of attempts, answers of *)
(* the keyring, and bounds.                                                *)
(***************************************************************************)
EXTENDS Providers, Integers, TLAPS

-----------------------------------------------------------------------------
(* Types *)

\* What the keyring and the places behind it yield is a value, and the keyring came
\* to one of its answers.
LEMMA EffectiveType ==
  ASSUME SecretsTypeOK
  PROVE  \A e \in Effective : e.value \in Values /\ e.keyring \in KeyringAnswers
  BY DEF SecretsTypeOK, Effective

\* Initially the types hold.
LEMMA InitType == Init => TypeOK
  BY ProvidersAssumption, KeyringAssumption
  DEF Init, SecretsInit, TypeOK, SecretsTypeOK, Values

\* The steps of the key preserve its types.
LEMMA KeyType ==
  ASSUME SecretsTypeOK, PutSecret \/ DeleteSecret \/ LateEffect
  PROVE  SecretsTypeOK'
<1> USE KeyringAssumption DEF SecretsTypeOK, Values
<1>1. CASE PutSecret
  <2>1. puts' \in 1..MaxPuts /\ puts' \in Values
    BY <1>1 DEF PutSecret
  <2>2. PICK a \in KeyringAnswers :
          /\ keyring' = IF a = "ok" THEN puts' ELSE keyring
          /\ file' = IF a = "ok" THEN file ELSE puts'
          /\ late' = IF a = "late" THEN late \cup {puts'} ELSE late
          /\ answers' = answers \cup {a}
    BY <1>1 DEF PutSecret
  <2>3. keyring' \in Values /\ file' \in Values
    BY <2>1, <2>2
  <2>4. late' \subseteq Values /\ answers' \subseteq KeyringAnswers
    BY <2>1, <2>2
  <2> QED
    BY <1>1, <2>1, <2>3, <2>4 DEF PutSecret
<1>2. CASE DeleteSecret
  <2>1. puts' \in 1..MaxPuts /\ 0 \in Values
    BY <1>2 DEF DeleteSecret
  <2>2. PICK a \in KeyringAnswers :
          /\ keyring' \in {0, keyring} /\ late' \in {late, late \cup {0}}
          /\ answers' = answers \cup {a} /\ cache' \in {{}, cache}
    BY <1>2 DEF DeleteSecret
  <2> QED
    BY <1>2, <2>1, <2>2 DEF DeleteSecret
<1>3. CASE LateEffect
  BY <1>3 DEF LateEffect
<1> QED
  BY <1>1, <1>2, <1>3

LEMMA KeyChangesType == TypeOK /\ KeyChanges => TypeOK'
  BY KeyType DEF KeyChanges, TypeOK, callers

\* So do the steps of a caller that read it.
LEMMA CheckType ==
  ASSUME TypeOK, NEW c \in Callers, CheckStage(c) \/ CheckChat(c) \/ BeginCall(c)
  PROVE  TypeOK'
<1> USE DEF TypeOK, SecretsTypeOK, Later, Go, End, Fail, HasKey
<1>1. CASE CheckStage(c)
  BY <1>1, EffectiveType DEF CheckStage
<1>2. CASE CheckChat(c)
  BY <1>2, EffectiveType, ProvidersAssumption DEF CheckChat
<1>3. CASE BeginCall(c)
  BY <1>3, EffectiveType DEF BeginCall
<1> QED
  BY <1>1, <1>2, <1>3

\* A write that is given up adds nothing to what is owed.
LEMMA ForgetSubset == \A c \in Callers : Forget(c) => owed' \subseteq owed
  BY DEF Forget

\* Every step preserves the types.
LEMMA StepType == TypeOK /\ [Next]_vars => TypeOK'
<1> SUFFICES ASSUME TypeOK, [Next]_vars PROVE TypeOK'
  OBVIOUS
<1> USE DEF TypeOK, SecretsTypeOK, Values, secrets, callers, Go, End, Fail
<1>13. 0 \in 0..MaxRetries - 1
  BY ProvidersAssumption
<1>1. ASSUME NEW c \in Callers, CheckStage(c) \/ CheckChat(c) \/ BeginCall(c) PROVE TypeOK'
  BY <1>1, CheckType
<1>2. ASSUME NEW c \in Callers, GiveUpStage(c) \/ GiveUpChat(c) PROVE TypeOK'
  <2>1. \E result \in {"rate_limited", "failed"} : End(c, result)
    BY <1>2 DEF GiveUpStage, GiveUpChat
  <2>2. UNCHANGED <<secrets, now, limits, owed, reset>>
    BY <1>2 DEF GiveUpStage, GiveUpChat
  <2> QED
    BY <2>1, <2>2, <1>13
<1>3. ASSUME NEW c \in Callers, Retry(c) PROVE TypeOK'
  BY <1>3, ProvidersAssumption DEF Retry, LastAttempt
<1>12. ASSUME NEW c \in Callers, Cancel(c) PROVE TypeOK'
  BY <1>12, <1>13, ForgetSubset DEF Cancel, Forget
<1>4. ASSUME NEW c \in Callers, Text(c) \/ ProviderRaises(c) \/ Timeout(c) PROVE TypeOK'
  <2>1. CASE Text(c)
    BY <2>1, <1>13 DEF Text
  <2>2. CASE ProviderRaises(c) \/ Timeout(c)
    BY <2>2 DEF ProviderRaises, Timeout
  <2> QED
    BY <1>4, <2>1, <2>2
<1>5. ASSUME NEW c \in Callers, Answers429(c) PROVE TypeOK'
  BY <1>5, ProvidersAssumption DEF Answers429, AnswersDirectly
<1>6. ASSUME NEW c \in Callers, Persist(c) \/ PersistFails(c) PROVE TypeOK'
  <2>1. CASE Persist(c)
    BY <1>6, <2>1 DEF Persist
  <2>2. CASE PersistFails(c)
    BY <2>2, ForgetSubset DEF PersistFails, Forget
  <2> QED
    BY <1>6, <2>1, <2>2
<1>7. ASSUME NEW c \in Callers, Again(c) PROVE TypeOK'
  BY <1>7, ProvidersAssumption DEF Again
<1>8. CASE Cleanup
  BY <1>8 DEF Cleanup
<1>11. CASE Tick
  <2>1. now' \in 0..Horizon /\ owed' \subseteq owed
    BY <1>11, ProvidersAssumption DEF Tick
  <2> QED
    BY <1>11, <2>1 DEF Tick
<1>9. CASE KeyChanges
  BY <1>9, KeyChangesType
<1>10. CASE UNCHANGED vars
  BY <1>10 DEF vars
<1> QED
  BY <1>1, <1>2, <1>3, <1>4, <1>5, <1>6, <1>7, <1>8, <1>9, <1>10, <1>11, <1>12
  DEF Next, CallerStep

\* The types hold in every state: in particular the attempts of a stage stay below
\* max_retries, and every row of rate_limits is a time.
THEOREM TypeCorrect == Spec => []TypeOK
  BY InitType, StepType, PTL DEF Spec

-----------------------------------------------------------------------------
(* Limits *)

\* A step that is neither a new answer 429, nor the end of a write, nor the clean-up,
\* leaves what LimitKept speaks of alone.
LEMMA OtherStep ==
  ASSUME TypeOK, LimitKept, now' \in Nat, now' >= now, limits' = limits, owed' \subseteq owed,
         \A c \in Callers : pc[c] = "persist" => pc'[c] = "persist" /\ reset'[c] = reset[c]
  PROVE  LimitKept'
<1> SUFFICES ASSUME NEW r \in owed', r > now'
             PROVE  Writing(r)' \/ \E row \in limits' : row >= r
  BY DEF LimitKept
<1>1. r \in owed /\ r \in Nat /\ now \in Nat
  BY ProvidersAssumption DEF TypeOK
<1>2. r > now
  BY <1>1
<1>3. Writing(r) => Writing(r)'
  BY DEF Writing
<1> QED
  BY <1>1, <1>2, <1>3 DEF LimitKept

\* The write of c comes to its end: its limit is in the table, or owed no more.
LEMMA WriteEnds ==
  ASSUME TypeOK, LimitKept, NEW c \in Callers, now' = now, limits \subseteq limits',
         owed' \subseteq owed \cup limits',
         \A d \in Callers \ {c} : pc'[d] = pc[d] /\ reset'[d] = reset[d],
         pc[c] = "persist" => reset[c] \in limits' \/ reset[c] \notin owed'
  PROVE  LimitKept'
<1> SUFFICES ASSUME NEW r \in owed', r > now
             PROVE  Writing(r)' \/ \E row \in limits' : row >= r
  BY DEF LimitKept
<1>1. CASE r \in limits' \/ \E row \in limits : row >= r
  <2>1. r \in limits' => r \in Nat
    BY DEF TypeOK
  <2> QED
    BY <1>1, <2>1
<1>2. CASE r \notin limits' /\ ~(\E row \in limits : row >= r)
  <2>1. r \in owed
    BY <1>2
  <2>2. PICK d \in Callers : pc[d] = "persist" /\ reset[d] = r
    BY <1>2, <2>1 DEF LimitKept, Writing
  <2>3. d # c
    BY <1>2, <2>2
  <2> QED
    BY <2>2, <2>3 DEF Writing
<1> QED
  BY <1>1, <1>2

\* Without direct calls every step keeps the limits.
LEMMA StepLimit == ~Direct /\ TypeOK /\ LimitKept /\ [Next]_vars => LimitKept'
<1> SUFFICES ASSUME ~Direct, TypeOK, LimitKept, [Next]_vars PROVE LimitKept'
  OBVIOUS
<1> USE DEF TypeOK, callers, Go, End, Fail
<1>1. ASSUME NEW c \in Callers,
             CheckStage(c) \/ GiveUpStage(c) \/ Retry(c) \/ CheckChat(c) \/ GiveUpChat(c)
             \/ BeginCall(c) \/ Timeout(c) \/ Text(c) \/ ProviderRaises(c) \/ Again(c)
      PROVE  LimitKept'
  <2>1. /\ now' = now /\ limits' = limits /\ owed' = owed /\ reset' = reset
        /\ pc[c] # "persist" /\ \A d \in Callers \ {c} : pc'[d] = pc[d]
    BY <1>1 DEF CheckStage, GiveUpStage, Retry, CheckChat, GiveUpChat, BeginCall, Timeout,
                Text, ProviderRaises, Again
  <2> QED
    BY <2>1, OtherStep
<1>2. ASSUME NEW c \in Callers, Answers429(c) PROVE LimitKept'
  <2>1. PICK ahead \in 0..MaxReset :
          /\ owed' = owed \cup {now + ahead}
          /\ reset' = [reset EXCEPT ![c] = now + ahead]
          /\ pc' = [pc EXCEPT ![c] = "persist"]
    BY <1>2 DEF Answers429
  <2>2. pc[c] = "calling" /\ now' = now /\ limits' = limits
    BY <1>2 DEF Answers429
  <2>3. Writing(now + ahead)'
    BY <2>1, <2>2 DEF Writing
  <2>4. \A r \in owed : Writing(r) => Writing(r)'
    BY <2>1, <2>2 DEF Writing
  <2> QED
    BY <2>1, <2>2, <2>3, <2>4 DEF LimitKept
<1>3. ASSUME NEW c \in Callers, Persist(c) PROVE LimitKept'
  <2>1. /\ limits' = limits \cup {reset[c]} /\ owed' = owed \cup {reset[c]} /\ now' = now
        /\ \A d \in Callers \ {c} : pc'[d] = pc[d] /\ reset'[d] = reset[d]
    BY <1>3 DEF Persist
  <2> QED
    BY <2>1, WriteEnds
<1>8. ASSUME NEW c \in Callers, PersistFails(c) \/ Cancel(c) PROVE LimitKept'
  <2>1. /\ limits' = limits /\ now' = now /\ Forget(c)
        /\ \A d \in Callers \ {c} : pc'[d] = pc[d] /\ reset'[d] = reset[d]
    BY <1>8 DEF PersistFails, Cancel, Forget
  <2> QED
    BY <2>1, WriteEnds DEF Forget
<1>4. CASE Cleanup
  <2> SUFFICES ASSUME NEW r \in owed', r > now'
               PROVE  Writing(r)' \/ \E row \in limits' : row >= r
    BY DEF LimitKept
  <2>1. r \in owed /\ r \in Nat /\ r > now /\ now \in Nat
    BY <1>4, ProvidersAssumption DEF Cleanup
  <2>2. Writing(r) => Writing(r)'
    BY <1>4 DEF Cleanup, Writing
  <2>3. ASSUME NEW row \in limits, row >= r PROVE row \in limits'
    BY <1>4, <2>1, <2>3 DEF Cleanup
  <2> QED
    BY <2>1, <2>2, <2>3 DEF LimitKept
<1>5. CASE Tick
  BY <1>5, OtherStep, ProvidersAssumption DEF Tick
<1>6. CASE KeyChanges
  BY <1>6, OtherStep DEF KeyChanges
<1>7. CASE UNCHANGED vars
  BY <1>7, OtherStep DEF vars
<1> QED
  BY <1>1, <1>2, <1>3, <1>4, <1>5, <1>6, <1>7, <1>8 DEF Next, CallerStep

\* Each limit a provider has answered with stays in the table until it is over, whatever
\* other answers are persisted, in any order, and cleaned up, and whichever writes fail or
\* are cut off: those lose their own limit only.  Direct calls persist nothing, and are
\* excluded.
THEOREM LimitsKept == ~Direct => (Spec => []LimitKept)
<1> SUFFICES ASSUME ~Direct PROVE Spec => []LimitKept
  OBVIOUS
<1>1. Init => LimitKept
  BY DEF Init, LimitKept
<1> QED
  BY <1>1, StepLimit, TypeCorrect, PTL DEF Spec

-----------------------------------------------------------------------------
(* Keys *)

\* A keyring that has always answered yields the current key, and one that never has
\* leaves it to the environment and the file; what the engine has kept is no older.
KeysInv ==
  /\ answers \subseteq {"ok"} =>
       /\ late = {} /\ cache \subseteq {Current}
       /\ (IF keyring # 0 THEN keyring ELSE IF environ # 0 THEN environ ELSE file) = Current
  /\ answers \subseteq {"fails"} =>
       /\ late = {} /\ cache \subseteq {Current, environ}
       /\ environ = 0 => file = Current

\* What FreshKey says of a call, from when a stage has its environment.
HasFreshKey(c) ==
  /\ answers \subseteq {"ok"} => keyed[c] = "current"
  /\ answers \subseteq {"fails"} => keyed[c] # "stale"

Keyed ==
  \A c \in Callers :
    pc[c] = "calling" \/ (c \in Stages /\ pc[c] = "complete") => HasFreshKey(c)

LEMMA InitKeys == Init => KeysInv /\ Keyed
<1> SUFFICES ASSUME Init PROVE KeysInv /\ Keyed
  OBVIOUS
<1>1. (IF environ # 0 THEN environ ELSE file) = Current
  <2>1. CASE environ = 0 /\ file = 0
    <3>1. gone = TRUE
      BY <2>1, Zenon DEF Init, SecretsInit
    <3> QED
      BY <2>1, <3>1 DEF Current
  <2>2. CASE environ = 1 \/ file = 1
    <3>1. ~(environ = 0 /\ file = 0)
      BY <2>2
    <3>2. gone = FALSE
      BY <3>1, Zenon DEF Init, SecretsInit
    <3> QED
      BY <2>2, <3>2 DEF Init, SecretsInit, Current
  <2> QED
    BY <2>1, <2>2 DEF Init, SecretsInit
<1>2. KeysInv
  BY <1>1 DEF Init, SecretsInit, KeysInv
<1>3. Keyed
  BY DEF Init, Keyed, HasFreshKey
<1> QED
  BY <1>2, <1>3

\* The steps of the key.
LEMMA KeyStep ==
  ASSUME SecretsTypeOK, KeysInv, PutSecret \/ DeleteSecret \/ LateEffect
  PROVE  KeysInv' /\ answers \subseteq answers'
<1> USE KeyringAssumption DEF SecretsTypeOK, Values, KeysInv, Current
<1>1. CASE PutSecret
  <2>1. PICK a \in KeyringAnswers :
          /\ keyring' = IF a = "ok" THEN puts' ELSE keyring
          /\ file' = IF a = "ok" THEN file ELSE puts'
          /\ late' = IF a = "late" THEN late \cup {puts'} ELSE late
          /\ answers' = answers \cup {a}
    BY <1>1 DEF PutSecret
  <2>2. puts' # 0 /\ gone' = FALSE /\ cache' = {} /\ environ' = environ
    BY <1>1 DEF PutSecret
  <2> QED
    BY <2>1, <2>2
<1>2. CASE DeleteSecret
  <2> DEFINE existed(a) == (a = "ok" /\ keyring # 0) \/ environ # 0 \/ file # 0
  <2>1. PICK a \in KeyringAnswers :
          /\ keyring' = IF a = "ok" /\ keyring # 0 THEN 0 ELSE keyring
          /\ late' = IF a = "late" THEN late \cup {0} ELSE late
          /\ answers' = answers \cup {a}
          /\ cache' = IF existed(a) THEN {} ELSE cache
    BY <1>2 DEF DeleteSecret
  <2>2. gone' = TRUE /\ environ' = 0 /\ file' = 0
    BY <1>2 DEF DeleteSecret
  <2>3. answers' \subseteq {"ok"} => a = "ok" /\ answers \subseteq {"ok"}
    BY <2>1
  <2>4. answers' \subseteq {"fails"} => a = "fails" /\ answers \subseteq {"fails"}
    BY <2>1
  <2>5. answers' \subseteq {"ok"} => keyring' = 0 /\ late' = {} /\ cache' \subseteq {0}
    BY <2>1, <2>3
  <2>6. answers' \subseteq {"fails"} => late' = {} /\ cache' \subseteq {0}
    BY <2>1, <2>4
  <2> QED
    BY <2>1, <2>2, <2>5, <2>6
<1>3. CASE LateEffect
  BY <1>3 DEF LateEffect
<1> QED
  BY <1>1, <1>2, <1>3

\* What is read of the places of the key, or of what the engine has kept, is fresh.
LEMMA ReadKey ==
  ASSUME SecretsTypeOK, KeysInv, NEW e \in Effective
  PROVE  /\ answers \subseteq {"ok"} /\ e.keyring = "ok" => e.value = Current
         /\ answers \subseteq {"fails"} /\ e.keyring = "fails" => e.value \in {Current, environ}
  BY DEF SecretsTypeOK, KeysInv, Effective

\* A caller that reads the key gets what HasFreshKey says, and what is kept stays fresh.
LEMMA CallerReads ==
  ASSUME TypeOK, KeysInv, Keyed, NEW c \in Callers,
         CheckStage(c) \/ CheckChat(c) \/ BeginCall(c)
  PROVE  KeysInv' /\ Keyed'
<1> USE DEF TypeOK, Go, End, Fail, Later, HasKey
<1>1. /\ keyring' = keyring /\ environ' = environ /\ file' = file /\ late' = late
      /\ Current' = Current
  BY DEF CheckStage, CheckChat, BeginCall, Current
<1>2. answers' = answers \/ \E e \in Effective : answers' = answers \cup {e.keyring}
  BY DEF CheckStage, CheckChat, BeginCall
<1>3. answers \subseteq answers'
  BY <1>2
<1>4. cache' = cache
      \/ \E e \in Effective : cache' = {e.value} /\ answers' = answers \cup {e.keyring}
  BY DEF CheckStage, CheckChat, BeginCall
<1>5. KeysInv'
  <2>1. CASE cache' = cache
    BY <1>1, <1>3, <2>1 DEF KeysInv
  <2>2. ASSUME NEW e \in Effective, cache' = {e.value}, answers' = answers \cup {e.keyring}
        PROVE  KeysInv'
    BY <1>1, <1>3, <2>2, ReadKey DEF KeysInv
  <2> QED
    BY <1>4, <2>1, <2>2
<1>6. \A d \in Callers \ {c} : pc'[d] = pc[d] /\ keyed'[d] = keyed[d]
  BY DEF CheckStage, CheckChat, BeginCall
<1>7. \A d \in Callers \ {c} :
        pc'[d] = "calling" \/ (d \in Stages /\ pc'[d] = "complete") => HasFreshKey(d)'
  BY <1>3, <1>6 DEF Keyed, HasFreshKey
<1>8. ASSUME pc'[c] = "calling" \/ (c \in Stages /\ pc'[c] = "complete")
      PROVE  HasFreshKey(c)'
  <2>1. \/ c \in Stages /\ pc[c] = "complete" /\ keyed' = keyed
        \/ \E value \in cache : HasKey(c, value)
        \/ \E e \in Effective : HasKey(c, e.value) /\ answers' = answers \cup {e.keyring}
    BY <1>8, ProvidersAssumption DEF CheckStage, CheckChat, BeginCall
  <2>2. CASE c \in Stages /\ pc[c] = "complete" /\ keyed' = keyed
    BY <1>3, <2>2 DEF Keyed, HasFreshKey
  <2>3. ASSUME NEW value \in cache, HasKey(c, value) PROVE HasFreshKey(c)'
    BY <1>3, <2>3 DEF KeysInv, HasFreshKey
  <2>4. ASSUME NEW e \in Effective, HasKey(c, e.value), answers' = answers \cup {e.keyring}
        PROVE  HasFreshKey(c)'
    BY <1>3, <2>4, ReadKey DEF HasFreshKey
  <2> QED
    BY <2>1, <2>2, <2>3, <2>4
<1> QED
  BY <1>5, <1>7, <1>8 DEF Keyed

\* Every step preserves both.
LEMMA StepKeys == TypeOK /\ KeysInv /\ Keyed /\ [Next]_vars => KeysInv' /\ Keyed'
<1> SUFFICES ASSUME TypeOK, KeysInv, Keyed, [Next]_vars PROVE KeysInv' /\ Keyed'
  OBVIOUS
<1> USE DEF TypeOK, Go, End, Fail, secrets, callers
<1>1. ASSUME NEW c \in Callers, CheckStage(c) \/ CheckChat(c) \/ BeginCall(c)
      PROVE  KeysInv' /\ Keyed'
  BY <1>1, CallerReads
<1>2. ASSUME NEW c \in Callers,
             GiveUpStage(c) \/ Retry(c) \/ GiveUpChat(c) \/ Persist(c) \/ PersistFails(c)
             \/ Timeout(c) \/ Text(c) \/ ProviderRaises(c) \/ Answers429(c) \/ Cancel(c)
             \/ Again(c)
      PROVE  KeysInv' /\ Keyed'
  <2>1. UNCHANGED secrets /\ \A d \in Callers \ {c} : pc'[d] = pc[d] /\ keyed'[d] = keyed[d]
    BY <1>2 DEF GiveUpStage, Retry, GiveUpChat, Persist, PersistFails, Timeout, Text,
                ProviderRaises, Answers429, AnswersDirectly, Cancel, Again
  <2>2. pc'[c] \notin {"calling", "complete"}
    BY <1>2 DEF GiveUpStage, Retry, GiveUpChat, Persist, PersistFails, Timeout, Text,
                ProviderRaises, Answers429, AnswersDirectly, Cancel, Again
  <2>3. KeysInv'
    BY <2>1 DEF KeysInv, Current
  <2> QED
    BY <2>1, <2>2, <2>3 DEF Keyed, HasFreshKey
<1>3. CASE KeyChanges
  <2>1. KeysInv' /\ answers \subseteq answers' /\ UNCHANGED callers
    BY <1>3, KeyStep DEF KeyChanges
  <2> QED
    BY <2>1 DEF Keyed, HasFreshKey
<1>4. CASE Cleanup \/ Tick \/ UNCHANGED vars
  <2>1. UNCHANGED secrets /\ UNCHANGED callers
    BY <1>4 DEF Cleanup, Tick, vars
  <2> QED
    BY <2>1 DEF KeysInv, Current, Keyed, HasFreshKey
<1> QED
  BY <1>1, <1>2, <1>3, <1>4 DEF Next, CallerStep

\* A call carries the key that was current when it was read, if the keyring has always
\* answered; if it never has, that or the one of the environment.
THEOREM KeysAreFresh == Spec => []FreshKey
<1>1. Keyed => FreshKey
  BY DEF Keyed, HasFreshKey, FreshKey
<1> QED
  BY <1>1, InitKeys, StepKeys, TypeCorrect, PTL DEF Spec

-----------------------------------------------------------------------------
(* A call is finite *)

\* How far a call is from its end, in its attempt a: five steps an attempt.
Way(at, a) == 5 * (MaxRetries - 1 - a) +
  CASE at = "check" -> 5
    [] at = "complete" -> 4
    [] at = "calling" -> 3
    [] at = "persist" -> 2
    [] OTHER -> 1

StepsLeft(c) == IF pc[c] = "done" THEN 0 ELSE Way(pc[c], attempt[c])

\* The caller's own steps, what the provider may answer it with, and its cancellation.
CallStep(c) == CallerStep(c) \/ Text(c) \/ ProviderRaises(c) \/ Answers429(c) \/ Cancel(c)

Standing == {"check", "complete", "calling", "persist", "except"}

LEMMA WayBounded ==
  ASSUME NEW at \in Standing, NEW a \in 0..MaxRetries - 1
  PROVE  Way(at, a) \in 1..5 * MaxRetries
  BY ProvidersAssumption DEF Way, Standing

LEMMA StepsBounded ==
  TypeOK => \A c \in Callers :
    StepsLeft(c) \in 0..5 * MaxRetries /\ (StepsLeft(c) = 0 <=> pc[c] = "done")
<1> SUFFICES ASSUME TypeOK, NEW c \in Callers
             PROVE  StepsLeft(c) \in 0..5 * MaxRetries /\ (StepsLeft(c) = 0 <=> pc[c] = "done")
  OBVIOUS
<1>1. CASE pc[c] = "done"
  BY <1>1, ProvidersAssumption DEF StepsLeft
<1>2. CASE pc[c] # "done"
  <2>1. pc[c] \in Standing /\ attempt[c] \in 0..MaxRetries - 1
    BY <1>2 DEF TypeOK, Standing
  <2> QED
    BY <1>2, <2>1, WayBounded, ProvidersAssumption DEF StepsLeft
<1> QED
  BY <1>1, <1>2

LEMMA NextBounded == (TypeOK => \A c \in Callers : StepsLeft(c) \in Int)'
<1>1. TypeOK => \A c \in Callers : StepsLeft(c) \in Int
  BY ProvidersAssumption, StepsBounded
<1> QED
  BY <1>1, PTL

\* A step to the end of the call, or nearer to it.
LEMMA Counts ==
  ASSUME NEW c \in Callers, NEW at \in Standing, NEW a \in 0..MaxRetries - 1,
         pc[c] = at, attempt[c] = a,
         \/ pc'[c] = "done"
         \/ \E to \in Standing, b \in 0..MaxRetries - 1 :
              pc'[c] = to /\ attempt'[c] = b /\ Way(to, b) < Way(at, a)
  PROVE  StepsLeft(c)' < StepsLeft(c)
<1>1. StepsLeft(c) = Way(at, a) /\ Way(at, a) \in 1..5 * MaxRetries
  BY WayBounded DEF StepsLeft, Standing
<1>2. CASE pc'[c] = "done"
  BY <1>1, <1>2, ProvidersAssumption DEF StepsLeft
<1>3. CASE pc'[c] # "done"
  BY <1>1, <1>3 DEF StepsLeft
<1> QED
  BY <1>2, <1>3

LEMMA StepCounts ==
  ASSUME TypeOK, NEW c \in Callers, CallStep(c)
  PROVE  StepsLeft(c)' < StepsLeft(c)
<1> USE DEF TypeOK, Go, End, Fail
<1>1. PICK a \in 0..MaxRetries - 1 : a = attempt[c]
  OBVIOUS
<1>2. PICK at \in Standing : at = pc[c]
  BY DEF CallStep, CallerStep, CheckStage, GiveUpStage, Retry, CheckChat, GiveUpChat, BeginCall,
         Persist, PersistFails, Timeout, Text, ProviderRaises, Answers429, Cancel, Standing
<1>3. ASSUME NEW to \in Standing,
             \/ at = "check" /\ to \in {"complete", "except"}
             \/ at = "complete" /\ to \in {"calling", "except"}
             \/ at = "calling" /\ to \in {"persist", "except"}
             \/ at = "persist" /\ to = "except",
             pc'[c] = to, attempt' = attempt
      PROVE  StepsLeft(c)' < StepsLeft(c)
  <2>1. Way(to, a) < Way(at, a)
    BY <1>3, ProvidersAssumption DEF Way, Standing
  <2> QED
    BY <1>1, <1>2, <1>3, <2>1, Counts
<1>4. ASSUME pc'[c] = "done" PROVE StepsLeft(c)' < StepsLeft(c)
  BY <1>1, <1>2, <1>4, Counts
<1>5. CASE Retry(c)
  <2>1. /\ at = "except" /\ a + 1 \in 0..MaxRetries - 1 /\ pc'[c] = "check"
        /\ attempt'[c] = a + 1
    BY <1>1, <1>2, <1>5, ProvidersAssumption DEF Retry, LastAttempt
  <2>2. Way("check", a + 1) < Way("except", a)
    BY ProvidersAssumption DEF Way
  <2> QED
    BY <1>1, <1>2, <2>1, <2>2, Counts DEF Standing
<1>6. CASE CheckStage(c) \/ CheckChat(c) \/ BeginCall(c)
  BY <1>2, <1>3, <1>4, <1>6 DEF CheckStage, CheckChat, BeginCall, Standing
<1>7. CASE Persist(c) \/ PersistFails(c) \/ Timeout(c) \/ ProviderRaises(c) \/ Answers429(c)
  BY <1>2, <1>3, <1>7 DEF Persist, PersistFails, Timeout, ProviderRaises, Answers429, AnswersDirectly, Standing
<1>8. CASE GiveUpStage(c) \/ GiveUpChat(c) \/ Text(c) \/ Cancel(c)
  BY <1>4, <1>8 DEF GiveUpStage, GiveUpChat, Text, Cancel
<1> QED
  BY <1>5, <1>6, <1>7, <1>8 DEF CallStep, CallerStep

\* A call comes to its end after at most five steps per attempt, whatever the provider
\* answers and however limits come and go: each of its steps leaves it fewer, and no
\* other caller, no clean-up and no change of the key gives it more; only a new call does.
THEOREM CallIsFinite ==
  Spec => \A c \in Callers :
    /\ [](StepsLeft(c) \in 0..5 * MaxRetries /\ (StepsLeft(c) = 0 <=> pc[c] = "done"))
    /\ [][/\ CallStep(c) => StepsLeft(c)' < StepsLeft(c)
          /\ ~Again(c) => StepsLeft(c)' <= StepsLeft(c)]_vars
<1> SUFFICES ASSUME NEW c \in Callers
             PROVE  Spec =>
    /\ [](StepsLeft(c) \in 0..5 * MaxRetries /\ (StepsLeft(c) = 0 <=> pc[c] = "done"))
    /\ [][/\ CallStep(c) => StepsLeft(c)' < StepsLeft(c)
          /\ ~Again(c) => StepsLeft(c)' <= StepsLeft(c)]_vars
  OBVIOUS
<1>1. TypeOK /\ [Next]_vars =>
        [/\ CallStep(c) => StepsLeft(c)' < StepsLeft(c)
         /\ ~Again(c) => StepsLeft(c)' <= StepsLeft(c)]_vars
  <2> SUFFICES ASSUME TypeOK, [Next]_vars
               PROVE  /\ CallStep(c) => StepsLeft(c)' < StepsLeft(c)
                      /\ ~Again(c) => StepsLeft(c)' <= StepsLeft(c)
    OBVIOUS
  <2>1. StepsLeft(c) \in Int
    BY StepsBounded, ProvidersAssumption
  <2>2. TypeOK'
    BY StepType
  <2>3. CASE CallStep(c)
    <3>1. StepsLeft(c)' < StepsLeft(c)
      BY <2>3, StepCounts
    <3>2. StepsLeft(c)' \in Int
      BY <2>2, NextBounded
    <3> QED
      BY <2>1, <3>1, <3>2
  <2>4. CASE ~CallStep(c) /\ ~Again(c)
    <3>1. pc'[c] = pc[c] /\ attempt'[c] = attempt[c]
      <4>1. ASSUME NEW d \in Callers \ {c}, CallStep(d) \/ Again(d)
            PROVE  pc'[c] = pc[c] /\ attempt'[c] = attempt[c]
        BY <4>1 DEF TypeOK, Go, End, Fail, CallStep, CallerStep, CheckStage, GiveUpStage, Retry,
             CheckChat, GiveUpChat, BeginCall, Persist, PersistFails, Timeout, Text, ProviderRaises,
             Answers429, AnswersDirectly, Cancel, Again
      <4>2. CASE Cleanup \/ Tick \/ KeyChanges \/ UNCHANGED vars
        BY <4>2 DEF Cleanup, Tick, KeyChanges, vars, callers
      <4> QED
        BY <2>4, <4>1, <4>2 DEF Next, CallStep
    <3>2. StepsLeft(c)' = StepsLeft(c)
      BY <3>1, Zenon DEF StepsLeft, Way
    <3> QED
      BY <2>1, <2>4, <3>2
  <2>5. CASE ~CallStep(c) /\ Again(c)
    BY <2>5
  <2> QED
    BY <2>3, <2>4, <2>5
<1>2. TypeOK => StepsLeft(c) \in 0..5 * MaxRetries /\ (StepsLeft(c) = 0 <=> pc[c] = "done")
  BY StepsBounded
<1> QED
  BY <1>1, <1>2, TypeCorrect, PTL DEF Spec
=============================================================================
