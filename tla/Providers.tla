----------------------------- MODULE Providers ------------------------------
(***************************************************************************)
(* Calls of one model of one provider: those of the stages of runs         *)
(* (_provider_text, core/nexussy/pipeline/engine.py), which are tried      *)
(* again, and those of the chat (assistant_reply, core/nexussy/api/        *)
(* server.py), through complete (core/nexussy/providers.py).  They share   *)
(* the table rate_limits, which is asked before a call and written after   *)
(* an answer 429, and the key of the provider (Secrets).                   *)
(*                                                                         *)
(* An action is what a caller does between two awaits; what the provider   *)
(* does is any of its outcomes, a write may fail, and the stage of a       *)
(* cancelled run is cut at any await.  Equal rows of the table are one.          *)
(***************************************************************************)
EXTENDS Secrets, FiniteSets

CONSTANTS
  Stages, Chats,  \* callers: stages of runs, and requests of the chat
  MaxRetries,     \* max_retries of the stage
  Direct,         \* an AgentRouter token is configured: complete goes there directly
  MaxReset,       \* bound: how far ahead a reset lies
  Horizon         \* bound: the clock

ASSUME ProvidersAssumption ==
  /\ Stages \cap Chats = {} /\ MaxRetries \in Nat \ {0} /\ Direct \in BOOLEAN
  /\ MaxReset \in Nat /\ Horizon \in Nat

Callers == Stages \cup Chats

VARIABLES
  now,      \* the time
  limits,   \* rate_limits: the reset_at of each row
  owed,     \* the resets a provider has answered with, without those whose writes came
            \* to nothing, until they are over (history)
  pc,       \* where a caller stands
  attempt,  \* its attempt, from 0
  error,    \* what the attempt failed with: none, limit or other
  reset,    \* the reset it is about to write
  keyed,    \* the key it calls with was, when read, the current one, or one of the
            \* environment that hid it, or stale (history)
  outcome   \* none, text, rate_limited, failed or cancelled

callers == <<pc, attempt, error, reset, keyed, outcome>>
vars == <<secrets, now, limits, owed, callers>>

Init ==
  /\ SecretsInit
  /\ now = 0 /\ limits = {} /\ owed = {}
  /\ pc = [c \in Callers |-> "check"] /\ attempt = [c \in Callers |-> 0]
  /\ error = [c \in Callers |-> "none"] /\ reset = [c \in Callers |-> 0]
  /\ keyed = [c \in Callers |-> "current"] /\ outcome = [c \in Callers |-> "none"]

Go(c, place) == pc' = [pc EXCEPT ![c] = place]

\* An attempt that has failed carries no key; a call that has ended has no locals.
Fail(c, kind) ==
  /\ Go(c, "except")
  /\ error' = [error EXCEPT ![c] = kind] /\ keyed' = [keyed EXCEPT ![c] = "current"]
End(c, result) ==
  /\ Go(c, "done") /\ outcome' = [outcome EXCEPT ![c] = result]
  /\ attempt' = [attempt EXCEPT ![c] = 0] /\ error' = [error EXCEPT ![c] = "none"]
  /\ keyed' = [keyed EXCEPT ![c] = "current"]

\* active_rate_limit finds a row.  The latest comes first, so one is enough.
Limited == \E r \in limits : r > now

\* A limit that a provider has answered with is being written.
Writing(r) == \E c \in Callers : pc[c] = "persist" /\ reset[c] = r

\* The caller reads the environment with the keys: value is its provider's.
HasKey(c, value) ==
  keyed' = [keyed EXCEPT ![c] = IF value = Current THEN "current"
                                ELSE IF value = environ THEN "environ" ELSE "stale"]

Later == <<keyring, environ, file, late, puts, gone>>

-----------------------------------------------------------------------------
(* A stage: _provider_text *)

\* A limit fails the attempt.  Otherwise complete is called, with the environment
\* the engine has kept, or now reads and keeps.
CheckStage(c) ==
  /\ c \in Stages /\ pc[c] = "check"
  /\ \/ /\ Limited /\ Fail(c, "limit")
        /\ UNCHANGED <<cache, answers>>
     \/ /\ ~Limited /\ Go(c, "complete")
        /\ \/ /\ cache # {} /\ \E value \in cache : HasKey(c, value)
              /\ UNCHANGED <<cache, answers>>
           \/ /\ cache = {}
              /\ \E e \in Effective :
                   /\ HasKey(c, e.value)
                   /\ cache' = {e.value} /\ answers' = answers \cup {e.keyring}
        /\ UNCHANGED error
  /\ UNCHANGED <<Later, now, limits, owed, attempt, reset, outcome>>

LastAttempt(c) == attempt[c] + 1 >= MaxRetries

\* The last attempt has failed: with a limit, or while there is one.
GiveUpStage(c) ==
  /\ c \in Stages /\ pc[c] = "except" /\ LastAttempt(c)
  /\ End(c, IF Limited \/ error[c] = "limit" THEN "rate_limited" ELSE "failed")
  /\ UNCHANGED <<secrets, now, limits, owed, reset>>

\* There is another, after the back-off.
Retry(c) ==
  /\ c \in Stages /\ pc[c] = "except" /\ ~LastAttempt(c)
  /\ Go(c, "check") /\ attempt' = [attempt EXCEPT ![c] = @ + 1]
  /\ error' = [error EXCEPT ![c] = "none"]
  /\ UNCHANGED <<secrets, now, limits, owed, reset, keyed, outcome>>

-----------------------------------------------------------------------------
(* The chat: assistant_reply *)

\* A limit is answered with rate_limited, and a model without a key with
\* model_unavailable.
CheckChat(c) ==
  /\ c \in Chats /\ pc[c] = "check"
  /\ \/ /\ Limited /\ End(c, "rate_limited")
        /\ UNCHANGED answers
     \/ /\ ~Limited
        /\ \E e \in Effective :
             /\ answers' = answers \cup {e.keyring}
             /\ \/ e.value = 0 /\ End(c, "failed")
                \/ /\ e.value # 0 /\ Go(c, "complete")
                   /\ UNCHANGED <<attempt, error, keyed, outcome>>
  /\ UNCHANGED <<Later, cache, now, limits, owed, reset>>

GiveUpChat(c) ==
  /\ c \in Chats /\ pc[c] = "except"
  /\ End(c, IF Limited THEN "rate_limited" ELSE "failed")
  /\ UNCHANGED <<secrets, now, limits, owed, reset>>

-----------------------------------------------------------------------------
(* complete *)

\* The limit is asked again.  The chat reads its environment after that.
BeginCall(c) ==
  /\ pc[c] = "complete"
  /\ \/ /\ Limited /\ Fail(c, "limit")
        /\ UNCHANGED answers
     \/ /\ ~Limited /\ Go(c, "calling")
        /\ \/ c \in Stages /\ UNCHANGED <<keyed, answers>>
           \/ /\ c \in Chats
              /\ \E e \in Effective :
                   HasKey(c, e.value) /\ answers' = answers \cup {e.keyring}
        /\ UNCHANGED error
  /\ UNCHANGED <<Later, cache, now, limits, owed, attempt, reset, outcome>>

\* The provider answers; it raises; it answers 429, and says when to come again.
Text(c) ==
  /\ pc[c] = "calling" /\ End(c, "text")
  /\ UNCHANGED <<secrets, now, limits, owed, reset>>

ProviderRaises(c) ==
  /\ pc[c] = "calling" /\ Fail(c, "other")
  /\ UNCHANGED <<secrets, now, limits, owed, attempt, reset, outcome>>

\* A direct call raises the text of the answer, without its status: a limit for the
\* caller if the text says so.
AnswersDirectly(c) ==
  /\ \E kind \in {"limit", "other"} : Fail(c, kind)
  /\ UNCHANGED reset

Answers429(c) ==
  /\ pc[c] = "calling"
  /\ \E ahead \in 0..MaxReset :
       /\ owed' = owed \cup {now + ahead}
       /\ IF Direct
          THEN AnswersDirectly(c)
          ELSE /\ Go(c, "persist") /\ reset' = [reset EXCEPT ![c] = now + ahead]
               /\ keyed' = [keyed EXCEPT ![c] = "current"] /\ UNCHANGED error
  /\ UNCHANGED <<secrets, now, limits, attempt, outcome>>

\* Mutant: the row of the model is replaced.
PersistInstead(c) ==
  /\ pc[c] = "persist" /\ Fail(c, "limit")
  /\ limits' = {reset[c]} /\ owed' = owed \cup {reset[c]}
  /\ reset' = [reset EXCEPT ![c] = 0]
  /\ UNCHANGED <<secrets, now, attempt, outcome>>

\* persist_rate_limit: the table has no key, so a row is added.
Persist(c) ==
  /\ pc[c] = "persist" /\ Fail(c, "limit")
  /\ limits' = limits \cup {reset[c]} /\ owed' = owed \cup {reset[c]}
  /\ reset' = [reset EXCEPT ![c] = 0]
  /\ UNCHANGED <<secrets, now, attempt, outcome>>

\* The write is given up, and nothing else remembers its limit.
Forget(c) ==
  /\ owed' = IF pc[c] = "persist" THEN owed \ ({reset[c]} \ limits) ELSE owed
  /\ reset' = [reset EXCEPT ![c] = 0]

\* The database stays locked through the attempts of Database.write: its error, which
\* is no limit, takes the place of the answer.
PersistFails(c) ==
  /\ pc[c] = "persist" /\ Fail(c, "other") /\ Forget(c)
  /\ UNCHANGED <<secrets, now, limits, attempt, outcome>>

\* Mutant: the call is not bounded.
NoTimeout(c) == FALSE

\* request_timeout_s have passed.  A direct call has a timeout for each read only.
Timeout(c) ==
  /\ pc[c] = "calling" /\ ~Direct /\ Fail(c, "other")
  /\ UNCHANGED <<secrets, now, limits, owed, attempt, reset, outcome>>

-----------------------------------------------------------------------------

\* The run is cancelled: its stage ends at whatever it awaits.
Cancel(c) ==
  /\ c \in Stages /\ pc[c] # "done" /\ End(c, "cancelled") /\ Forget(c)
  /\ UNCHANGED <<secrets, now, limits>>

\* Another request of the chat; another call of a stage.
Again(c) ==
  /\ pc[c] = "done" /\ now < Horizon
  /\ Go(c, "check") /\ outcome' = [outcome EXCEPT ![c] = "none"]
  /\ UNCHANGED <<secrets, now, limits, owed, attempt, error, reset, keyed>>

\* cleanup_expired, every hour.
Cleanup ==
  /\ \E r \in limits : r < now
  /\ limits' = {r \in limits : ~(r < now)}
  /\ UNCHANGED <<secrets, now, owed, callers>>

Tick ==
  /\ now < Horizon /\ now' = now + 1
  /\ owed' = {r \in owed : r > now'}
  /\ UNCHANGED <<secrets, limits, callers>>

KeyChanges ==
  /\ PutSecret \/ DeleteSecret \/ LateEffect
  /\ UNCHANGED <<now, limits, owed, callers>>

CallerStep(c) ==
  \/ CheckStage(c) \/ GiveUpStage(c) \/ Retry(c) \/ CheckChat(c) \/ GiveUpChat(c)
  \/ BeginCall(c) \/ Persist(c) \/ PersistFails(c) \/ Timeout(c)

Next ==
  \/ \E c \in Callers :
       CallerStep(c) \/ Text(c) \/ ProviderRaises(c) \/ Answers429(c) \/ Cancel(c) \/ Again(c)
  \/ Cleanup \/ Tick \/ KeyChanges

\* The event loop runs the callers, writes come to an end, and so does a back-off.
\* The provider may never answer.
Spec == Init /\ [][Next]_vars /\ \A c \in Callers : WF_vars(CallerStep(c))

-----------------------------------------------------------------------------
(* Properties *)

TypeOK ==
  /\ SecretsTypeOK
  /\ now \in 0..Horizon
  /\ limits \subseteq Nat /\ owed \subseteq Nat
  /\ pc \in [Callers -> {"check", "complete", "calling", "persist", "except", "done"}]
  /\ attempt \in [Callers -> 0..MaxRetries - 1]
  /\ error \in [Callers -> {"none", "limit", "other"}]
  /\ reset \in [Callers -> Nat]
  /\ keyed \in [Callers -> {"current", "environ", "stale"}]
  /\ outcome \in [Callers -> {"none", "text", "rate_limited", "failed", "cancelled"}]

\* Each limit a provider has answered with is in the table until it is over, whatever
\* other calls were answered, in any order, and whatever was cleaned up; unless its
\* caller is still writing it, or the write has failed, or its run was cancelled before
\* the write was done.
LimitKept ==
  \A r \in owed : r > now => Writing(r) \/ \E row \in limits : row >= r

\* When the keyring has always answered, a call carries the key that was current when
\* its attempt read it.  When it never has, the environment alone may hide that key.
FreshKey ==
  \A c \in Callers : pc[c] = "calling" =>
    /\ answers \subseteq {"ok"} => keyed[c] = "current"
    /\ answers \subseteq {"fails"} => keyed[c] # "stale"

\* Every call comes to an end, though the provider may never answer it.
CallsEnd == \A c \in Callers : (pc[c] # "done") ~> (pc[c] = "done")

\* SPEC.md 15.2: "A MUST persist provider rate-limit events to SQLite".  A direct call
\* does not: with Direct, LimitKept is violated, and so is CallsEnd.  Nor does a call
\* whose write fails or is cut off: this is violated without Direct.
EveryLimitKept ==
  [][\A c \in Callers : pc[c] = "persist" /\ pc'[c] # "persist" => reset[c] \in limits']_vars

\* SPEC.md 15.2: a call that ran into a limit returns rate_limited.  The chat does not
\* if the limit is over when it looks.
ChatReportsLimit ==
  [][\A c \in Chats : pc[c] = "except" /\ error[c] = "limit" /\ pc'[c] = "done" =>
       outcome'[c] = "rate_limited"]_vars

\* The key in use is the one that was set last, whatever the keyring does; or the one
\* of the environment.
FreshKeyAlways == \A c \in Callers : pc[c] = "calling" => keyed[c] # "stale"
=============================================================================
