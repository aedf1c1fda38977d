------------------------------ MODULE Secrets -------------------------------
(***************************************************************************)
(* One provider key (core/nexussy/providers.py): it may be in the keyring, *)
(* in the environment of the process and in the .env file.  The keyring    *)
(* wins over the environment, and that over the file.  The keyring is      *)
(* asked in a thread of its own, which is waited for two seconds; a thread *)
(* that is late is not stopped, and its effect may come at any time.       *)
(*                                                                         *)
(* A value is a number, 0 for none; each PUT of the key has a new one.     *)
(***************************************************************************)
EXTENDS Naturals

CONSTANTS
  KeyringAnswers,  \* what a call of the keyring may come to
  MaxPuts          \* bound: calls of PUT and DELETE /secrets/{name}

ASSUME KeyringAssumption ==
  KeyringAnswers \subseteq {"ok", "fails", "late"} /\ MaxPuts \in Nat \ {0}

VARIABLES
  keyring, environ, file,  \* the value in each place
  late,                    \* values that late threads have still to write
  puts,                    \* number of calls so far, and the value of the last PUT
  gone,                    \* the last call was a DELETE (history)
  answers,                 \* what the keyring has come to so far (history)
  cache                    \* engine.provider_env_cache: {} or the value in it

secrets == <<keyring, environ, file, late, puts, gone, answers, cache>>
Values == 0..MaxPuts

\* At the start the key is in the environment, in the file, or nowhere.
SecretsInit ==
  /\ keyring = 0 /\ environ \in {0, 1} /\ file \in {0, 1 - environ}
  /\ late = {} /\ puts = 1 /\ gone = (environ = 0 /\ file = 0) /\ answers = {} /\ cache = {}

\* effective_secret_env: what it yields, and what the keyring came to at that.
Effective ==
  LET fallback == IF environ # 0 THEN environ ELSE file
  IN  {[value |-> IF a = "ok" /\ keyring # 0 THEN keyring ELSE fallback, keyring |-> a] :
         a \in KeyringAnswers}

\* Mutant: the engine keeps the environment it has read before.
PutSecretCached ==
  /\ puts < MaxPuts /\ puts' = puts + 1 /\ gone' = FALSE
  /\ \E a \in KeyringAnswers :
       /\ keyring' = IF a = "ok" THEN puts' ELSE keyring
       /\ file' = IF a = "ok" THEN file ELSE puts'
       /\ late' = IF a = "late" THEN late \cup {puts'} ELSE late
       /\ answers' = answers \cup {a}
  /\ UNCHANGED <<environ, cache>>

\* set_secret: the keyring takes the key, or the file does.  put_secret drops what the
\* engine had read.
PutSecret ==
  /\ puts < MaxPuts /\ puts' = puts + 1 /\ gone' = FALSE
  /\ \E a \in KeyringAnswers :
       /\ keyring' = IF a = "ok" THEN puts' ELSE keyring
       /\ file' = IF a = "ok" THEN file ELSE puts'
       /\ late' = IF a = "late" THEN late \cup {puts'} ELSE late
       /\ answers' = answers \cup {a}
  /\ cache' = {}
  /\ UNCHANGED environ

\* delete_secret.  A keyring that has no such key raises.  When the key was nowhere
\* the answer is 404, and the engine keeps what it has read.
DeleteSecret ==
  /\ puts < MaxPuts /\ puts' = puts + 1 /\ gone' = TRUE
  /\ environ' = 0 /\ file' = 0
  /\ \E a \in KeyringAnswers :
       LET deleted == a = "ok" /\ keyring # 0
           existed == deleted \/ environ # 0 \/ file # 0
       IN  /\ keyring' = IF deleted THEN 0 ELSE keyring
           /\ late' = IF a = "late" THEN late \cup {0} ELSE late
           /\ answers' = answers \cup {a}
           /\ cache' = IF existed THEN {} ELSE cache

\* A late thread gets its turn.
LateEffect ==
  /\ \E v \in late : keyring' = v /\ late' = late \ {v}
  /\ UNCHANGED <<environ, file, puts, gone, answers, cache>>

SecretsTypeOK ==
  /\ keyring \in Values /\ environ \in Values /\ file \in Values
  /\ late \subseteq Values /\ puts \in 1..MaxPuts
  /\ gone \in BOOLEAN /\ answers \subseteq KeyringAnswers /\ cache \subseteq Values

\* The value a request should carry: that of the last PUT; none after a DELETE; before
\* any call, what the process began with.
Current == IF gone THEN 0 ELSE puts
=============================================================================
