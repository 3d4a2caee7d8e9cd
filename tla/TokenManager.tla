---------------------------- MODULE TokenManager ----------------------------
(***************************************************************************)
(* The tokens the controller presents when a SecretTemplate names a        *)
(* ServiceAccount: the cache of satoken/token_manager.go, read and written *)
(* by the callers of GetServiceAccountToken and emptied by its cleanup     *)
(* goroutine, and the loader that calls it (service_account_loader.go).    *)
(* The cache's mutex covers one get, set or cleanup; everything between    *)
(* them is a step of its own, for the clock, the other callers and the     *)
(* accounts move on meanwhile.                                             *)
(*                                                                         *)
(* The API server, external, issues and reviews tokens: one is authentic   *)
(* until it expires or its account is deleted, also if another of the same *)
(* name is created.  Both have the same clock.                             *)
(***************************************************************************)
EXTENDS Integers

CONSTANTS
  Accounts,   \* ServiceAccounts: a namespace and a name
  Callers,    \* goroutines that load a client
  None,
  Lifetimes,  \* what the server grants, None where it returns no seconds
  Unstated,   \* the lifetime of a token whose ExpirationSeconds are nil
  MaxTTL,     \* maxTTL (2h)
  MaxJitter,  \* jitter is a whole number of seconds below it (maxJitter: 10s)
  MaxNow, MaxChanges, MaxFaults  \* bounds of the model

\* A token request that was answered; life tells whose account's it is.
Tokens == [account : Accounts, life : Nat, secs : Nat \cup {None}, exp : Nat]

ASSUME TokenAssumption ==
  /\ None \notin Accounts \cup Nat \cup Tokens
  /\ Lifetimes \subseteq Nat \cup {None}
  /\ Unstated \in Nat /\ MaxTTL \in Nat
  /\ MaxJitter \in Nat \ {0}
  /\ MaxNow \in Nat /\ MaxChanges \in Nat /\ MaxFaults \in Nat

VARIABLES
  now,     \* the clock
  life,    \* of each account: odd while it exists
  cache,   \* Manager.cache
  call,    \* what each caller is doing
  failures, changes \* what has been counted against the bounds

tokenVars == <<now, life, cache, call, failures, changes>>

\* since and began are the account's life and the time when the call began;
\* got tells how the answer was come by.
Calls == [pc : {"idle", "review", "age", "request", "set", "failed", "ca"},
          account : Accounts \cup {None},
          cached : Tokens \cup {None},
          answer : Tokens \cup {None},
          got : {"nothing", "cached", "issued", "kept"},
          began : Nat, since : Nat]

Idle == [pc |-> "idle", account |-> None, cached |-> None, answer |-> None,
         got |-> "nothing", began |-> 0, since |-> 0]

TokenInit == /\ now = 0
             /\ life = [a \in Accounts |-> 1]
             /\ cache = [a \in Accounts |-> None]
             /\ call = [k \in Callers |-> Idle]
             /\ failures = 0 /\ changes = 0

Exists(a) == life[a] % 2 = 1
Fail == failures < MaxFaults /\ failures' = failures + 1

---------------------------------------------------------------------------
(* Ages.                                                                   *)

\* Mutant: the time that was left when it was issued counts.
ExpiredLate(t) == now > t.exp + MaxTTL

Expired(t) == now > t.exp

\* Mutant: the jitter puts the refresh off.
AgedLater(t, jitter) ==
  t.secs # None /\ ( \/ now > t.exp - t.secs + MaxTTL + jitter
                     \/ now > t.exp - (t.secs * 50) \div 100 + jitter )

\* requiresRefresh, once the token is found authentic: it is older than
\* maxTTL, or than half of its life, less a jitter.
Aged(t, jitter) ==
  t.secs # None /\ ( \/ now > t.exp - t.secs + MaxTTL - jitter
                     \/ now > t.exp - (t.secs * 50) \div 100 - jitter )

---------------------------------------------------------------------------
(* GetServiceAccountToken, called by ServiceAccountLoader.restConfig.      *)

Goes(k, pc) == call' = [call EXCEPT ![k].pc = pc]
Answers(k, pc, t, how) ==
  call' = [call EXCEPT ![k].pc = pc, ![k].answer = t, ![k].got = how]

Lookup(a) == cache[a]

Load(k, a) ==
  /\ call[k].pc = "idle"
  /\ call' = [call EXCEPT ![k] =
                [Idle EXCEPT !.pc = IF Lookup(a) = None THEN "request" ELSE "review",
                             !.account = a, !.cached = Lookup(a),
                             !.began = now, !.since = life[a]]]
  /\ UNCHANGED <<now, life, cache, failures, changes>>

\* Mutant: a review that fails is taken for a good one.
AuthenticAnyway(t) == TRUE

\* What the server's review says of a token.
Authentic(t) == life[t.account] = t.life /\ now <= t.exp

Review(k) ==
  /\ call[k].pc = "review"
  /\ \/ Goes(k, IF Authentic(call[k].cached) THEN "age" ELSE "request")
        /\ UNCHANGED failures
     \/ Fail /\ Goes(k, "request")
  /\ UNCHANGED <<now, life, cache, changes>>

CheckAge(k) ==
  /\ call[k].pc = "age"
  /\ \E jitter \in 0 .. MaxJitter - 1 :
       IF Aged(call[k].cached, jitter) THEN Goes(k, "request")
       ELSE Answers(k, "ca", call[k].cached, "cached")
  /\ UNCHANGED <<now, life, cache, failures, changes>>

Issued(a, secs) ==
  [account |-> a, life |-> life[a], secs |-> secs,
   exp |-> now + IF secs = None THEN Unstated ELSE secs]

Request(k) ==
  /\ call[k].pc = "request"
  /\ LET a == call[k].account IN
       \/ /\ Exists(a)
          /\ \E secs \in Lifetimes : Answers(k, "set", Issued(a, secs), "issued")
          /\ UNCHANGED failures
       \/ ~Exists(a) /\ Goes(k, "failed") /\ UNCHANGED failures
       \/ Fail /\ Goes(k, "failed")
  /\ UNCHANGED <<now, life, cache, changes>>

\* Mutant: without a token in the cache, too.
FailedBare(k) ==
  /\ call[k].pc = "failed"
  /\ Answers(k, "ca", call[k].cached, "kept")
  /\ UNCHANGED <<now, life, cache, failures, changes>>

\* The request failed: the token of the cache will do unless it has expired.
Failed(k) ==
  /\ call[k].pc = "failed"
  /\ IF call[k].cached = None \/ Expired(call[k].cached)
     THEN call' = [call EXCEPT ![k] = Idle]
     ELSE Answers(k, "ca", call[k].cached, "kept")
  /\ UNCHANGED <<now, life, cache, failures, changes>>

Set(k) ==
  /\ call[k].pc = "set"
  /\ cache' = [cache EXCEPT ![call[k].account] = call[k].answer]
  /\ Goes(k, "ca")
  /\ UNCHANGED <<now, life, failures, changes>>

\* getCACert fails or does not: the caller has its client, or an error.
Loaded(k) == /\ call[k].pc = "ca"
             /\ call' = [call EXCEPT ![k] = Idle]
             /\ UNCHANGED <<now, life, cache, failures, changes>>

---------------------------------------------------------------------------

\* Mutant: what has not expired is dropped.
CleanupRest ==
  cache' = [a \in Accounts |->
              IF cache[a] # None /\ ~Expired(cache[a]) THEN None ELSE cache[a]]
  /\ UNCHANGED <<now, life, call, failures, changes>>

\* The goroutine that NewManager starts, every gcPeriod.
Cleanup ==
  /\ cache' = [a \in Accounts |->
                 IF cache[a] # None /\ Expired(cache[a]) THEN None ELSE cache[a]]
  /\ UNCHANGED <<now, life, call, failures, changes>>

PassTime == /\ now < MaxNow
            /\ now' = now + 1
            /\ UNCHANGED <<life, cache, call, failures, changes>>

\* A user creates or deletes the account.
ChangeAccount(a) == /\ changes < MaxChanges /\ changes' = changes + 1
                    /\ life' = [life EXCEPT ![a] = @ + 1]
                    /\ UNCHANGED <<now, cache, call, failures>>

GetToken(k) == \/ \E a \in Accounts : Load(k, a)
               \/ Review(k) \/ CheckAge(k) \/ Request(k)
               \/ Failed(k) \/ Set(k) \/ Loaded(k)

TokenNext == \/ \E k \in Callers : GetToken(k)
             \/ Cleanup \/ PassTime
             \/ \E a \in Accounts : ChangeAccount(a)

TokenSpec == TokenInit /\ [][TokenNext]_tokenVars

\* The cleanup goroutine runs for ever and each step of a call ends.
TokenFairness ==
  /\ WF_tokenVars(Cleanup)
  /\ \A k \in Callers :
       WF_tokenVars(Review(k) \/ CheckAge(k) \/ Request(k) \/ Failed(k) \/ Set(k) \/ Loaded(k))

---------------------------------------------------------------------------
(* Properties.                                                             *)

TokenTypeOK ==
  /\ now \in Nat /\ failures \in Nat /\ changes \in Nat
  /\ life \in [Accounts -> Nat]
  /\ cache \in [Accounts -> Tokens \cup {None}]
  /\ call \in [Callers -> Calls]
  /\ \A k \in Callers : call[k].pc \in {"set", "ca"} => call[k].answer # None

Answered(k) == call[k].pc = "ca"

\* A client is only ever made with a token that names the account asked for
\* and had not expired when the call began, whatever was refreshed, cleaned
\* or failed meanwhile: the code compares with the clock at another moment
\* on each of its three ways to a token.
HandedOutUnexpired == \A k \in Callers : Answered(k) =>
  /\ call[k].answer.account = call[k].account
  /\ call[k].began <= call[k].answer.exp

\* Unless its refresh was refused, the token is of the account as it was
\* since the call began, never of a deleted one of the same name.
OfLiveAccount == \A k \in Callers : Answered(k) /\ call[k].got # "kept" =>
  call[k].answer.life >= call[k].since

\* ... and it has half of its life before it, and is not older than maxTTL,
\* when the call begins: the jitter only makes a refresh earlier.
Young == \A k \in Callers :
  LET t == call[k].answer IN
    Answered(k) /\ call[k].got # "kept" /\ t.secs # None =>
      /\ call[k].began <= t.exp - (t.secs * 50) \div 100
      /\ call[k].began <= t.exp - t.secs + MaxTTL

\* What the comment at token_manager.go:73-74 says: where the refresh fails,
\* the old token is returned only if it is still valid.  One of an account
\* that was deleted before the call began is not.
KeptValid == \A k \in Callers : Answered(k) /\ call[k].got = "kept" =>
  call[k].answer.life >= call[k].since

\* The cache does not grow with accounts nobody asks for any more.
ExpiredLeaves == \A a \in Accounts :
  (cache[a] # None /\ Expired(cache[a])) ~> (cache[a] = None \/ ~Expired(cache[a]))

=============================================================================
