------------------------- MODULE TokenManager_proofs -------------------------
(***************************************************************************)
(* What a caller of the token manager can rely on, for any accounts, any   *)
(* number of callers, any lifetimes and any clock.                         *)
(*                                                                         *)
(* The inductive invariant follows a call from stage to stage: what the    *)
(* review and the age check saw of the token held at a moment after the    *)
(* call began, and an account's life and the clock only grow.              *)
(***************************************************************************)
EXTENDS TokenManager, TLAPS

Started(c, time, lives) ==
  /\ c.began <= time
  /\ c.pc # "idle" => c.account \in Accounts /\ c.since <= lives[c.account]

Held(c) == /\ c.pc \in {"review", "age"} => c.cached # None
           /\ c.cached # None => c.cached.account = c.account

\* What the review has told of the cached token.
Reviewed(c) == c.pc = "age" => /\ c.began <= c.cached.exp
                               /\ c.since <= c.cached.life

Halfway(c, t) == t.secs # None => /\ c.began <= t.exp - (t.secs * 50) \div 100
                                  /\ c.began <= t.exp - t.secs + MaxTTL

\* What is known of an answer.
Good(c) == c.pc \in {"set", "ca"} =>
  /\ c.answer # None
  /\ c.answer.account = c.account
  /\ c.began <= c.answer.exp
  /\ c.got # "kept" => c.since <= c.answer.life /\ Halfway(c, c.answer)

CallInv(c, time, lives) ==
  c \in Calls /\ Started(c, time, lives) /\ Held(c) /\ Reviewed(c) /\ Good(c)

State == /\ now \in Nat /\ failures \in Nat /\ changes \in Nat
         /\ life \in [Accounts -> Nat]
         /\ cache \in [Accounts -> Tokens \cup {None}]
         /\ \A a \in Accounts : cache[a] # None => cache[a].account = a

AllCalls == /\ call \in [Callers -> Calls]
            /\ \A k \in Callers : CallInv(call[k], now, life)

TokenInv == State /\ AllCalls

---------------------------------------------------------------------------

LEMMA IdleGood == ASSUME State PROVE CallInv(Idle, now, life)
BY TokenAssumption DEF State, CallInv, Idle, Calls, Started, Held, Reviewed, Good

\* A call keeps its invariant when time passes and accounts come and go.
LEMMA CallAges ==
  ASSUME NEW c, NEW time \in Nat, NEW later \in Nat, time <= later,
         NEW lives \in [Accounts -> Nat], NEW after \in [Accounts -> Nat],
         \A a \in Accounts : lives[a] <= after[a],
         CallInv(c, time, lives)
  PROVE  CallInv(c, later, after)
<1>1. c.began \in Nat /\ c.since \in Nat
  BY DEF CallInv, Calls
<1>2. Started(c, later, after)
  BY <1>1 DEF CallInv, Started
<1> QED
  BY <1>2 DEF CallInv

\* One caller moves on, the others stay.
LEMMA OneMoves ==
  ASSUME TokenInv, now' = now, life' = life,
         NEW k \in Callers, NEW c, call' = [call EXCEPT ![k] = c],
         CallInv(c, now, life)
  PROVE  AllCalls'
<1>1. c \in Calls
  BY DEF CallInv
<1>2. ASSUME NEW l \in Callers PROVE CallInv(call'[l], now', life')
  BY DEF TokenInv, AllCalls
<1> QED
  BY <1>1, <1>2 DEF TokenInv, AllCalls

LEMMA TokenInitInv == TokenInit => TokenInv
<1> SUFFICES ASSUME TokenInit PROVE TokenInv
  OBVIOUS
<1>1. State
  BY DEF TokenInit, State
<1>2. Idle \in Calls
  BY <1>1, IdleGood DEF CallInv
<1> QED
  BY <1>1, <1>2, IdleGood DEF TokenInit, TokenInv, AllCalls

---------------------------------------------------------------------------
(* The steps of a call.                                                    *)

LEMMA LoadStep ==
  ASSUME TokenInv, NEW k \in Callers, NEW a \in Accounts, Load(k, a)
  PROVE  TokenInv'
<1> DEFINE c == [Idle EXCEPT !.pc = IF Lookup(a) = None THEN "request" ELSE "review",
                             !.account = a, !.cached = Lookup(a),
                             !.began = now, !.since = life[a]]
<1>1. State'
  BY DEF TokenInv, State, Load
<1>2. c \in Calls
  BY DEF TokenInv, State, Calls, Idle, Lookup
<1>3. CallInv(c, now, life)
  BY <1>2 DEF TokenInv, State, CallInv, Idle, Lookup, Started, Held, Reviewed, Good
<1> HIDE DEF c
<1>4. call' = [call EXCEPT ![k] = c]
  BY DEF Load, c
<1> QED
  BY <1>1, <1>3, <1>4, OneMoves DEF Load, TokenInv

\* A call that moves on without an answer.
LEMMA GoesCall ==
  ASSUME TokenInv, NEW k \in Callers, NEW pc, Goes(k, pc)
  PROVE  call' = [call EXCEPT ![k] = [call[k] EXCEPT !.pc = pc]]
BY DEF Goes, TokenInv, AllCalls

LEMMA ReviewStep ==
  ASSUME TokenInv, NEW k \in Callers, Review(k)
  PROVE  TokenInv'
<1>1. State'
  BY DEF TokenInv, State, Review, Fail
<1>2. CallInv(call[k], now, life) /\ call[k].pc = "review"
  BY DEF TokenInv, AllCalls, Review
<1>3. CASE Goes(k, "age") /\ Authentic(call[k].cached)
  <2> DEFINE c == [call[k] EXCEPT !.pc = "age"]
  <2>1. c \in Calls
    BY <1>2 DEF CallInv, Calls
  <2>2. call[k].cached \in Tokens /\ call[k].cached.account = call[k].account
    BY <1>2 DEF CallInv, Held, Calls
  <2>3. call[k].began <= call[k].cached.exp /\ call[k].since <= call[k].cached.life
    BY <1>2, <1>3, <2>2 DEF Authentic, CallInv, Started, Calls, Tokens, TokenInv, State
  <2>4. CallInv(c, now, life)
    BY <1>2, <2>1, <2>2, <2>3 DEF CallInv, Calls, Started, Held, Reviewed, Good
  <2> QED
    BY <1>1, <1>3, <2>4, GoesCall, OneMoves DEF Review, TokenInv
<1>4. CASE Goes(k, "request")
  <2> DEFINE c == [call[k] EXCEPT !.pc = "request"]
  <2>1. c \in Calls
    BY <1>2 DEF CallInv, Calls
  <2>2. CallInv(c, now, life)
    BY <1>2, <2>1 DEF CallInv, Calls, Started, Held, Reviewed, Good
  <2> QED
    BY <1>1, <1>4, <2>2, GoesCall, OneMoves DEF Review, TokenInv
<1> QED
  BY <1>3, <1>4 DEF Review

\* What the jitter leaves of the age check: it only makes it stricter.
LEMMA NotAged ==
  ASSUME NEW t \in Tokens, NEW jitter \in 0 .. MaxJitter - 1, now \in Nat, ~Aged(t, jitter)
  PROVE  t.secs # None => /\ now <= t.exp - (t.secs * 50) \div 100
                          /\ now <= t.exp - t.secs + MaxTTL
<1> SUFFICES ASSUME t.secs # None
             PROVE  /\ now <= t.exp - (t.secs * 50) \div 100
                    /\ now <= t.exp - t.secs + MaxTTL
  OBVIOUS
<1>1. t.secs \in Nat /\ t.exp \in Nat /\ MaxTTL \in Nat /\ jitter \in Nat
  BY TokenAssumption DEF Tokens
<1>2. (t.secs * 50) \div 100 \in Int
  BY <1>1
<1> QED
  BY <1>1, <1>2 DEF Aged

LEMMA CheckAgeStep ==
  ASSUME TokenInv, NEW k \in Callers, CheckAge(k)
  PROVE  TokenInv'
<1>1. State'
  BY DEF TokenInv, State, CheckAge
<1>2. CallInv(call[k], now, life) /\ call[k].pc = "age"
  BY DEF TokenInv, AllCalls, CheckAge
<1>3. CASE Goes(k, "request")
  <2> DEFINE c == [call[k] EXCEPT !.pc = "request"]
  <2>1. c \in Calls
    BY <1>2 DEF CallInv, Calls
  <2>2. CallInv(c, now, life)
    BY <1>2, <2>1 DEF CallInv, Calls, Started, Held, Reviewed, Good
  <2> QED
    BY <1>1, <1>3, <2>2, GoesCall, OneMoves DEF CheckAge, TokenInv
<1>4. ASSUME NEW jitter \in 0 .. MaxJitter - 1, ~Aged(call[k].cached, jitter),
             Answers(k, "ca", call[k].cached, "cached")
      PROVE  TokenInv'
  <2> DEFINE t == call[k].cached
             c == [call[k] EXCEPT !.pc = "ca", !.answer = t, !.got = "cached"]
  <2>1. t \in Tokens /\ t # None
    BY <1>2 DEF CallInv, Held, Calls
  <2>2. c \in Calls
    BY <1>2, <2>1 DEF CallInv, Calls
  <2>3. now \in Nat /\ call[k].began \in Nat /\ call[k].began <= now
    BY <1>2 DEF TokenInv, State, CallInv, Calls, Started
  <2>4. Halfway(call[k], t)
    <3> SUFFICES ASSUME t.secs # None
                 PROVE  /\ call[k].began <= t.exp - (t.secs * 50) \div 100
                        /\ call[k].began <= t.exp - t.secs + MaxTTL
      BY DEF Halfway
    <3>1. /\ now <= t.exp - (t.secs * 50) \div 100
          /\ now <= t.exp - t.secs + MaxTTL
      BY <1>4, <2>1, <2>3, NotAged
    <3>2. t.secs \in Nat /\ t.exp \in Nat /\ MaxTTL \in Nat
      BY <2>1, TokenAssumption DEF Tokens
    <3>3. (t.secs * 50) \div 100 \in Int
      BY <3>2
    <3> QED
      BY <2>3, <3>1, <3>2, <3>3
  <2>5. Good(c)
    BY <1>2, <2>1, <2>2, <2>4 DEF CallInv, Calls, Held, Reviewed, Good, Halfway
  <2>6. CallInv(c, now, life)
    BY <1>2, <2>2, <2>5 DEF CallInv, Calls, Started, Held, Reviewed
  <2>7. call' = [call EXCEPT ![k] = c]
    BY <1>4 DEF Answers, TokenInv, AllCalls
  <2> HIDE DEF c
  <2> QED
    BY <1>1, <2>6, <2>7, OneMoves DEF CheckAge, TokenInv
<1> QED
  BY <1>3, <1>4 DEF CheckAge

LEMMA RequestStep ==
  ASSUME TokenInv, NEW k \in Callers, Request(k)
  PROVE  TokenInv'
<1>1. State'
  BY DEF TokenInv, State, Request, Fail
<1>2. CallInv(call[k], now, life) /\ call[k].pc = "request"
  BY DEF TokenInv, AllCalls, Request
<1>3. CASE Goes(k, "failed")
  <2> DEFINE c == [call[k] EXCEPT !.pc = "failed"]
  <2>1. c \in Calls
    BY <1>2 DEF CallInv, Calls
  <2>2. CallInv(c, now, life)
    BY <1>2, <2>1 DEF CallInv, Calls, Started, Held, Reviewed, Good
  <2> QED
    BY <1>1, <1>3, <2>2, GoesCall, OneMoves DEF Request, TokenInv
<1>4. ASSUME NEW secs \in Lifetimes,
             Answers(k, "set", Issued(call[k].account, secs), "issued")
      PROVE  TokenInv'
  <2> DEFINE a == call[k].account
             t == Issued(a, secs)
             c == [call[k] EXCEPT !.pc = "set", !.answer = t, !.got = "issued"]
  <2>1. /\ a \in Accounts /\ call[k].since <= life[a]
        /\ call[k].began \in Nat /\ call[k].since \in Nat /\ call[k].began <= now
        /\ now \in Nat /\ life[a] \in Nat
    BY <1>2 DEF CallInv, Calls, Started, TokenInv, State
  <2>2. secs \in Nat \/ secs = None
    BY TokenAssumption
  <2>3. /\ t.account = a /\ t.life = life[a] /\ t.secs = secs
        /\ t.exp = now + IF secs = None THEN Unstated ELSE secs
    BY DEF Issued
  <2>4. t \in Tokens /\ t # None
    BY <2>1, <2>2, TokenAssumption DEF Issued, Tokens
  <2>5. Halfway(call[k], t)
    <3> SUFFICES ASSUME secs # None
                 PROVE  /\ call[k].began <= t.exp - (secs * 50) \div 100
                        /\ call[k].began <= t.exp - secs + MaxTTL
      BY <2>3 DEF Halfway
    <3> HIDE DEF t
    <3>1. secs \in Nat /\ t.exp = now + secs /\ MaxTTL \in Nat
      BY <2>2, <2>3, TokenAssumption
    <3>2. (secs * 50) \div 100 \in Int /\ (secs * 50) \div 100 <= secs
      BY <3>1
    <3> QED
      BY <2>1, <3>1, <3>2
  <2>6. call[k].began <= t.exp /\ call[k].since <= t.life
    <3> HIDE DEF t
    <3> QED
      BY <2>1, <2>2, <2>3, TokenAssumption
  <2>7. call' = [call EXCEPT ![k] = c]
    BY <1>4 DEF Answers, TokenInv, AllCalls
  <2> HIDE DEF t
  <2>8. c \in Calls
    BY <1>2, <2>4 DEF CallInv, Calls
  <2>9. Good(c)
    BY <1>2, <2>3, <2>4, <2>5, <2>6, <2>8 DEF CallInv, Calls, Good, Halfway
  <2>10. CallInv(c, now, life)
    BY <1>2, <2>8, <2>9 DEF CallInv, Calls, Started, Held, Reviewed
  <2> HIDE DEF c
  <2> QED
    BY <1>1, <2>7, <2>10, OneMoves DEF Request, TokenInv
<1> QED
  BY <1>3, <1>4 DEF Request

LEMMA FailedStep ==
  ASSUME TokenInv, NEW k \in Callers, Failed(k)
  PROVE  TokenInv'
<1>1. State'
  BY DEF TokenInv, State, Failed
<1>2. CallInv(call[k], now, life) /\ call[k].pc = "failed"
  BY DEF TokenInv, AllCalls, Failed
<1>3. CASE call' = [call EXCEPT ![k] = Idle]
  BY <1>1, <1>3, IdleGood, OneMoves DEF Failed, TokenInv
<1>4. CASE /\ call[k].cached # None /\ ~Expired(call[k].cached)
           /\ Answers(k, "ca", call[k].cached, "kept")
  <2> DEFINE t == call[k].cached
             c == [call[k] EXCEPT !.pc = "ca", !.answer = t, !.got = "kept"]
  <2>1. t \in Tokens /\ t # None
    BY <1>2, <1>4 DEF CallInv, Calls
  <2>2. c \in Calls
    BY <1>2, <2>1 DEF CallInv, Calls
  <2>3. call[k].began <= t.exp
    BY <1>2, <1>4, <2>1 DEF Expired, TokenInv, State, CallInv, Calls, Started, Tokens
  <2>4. Good(c)
    BY <1>2, <2>1, <2>2, <2>3 DEF CallInv, Calls, Held, Good
  <2>5. CallInv(c, now, life)
    BY <1>2, <2>2, <2>4 DEF CallInv, Calls, Started, Held, Reviewed
  <2>6. call' = [call EXCEPT ![k] = c]
    BY <1>4 DEF Answers, TokenInv, AllCalls
  <2> HIDE DEF c
  <2> QED
    BY <1>1, <2>5, <2>6, OneMoves DEF Failed, TokenInv
<1> QED
  BY <1>3, <1>4 DEF Failed

LEMMA SetStep ==
  ASSUME TokenInv, NEW k \in Callers, Set(k)
  PROVE  TokenInv'
<1>1. CallInv(call[k], now, life) /\ call[k].pc = "set" /\ Goes(k, "ca")
  BY DEF TokenInv, AllCalls, Set
<1>2. call[k].answer \in Tokens /\ call[k].answer.account = call[k].account
  BY <1>1 DEF CallInv, Calls, Good
<1>3. State'
  BY <1>2 DEF TokenInv, State, Set
<1> DEFINE c == [call[k] EXCEPT !.pc = "ca"]
<1>4. c \in Calls
  BY <1>1 DEF CallInv, Calls
<1>5. CallInv(c, now, life)
  BY <1>1, <1>4 DEF CallInv, Calls, Started, Held, Reviewed, Good, Halfway
<1> QED
  BY <1>1, <1>3, <1>5, GoesCall, OneMoves DEF Set, TokenInv

LEMMA LoadedStep ==
  ASSUME TokenInv, NEW k \in Callers, Loaded(k)
  PROVE  TokenInv'
<1>1. State'
  BY DEF TokenInv, State, Loaded
<1> QED
  BY <1>1, IdleGood, OneMoves DEF Loaded, TokenInv

\* The clock, the accounts and the cleanup.
LEMMA OthersStep ==
  ASSUME TokenInv,
         \/ Cleanup \/ PassTime \/ (\E a \in Accounts : ChangeAccount(a))
         \/ UNCHANGED tokenVars
  PROVE  TokenInv'
<1>1. State'
  BY DEF TokenInv, State, Cleanup, PassTime, ChangeAccount, tokenVars
<1>2. now <= now' /\ \A a \in Accounts : life[a] <= life'[a]
  BY DEF TokenInv, State, Cleanup, PassTime, ChangeAccount, tokenVars
<1>3. call' = call
  BY DEF Cleanup, PassTime, ChangeAccount, tokenVars
<1>4. ASSUME NEW k \in Callers PROVE CallInv(call[k], now', life')
  BY <1>1, <1>2, CallAges DEF TokenInv, AllCalls, State
<1> QED
  BY <1>1, <1>3, <1>4 DEF TokenInv, AllCalls

LEMMA TokenInvariant == TokenSpec => []TokenInv
<1>1. TokenInv /\ [TokenNext]_tokenVars => TokenInv'
  BY LoadStep, ReviewStep, CheckAgeStep, RequestStep, FailedStep, SetStep, LoadedStep,
     OthersStep DEF TokenNext, GetToken
<1> QED
  BY <1>1, TokenInitInv, PTL DEF TokenSpec

---------------------------------------------------------------------------

\* The cache, the calls and what they hold keep their types.
THEOREM TokenTypeCorrect == TokenSpec => []TokenTypeOK
<1>1. TokenInv => TokenTypeOK
  BY DEF TokenInv, State, AllCalls, CallInv, Good, TokenTypeOK
<1> QED
  BY <1>1, TokenInvariant, PTL

\* No client is made with a token that names another account, or with one that
\* had expired when the call began.
THEOREM NeverExpired == TokenSpec => []HandedOutUnexpired
<1>1. TokenInv => HandedOutUnexpired
  BY DEF TokenInv, AllCalls, CallInv, Good, HandedOutUnexpired, Answered
<1> QED
  BY <1>1, TokenInvariant, PTL

\* Nor, where the refresh was not refused, with one of a deleted account.
THEOREM NeverOfDeleted == TokenSpec => []OfLiveAccount
<1>1. TokenInv => OfLiveAccount
  <2> SUFFICES ASSUME TokenInv, NEW k \in Callers, Answered(k), call[k].got # "kept"
               PROVE  call[k].answer.life >= call[k].since
    BY DEF OfLiveAccount
  <2>1. CallInv(call[k], now, life)
    BY DEF TokenInv, AllCalls
  <2>2. call[k].answer \in Tokens /\ call[k].since <= call[k].answer.life
    BY <2>1 DEF CallInv, Good, Answered, Calls
  <2>3. call[k].since \in Nat /\ call[k].answer.life \in Nat
    BY <2>1, <2>2 DEF CallInv, Calls, Tokens
  <2> QED
    BY <2>2, <2>3
<1> QED
  BY <1>1, TokenInvariant, PTL

\* Nor with one past half of its life or past maxTTL.
THEOREM NeverOld == TokenSpec => []Young
<1>1. TokenInv => Young
  BY DEF TokenInv, AllCalls, CallInv, Good, Halfway, Young, Answered
<1> QED
  BY <1>1, TokenInvariant, PTL

=============================================================================
