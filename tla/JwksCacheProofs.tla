-------------------------- MODULE JwksCacheProofs --------------------------
(***************************************************************************)
(* Proofs about JwksCache for any keys, any number of requests, any TTL    *)
(* and any request timeout.                                                *)
(***************************************************************************)
EXTENDS JwksCache, TLAPS

-----------------------------------------------------------------------------
(***************************************************************************)
(* Types.                                                                  *)
(***************************************************************************)

LEMMA TypeInit == Init => TypeOK
<1> SUFFICES ASSUME Init PROVE TypeOK
  OBVIOUS
<1>1. fetched \in [Call -> SUBSET Key] /\ retired \in [Key -> Nat \union {-1}]
  BY DEF Init
<1> QED
  BY <1>1 DEF Init, TypeOK

LEMMA TypeStep ==
  ASSUME TypeOK, [Next]_vars
  PROVE  TypeOK'
<1> USE DEF TypeOK, Goto, Outcome, Conclude, workosVars, cacheVars, callVars,
            history
<1>1. ASSUME NEW c \in Call, Start(c) PROVE TypeOK'
  BY <1>1 DEF Start
<1>2. ASSUME NEW c \in Call, Lookup(c) PROVE TypeOK'
  BY <1>2 DEF Lookup
<1>3. ASSUME NEW c \in Call, Load(c) PROVE TypeOK'
  BY <1>3 DEF Load
<1>4. ASSUME NEW c \in Call, Store(c) PROVE TypeOK'
  BY <1>4 DEF Store
<1>5. ASSUME NEW c \in Call, Fail(c) PROVE TypeOK'
  BY <1>5 DEF Fail
<1>6. ASSUME NEW k \in Key, Publish(k) \/ Retire(k) PROVE TypeOK'
  BY <1>6 DEF Publish, Retire
<1>7. CASE Tick
  BY <1>7 DEF Tick
<1>8. CASE UNCHANGED vars
  BY <1>8 DEF vars
<1> QED
  BY <1>1, <1>2, <1>3, <1>4, <1>5, <1>6, <1>7, <1>8 DEF Next, Serve

\* Every step of the cache, of WorkOS and of the clock keeps the types.
THEOREM TypeCorrect == Spec => []TypeOK
<1>1. TypeOK /\ [Next]_vars => TypeOK'
  BY TypeStep
<1> QED
  BY TypeInit, <1>1, PTL DEF Spec

-----------------------------------------------------------------------------
(***************************************************************************)
(* Retired keys expire.                                                    *)
(***************************************************************************)

\* A running request is within its timeout.
WithinTimeout ==
  \A c \in Call : started[c] <= now /\ (Running(c) => now <= started[c] + Timeout)

\* A key set in flight was at jwks_url since its request started.
FetchedIsRecent ==
  \A c \in Call : pc[c] = "store" =>
    \A k \in fetched[c] : PublishedSince(k, started[c])

\* A cached key set was at jwks_url within a timeout of being stored.
CachedIsRecent ==
  /\ loadedAt <= now
  /\ \A k \in keys : PublishedSince(k, loadedAt - Timeout)

\* Acceptance is dated when it happened.
ConcludedInPast == \A c \in Call : pc[c] = "ok" => concluded[c] <= now

AgeInv ==
  /\ TypeOK
  /\ WithinTimeout
  /\ FetchedIsRecent
  /\ CachedIsRecent
  /\ ConcludedInPast
  /\ RetiredKeysExpire

\* A key published since a time that has come stays so.
LEMMA PublishedSinceStable ==
  ASSUME TypeOK, [Next]_vars,
         NEW k \in Key, NEW t \in Int, t <= now, PublishedSince(k, t)
  PROVE  PublishedSince(k, t)'
<1>1. CASE UNCHANGED workosVars
  BY <1>1 DEF workosVars, PublishedSince
<1>2. ASSUME NEW l \in Key, Publish(l)
      PROVE  PublishedSince(k, t)'
  BY <1>2 DEF Publish, PublishedSince
<1>3. ASSUME NEW l \in Key, Retire(l)
      PROVE  PublishedSince(k, t)'
  BY <1>3 DEF Retire, PublishedSince, TypeOK
<1> QED
  BY <1>1, <1>2, <1>3
     DEF Next, Serve, Start, Lookup, Load, Store, Fail, Tick, vars, workosVars

\* Of an older time it is as true as of a younger one.
LEMMA PublishedSinceOlder ==
  ASSUME TypeOK, NEW k \in Key, NEW t \in Int, NEW u \in Int, u <= t,
         PublishedSince(k, t)
  PROVE  PublishedSince(k, u)
BY DEF PublishedSince, TypeOK

\* The clock does not go back, and a handler does not outlive its timeout.
LEMMA TimeStep ==
  ASSUME TypeOK, WithinTimeout, [Next]_vars
  PROVE  WithinTimeout' /\ now <= now'
<1> USE TimeoutAssumption DEF TypeOK, WithinTimeout, Running, Goto, Outcome,
        Conclude, workosVars, cacheVars, callVars, history
<1>1. ASSUME NEW c \in Call, Start(c) PROVE WithinTimeout' /\ now <= now'
  BY <1>1 DEF Start
<1>2. ASSUME NEW c \in Call, Lookup(c) PROVE WithinTimeout' /\ now <= now'
  BY <1>2 DEF Lookup
<1>3. ASSUME NEW c \in Call, Load(c) PROVE WithinTimeout' /\ now <= now'
  BY <1>3 DEF Load
<1>4. ASSUME NEW c \in Call, Store(c) PROVE WithinTimeout' /\ now <= now'
  BY <1>4 DEF Store
<1>5. ASSUME NEW c \in Call, Fail(c) PROVE WithinTimeout' /\ now <= now'
  BY <1>5 DEF Fail
<1>6. ASSUME NEW k \in Key, Publish(k) \/ Retire(k)
      PROVE  WithinTimeout' /\ now <= now'
  BY <1>6 DEF Publish, Retire
<1>7. CASE Tick
  BY <1>7 DEF Tick
<1>8. CASE UNCHANGED vars
  BY <1>8 DEF vars
<1> QED
  BY <1>1, <1>2, <1>3, <1>4, <1>5, <1>6, <1>7, <1>8 DEF Next, Serve

\* The step accepts c's token, on this key set.
Accepts(c, set) ==
  /\ pc'[c] = "ok" /\ pc[c] # "ok"
  /\ token[c] \in set
  /\ concluded'[c] = now

\* Whoever accepts a token in a step has found its key in the usable cache
\* or in the key set it stores.
LEMMA AcceptedFrom ==
  ASSUME TypeOK, [Next]_vars, NEW c \in Call, pc'[c] = "ok"
  PROVE  \/ pc[c] = "ok" /\ concluded'[c] = concluded[c]
         \/ Usable /\ Accepts(c, keys) /\ now' = now
         \/ pc[c] = "store" /\ Accepts(c, fetched[c]) /\ now' = now
<1> USE DEF TypeOK, Goto, Outcome, Conclude, workosVars, cacheVars, callVars,
            history, Accepts
<1> DEFINE P == \/ pc[c] = "ok" /\ concluded'[c] = concluded[c]
                \/ Usable /\ Accepts(c, keys) /\ now' = now
                \/ pc[c] = "store" /\ Accepts(c, fetched[c]) /\ now' = now
<1>1. ASSUME NEW d \in Call, Start(d) PROVE P
  BY <1>1 DEF Start
<1>2. ASSUME NEW d \in Call, Lookup(d) PROVE P
  BY <1>2 DEF Lookup
<1>3. ASSUME NEW d \in Call, Load(d) PROVE P
  BY <1>3 DEF Load
<1>4. ASSUME NEW d \in Call, Store(d) PROVE P
  BY <1>4 DEF Store
<1>5. ASSUME NEW d \in Call, Fail(d) PROVE P
  BY <1>5 DEF Fail
<1>6. ASSUME NEW k \in Key, Publish(k) \/ Retire(k) PROVE P
  BY <1>6 DEF Publish, Retire
<1>7. ASSUME Tick PROVE P
  BY <1>7 DEF Tick
<1>8. ASSUME UNCHANGED vars PROVE P
  BY <1>8 DEF vars
<1> HIDE DEF P
<1>9. P
  BY <1>1, <1>2, <1>3, <1>4, <1>5, <1>6, <1>7, <1>8 DEF Next, Serve
<1> QED
  BY <1>9 DEF P

\* What a step does to the key sets in flight and in the cache.
LEMMA KeySetStep ==
  ASSUME TypeOK, [Next]_vars
  PROVE  /\ \A c \in Call : pc'[c] = "store" =>
              \/ pc[c] = "store" /\ UNCHANGED <<fetched[c], started[c]>>
              \/ fetched'[c] = published /\ UNCHANGED <<started[c], workosVars>>
         /\ \/ UNCHANGED <<keys, loadedAt>>
            \/ \E c \in Call :
                 /\ pc[c] = "store" /\ keys' = fetched[c] /\ loadedAt' = now
                 /\ UNCHANGED <<now, workosVars>>
<1> USE DEF TypeOK, Goto, Outcome, Conclude, workosVars, cacheVars, callVars,
            history
<1> DEFINE F == \A c \in Call : pc'[c] = "store" =>
                  \/ pc[c] = "store" /\ UNCHANGED <<fetched[c], started[c]>>
                  \/ /\ fetched'[c] = published
                     /\ UNCHANGED <<started[c], workosVars>>
           C == \/ UNCHANGED <<keys, loadedAt>>
                \/ \E c \in Call :
                     /\ pc[c] = "store" /\ keys' = fetched[c] /\ loadedAt' = now
                     /\ UNCHANGED <<now, workosVars>>
<1>1. ASSUME NEW d \in Call, Start(d) PROVE F /\ C
  BY <1>1 DEF Start
<1>2. ASSUME NEW d \in Call, Lookup(d) PROVE F /\ C
  BY <1>2 DEF Lookup
<1>3. ASSUME NEW d \in Call, Load(d) PROVE F /\ C
  BY <1>3 DEF Load
<1>4. ASSUME NEW d \in Call, Store(d) PROVE F /\ C
  BY <1>4 DEF Store
<1>5. ASSUME NEW d \in Call, Fail(d) PROVE F /\ C
  BY <1>5 DEF Fail
<1>6. ASSUME NEW k \in Key, Publish(k) \/ Retire(k) PROVE F /\ C
  BY <1>6 DEF Publish, Retire
<1>7. ASSUME Tick PROVE F /\ C
  BY <1>7 DEF Tick
<1>8. ASSUME UNCHANGED vars PROVE F /\ C
  BY <1>8 DEF vars
<1> HIDE DEF F, C
<1>9. F /\ C
  BY <1>1, <1>2, <1>3, <1>4, <1>5, <1>6, <1>7, <1>8 DEF Next, Serve
<1> QED
  BY <1>9 DEF F, C

LEMMA TokenStays ==
  ASSUME [Next]_vars
  PROVE  UNCHANGED token
BY DEF Next, Serve, Start, Lookup, Load, Store, Fail, Tick, Publish, Retire, vars

LEMMA AgeStep ==
  ASSUME AgeInv, [Next]_vars
  PROVE  AgeInv'
<1> USE TtlAssumption, TimeoutAssumption
<1>1. TypeOK /\ TypeOK'
  BY TypeStep DEF AgeInv
<1>2. WithinTimeout' /\ now <= now'
  BY TimeStep DEF AgeInv
<1>3. FetchedIsRecent'
  <2> SUFFICES ASSUME NEW c \in Call, pc'[c] = "store", NEW k \in fetched'[c],
                      NEW t \in Nat, t = started'[c]
               PROVE  PublishedSince(k, t)'
    BY <1>1 DEF FetchedIsRecent, PublishedSince, TypeOK
  <2>1. k \in Key
    BY <1>1 DEF TypeOK
  <2>2. CASE pc[c] = "store" /\ UNCHANGED <<fetched[c], started[c]>>
    <3>1. PublishedSince(k, t) /\ t <= now
      BY <1>1, <2>2 DEF AgeInv, FetchedIsRecent, WithinTimeout, TypeOK
    <3> QED
      BY <1>1, <2>1, <3>1, PublishedSinceStable
  <2>3. CASE fetched'[c] = published /\ UNCHANGED <<started[c], workosVars>>
    BY <2>3 DEF PublishedSince, workosVars
  <2> QED
    BY <1>1, <2>2, <2>3, KeySetStep
<1>4. CachedIsRecent'
  <2>1. CASE UNCHANGED <<keys, loadedAt>>
    <3> SUFFICES ASSUME NEW k \in keys, NEW t \in Int, t = loadedAt - Timeout
                 PROVE  PublishedSince(k, t)'
      BY <1>1, <1>2, <2>1 DEF CachedIsRecent, PublishedSince, AgeInv, TypeOK
    <3>1. k \in Key /\ t <= now /\ PublishedSince(k, t)
      BY <1>1 DEF AgeInv, CachedIsRecent, TypeOK
    <3> QED
      BY <1>1, <3>1, PublishedSinceStable
  <2>2. ASSUME NEW c \in Call, pc[c] = "store", keys' = fetched[c],
               loadedAt' = now, UNCHANGED <<now, workosVars>>
        PROVE  CachedIsRecent'
    <3>1. now <= started[c] + Timeout /\ now \in Nat /\ started[c] \in Nat
      BY <1>1, <2>2 DEF AgeInv, WithinTimeout, Running, Outcome, TypeOK
    <3>2. \A k \in fetched[c] : k \in Key /\ PublishedSince(k, started[c])
      BY <1>1, <2>2 DEF AgeInv, FetchedIsRecent, TypeOK
    <3>3. \A k \in fetched[c] : PublishedSince(k, now - Timeout)
      BY <1>1, <3>1, <3>2, PublishedSinceOlder
    <3> QED
      BY <2>2, <3>1, <3>3 DEF CachedIsRecent, PublishedSince, workosVars
  <2> QED
    BY <1>1, <2>1, <2>2, KeySetStep
<1>5. RetiredKeysExpire'
  <2> SUFFICES ASSUME Ttl > 0, NEW c \in Call, pc'[c] = "ok",
                      NEW k \in Key, k = token[c],
                      NEW t \in Int, t = concluded'[c] - Ttl - Timeout
               PROVE  PublishedSince(k, t)'
    BY <1>1, TokenStays DEF RetiredKeysExpire, PublishedSince, TypeOK
  <2>1. CASE pc[c] = "ok" /\ concluded'[c] = concluded[c]
    <3>1. PublishedSince(k, t) /\ t <= now
      BY <1>1, <2>1 DEF AgeInv, RetiredKeysExpire, ConcludedInPast, TypeOK
    <3> QED
      BY <1>1, <3>1, PublishedSinceStable
  <2>2. CASE Usable /\ Accepts(c, keys)
    <3>1. PublishedSince(k, loadedAt - Timeout) /\ t <= loadedAt - Timeout
      BY <1>1, <2>2 DEF AgeInv, CachedIsRecent, Usable, Accepts, TypeOK
    <3>2. PublishedSince(k, t) /\ t <= now
      BY <1>1, <2>2, <3>1, PublishedSinceOlder DEF Accepts, TypeOK
    <3> QED
      BY <1>1, <3>2, PublishedSinceStable
  <2>3. CASE pc[c] = "store" /\ Accepts(c, fetched[c])
    <3>1. PublishedSince(k, started[c]) /\ t <= started[c]
      BY <1>1, <2>3
      DEF AgeInv, FetchedIsRecent, WithinTimeout, Running, Outcome, Accepts, TypeOK
    <3>2. PublishedSince(k, t) /\ t <= now
      BY <1>1, <2>3, <3>1, PublishedSinceOlder DEF Accepts, TypeOK
    <3> QED
      BY <1>1, <3>2, PublishedSinceStable
  <2> QED
    BY <1>1, <2>1, <2>2, <2>3, AcceptedFrom
<1>6. ConcludedInPast'
  BY <1>1, <1>2, AcceptedFrom
  DEF AgeInv, ConcludedInPast, Accepts, TypeOK
<1> QED
  BY <1>1, <1>2, <1>3, <1>4, <1>5, <1>6 DEF AgeInv

\* The cache of get_jwks: whatever fetches race, whoever stores an old key
\* set over a newer one, no token is accepted on a key retired longer ago
\* than a TTL and a request timeout.
THEOREM RetiredKeysRefused == Spec => []RetiredKeysExpire
<1>1. Init => AgeInv
  BY TypeInit
  DEF Init, AgeInv, WithinTimeout, FetchedIsRecent, CachedIsRecent,
      ConcludedInPast, RetiredKeysExpire, Running
<1>2. AgeInv /\ [Next]_vars => AgeInv'
  BY AgeStep
<1>3. AgeInv => RetiredKeysExpire
  BY DEF AgeInv
<1> QED
  BY <1>1, <1>2, <1>3, PTL DEF Spec

-----------------------------------------------------------------------------
(***************************************************************************)
(* A request that runs alone retries on what it fetched.                   *)
(***************************************************************************)

\* While a call has run alone it is the only one that runs.
AloneRuns ==
  \A c, d \in Call : alone[c] /\ Running(c) /\ Running(d) => c = d

\* A retry finds in the cache what its request has stored.
RetryCached ==
  \A c \in Call : pc[c] = "lookup" /\ stage[c] = "retry" /\ alone[c] =>
    loaded /\ keys = fetched[c]

StartsFirst == \A c \in Call : pc[c] = "idle" => stage[c] = "first"

RetryInv ==
  /\ TypeOK
  /\ AloneRuns
  /\ StartsFirst
  /\ RetryCached
  /\ RetrySeesRefreshedKeys

\* A call that starts is alone if nothing runs, and then the others are not.
LEMMA AloneStart ==
  ASSUME TypeOK, AloneRuns, NEW c \in Call, Start(c)
  PROVE  AloneRuns'
<1> SUFFICES ASSUME NEW d \in Call, NEW e \in Call,
                    alone'[d], Running(d)', Running(e)'
             PROVE  d = e
  BY DEF AloneRuns
<1>1. \A f \in Call \ {c} : Running(f)' => Running(f)
  BY DEF TypeOK, Start, Goto, Running
<1>2. CASE d = c
  <2>1. \A f \in Call : ~Running(f)
    BY <1>2 DEF TypeOK, Start
  <2> QED
    BY <1>1, <1>2, <2>1
<1>3. CASE d # c
  <2>1. ~Running(d)
    BY <1>3 DEF TypeOK, Start
  <2> QED
    BY <1>1, <1>3, <2>1
<1> QED
  BY <1>2, <1>3

\* Any other step leaves no more calls running than there were.
LEMMA AloneStays ==
  ASSUME AloneRuns, UNCHANGED alone, \A d \in Call : Running(d)' => Running(d)
  PROVE  AloneRuns'
BY DEF AloneRuns

LEMMA RetryStart ==
  ASSUME RetryInv, NEW c \in Call, Start(c)
  PROVE  RetryInv'
<1> USE DEF RetryInv
<1>1. TypeOK'
  BY TypeStep DEF Next
<1>2. AloneRuns'
  BY AloneStart
<1>3. StartsFirst'
  BY DEF StartsFirst, Start, Goto, TypeOK
<1>4. RetryCached'
  <2> SUFFICES ASSUME NEW d \in Call, pc'[d] = "lookup", stage'[d] = "retry",
                      alone'[d]
               PROVE  loaded' /\ keys' = fetched'[d]
    BY DEF RetryCached
  <2>1. d # c
    BY DEF StartsFirst, Start, TypeOK
  <2>2. pc[d] = "lookup" /\ alone[d]
    BY <2>1 DEF Start, Goto, TypeOK
  <2> QED
    BY <2>2 DEF RetryCached, Start, cacheVars
<1>5. RetrySeesRefreshedKeys'
  <2> SUFFICES ASSUME NEW d \in Call, pc'[d] = "unknown", alone'[d]
               PROVE  token'[d] \notin fetched'[d]
    BY DEF RetrySeesRefreshedKeys
  <2>1. pc[d] = "unknown" /\ alone[d]
    BY DEF Start, Goto, TypeOK
  <2> QED
    BY <2>1 DEF RetrySeesRefreshedKeys, Start
<1> QED
  BY <1>1, <1>2, <1>3, <1>4, <1>5

\* While c runs, no other call has run alone, so c's store spoils no retry that
\* counts.
LEMMA RetryServe ==
  ASSUME RetryInv, NEW c \in Call, Serve(c) \/ Fail(c)
  PROVE  RetryInv'
<1> USE DEF RetryInv, TypeOK, Goto, Conclude, cacheVars
<1>1. TypeOK'
  BY TypeStep DEF Next
<1>2. /\ UNCHANGED <<alone, token>> /\ Running(c)
      /\ \A d \in Call \ {c} : UNCHANGED <<pc[d], stage[d], fetched[d]>>
  BY DEF Serve, Lookup, Load, Store, Fail, Running, Outcome, history
<1>3. AloneRuns'
  <2>1. \A d \in Call : Running(d)' => Running(d)
    BY <1>2 DEF Running
  <2> QED
    BY <1>2, <2>1, AloneStays
<1>4. StartsFirst'
  <2>1. pc'[c] # "idle"
    BY DEF Serve, Lookup, Load, Store, Fail
  <2> QED
    BY <1>2, <2>1 DEF StartsFirst
<1>5. RetryCached'
  <2> SUFFICES ASSUME NEW d \in Call, pc'[d] = "lookup", stage'[d] = "retry",
                      alone[d]
               PROVE  loaded' /\ keys' = fetched'[d]
    BY <1>2 DEF RetryCached
  <2>1. CASE d = c
    BY <2>1 DEF Serve, Lookup, Load, Store, Fail
  <2>2. CASE d # c
    <3>1. Running(d)
      BY <1>2, <2>2 DEF Running, Outcome
    <3> QED
      BY <1>2, <2>2, <3>1 DEF AloneRuns
  <2> QED
    BY <2>1, <2>2
<1>6. RetrySeesRefreshedKeys'
  <2> SUFFICES ASSUME NEW d \in Call, pc'[d] = "unknown", alone[d]
               PROVE  token[d] \notin fetched'[d]
    BY <1>2 DEF RetrySeesRefreshedKeys
  <2>1. CASE d # c
    BY <1>2, <2>1 DEF RetrySeesRefreshedKeys
  <2>2. CASE d = c /\ Lookup(c)
    <3>1. stage[c] = "retry" /\ pc[c] = "lookup" /\ token[c] \notin keys
          /\ UNCHANGED fetched
      BY <2>2 DEF Lookup
    <3> QED
      BY <2>2, <3>1 DEF RetryCached
  <2>3. CASE d = c /\ Store(c)
    BY <2>3 DEF Store
  <2>4. CASE d = c /\ (Load(c) \/ Fail(c))
    BY <2>4 DEF Load, Fail
  <2> QED
    BY <2>1, <2>2, <2>3, <2>4 DEF Serve
<1> QED
  BY <1>1, <1>3, <1>4, <1>5, <1>6

\* The keys at WorkOS and the clock are not looked at.
LEMMA RetryElse ==
  ASSUME RetryInv, [Next]_vars, UNCHANGED <<token, cacheVars, callVars, alone>>
  PROVE  RetryInv'
<1>1. TypeOK'
  BY TypeStep DEF RetryInv
<1> QED
  BY <1>1
  DEF RetryInv, AloneRuns, StartsFirst, RetryCached, RetrySeesRefreshedKeys,
      Running, cacheVars, callVars

LEMMA RetryStep ==
  ASSUME RetryInv, [Next]_vars
  PROVE  RetryInv'
<1>1. ASSUME NEW k \in Key, Publish(k) \/ Retire(k) PROVE RetryInv'
  BY <1>1, RetryElse DEF Publish, Retire, history
<1>2. CASE Tick
  BY <1>2, RetryElse DEF Tick, history
<1>3. CASE UNCHANGED vars
  BY <1>3, RetryElse DEF vars, history
<1> QED
  BY <1>1, <1>2, <1>3, RetryStart, RetryServe DEF Next

\* The retry of validate_jwt is on the keys it has just fetched, unless other
\* requests ran meanwhile.
THEOREM RetryOnRefreshedKeys == Spec => []RetrySeesRefreshedKeys
<1>1. Init => RetryInv
  BY TypeInit
  DEF Init, RetryInv, AloneRuns, StartsFirst, RetryCached,
      RetrySeesRefreshedKeys, Running
<1>2. RetryInv /\ [Next]_vars => RetryInv'
  BY RetryStep
<1>3. RetryInv => RetrySeesRefreshedKeys
  BY DEF RetryInv
<1> QED
  BY <1>1, <1>2, <1>3, PTL DEF Spec

-----------------------------------------------------------------------------
(***************************************************************************)
(* Validation ends.                                                        *)
(***************************************************************************)

\* What a step leaves to do.
LEMMA FewerSteps ==
  ASSUME TypeOK, [Next]_vars, NEW c \in Call, Running(c)
  PROVE  \/ UNCHANGED <<pc[c], stage[c]>>
         \/ StepsLeft(c)' < StepsLeft(c)
<1> USE DEF TypeOK, Goto, Running, Outcome, Conclude, workosVars, cacheVars,
            callVars, history, StepsLeft
<1> DEFINE P == UNCHANGED <<pc[c], stage[c]>> \/ StepsLeft(c)' < StepsLeft(c)
<1>1. ASSUME NEW d \in Call, Start(d) PROVE P
  BY <1>1 DEF Start
<1>2. ASSUME NEW d \in Call, Lookup(d) PROVE P
  BY <1>2 DEF Lookup
<1>3. ASSUME NEW d \in Call, Load(d) PROVE P
  BY <1>3 DEF Load
<1>4. ASSUME NEW d \in Call, Store(d) PROVE P
  BY <1>4 DEF Store
<1>5. ASSUME NEW d \in Call, Fail(d) PROVE P
  BY <1>5 DEF Fail
<1>6. ASSUME NEW k \in Key, Publish(k) \/ Retire(k) PROVE P
  BY <1>6 DEF Publish, Retire
<1>7. ASSUME Tick PROVE P
  BY <1>7 DEF Tick
<1>8. ASSUME UNCHANGED vars PROVE P
  BY <1>8 DEF vars
<1> HIDE DEF P
<1>9. P
  BY <1>1, <1>2, <1>3, <1>4, <1>5, <1>6, <1>7, <1>8 DEF Next, Serve
<1> QED
  BY <1>9 DEF P

\* validate_jwt refreshes once and retries once, for any rotation of the keys
\* and any other requests.
THEOREM EveryValidationEnds == Spec => ValidationEnds
<1>1. TypeOK /\ [Next]_vars =>
        [\A c \in Call : Running(c) =>
           \/ UNCHANGED <<pc[c], stage[c]>>
           \/ StepsLeft(c)' < StepsLeft(c)]_vars
  BY FewerSteps
<1> QED
  BY <1>1, TypeCorrect, PTL DEF Spec, ValidationEnds
=============================================================================
