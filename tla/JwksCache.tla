----------------------------- MODULE JwksCache -----------------------------
(***************************************************************************)
(* The signing keys AuthService validates tokens with.  One process keeps  *)
(* the key set it fetched last, with the time it stored it, behind an      *)
(* RwLock that no request holds across an await: a request reads the       *)
(* cache, fetches a key set and stores it in separate steps, and other     *)
(* requests run in between.  WorkOS publishes and retires keys meanwhile.  *)
(***************************************************************************)
EXTENDS Integers

CONSTANTS
  Key,         \* signing keys, by kid
  Call,        \* requests with a bearer token
  Ttl,         \* config.jwks_cache_ttl_secs, 0 for a cache that never expires
  Timeout,     \* config.api.request_timeout_secs
  Horizon      \* bound: the model's clock stops here

ASSUME TtlAssumption == Ttl \in Nat
ASSUME TimeoutAssumption == Timeout \in Nat
ASSUME HorizonAssumption == Horizon \in Nat

VARIABLES
  now,        \* the clock
  published,  \* the keys at jwks_url
  retired,    \* retired[k]: when k left jwks_url, -1 if it did not
  token,      \* token[c]: the kid that c's token names
  loaded,     \* has anything been stored in the cache?
  keys,       \* JwksCache.keys
  loadedAt,   \* JwksCache.loaded_at
  pc,         \* pc[c]: what call c does next, or its outcome
  stage,      \* stage[c]: where validate_jwt is: its first try, the refresh
              \* after a miss, or the retry
  fetched,    \* fetched[c]: the key set c received last
  started,    \* history: when c started
  alone,      \* history: no other call ran while c did
  concluded   \* history: when c's token was accepted

cacheVars == <<loaded, keys, loadedAt>>
workosVars == <<published, retired>>
callVars == <<pc, stage, fetched>>
history == <<started, alone, concluded>>
vars == <<now, workosVars, token, cacheVars, callVars, history>>

Outcome == {"ok", "invalid", "unknown", "error"}

Running(c) == pc[c] \notin {"idle"} \union Outcome
Goto(c, label) == pc' = [pc EXCEPT ![c] = label]

-----------------------------------------------------------------------------
Init ==
  /\ now = 0
  /\ published \in SUBSET Key
  /\ retired = [k \in Key |-> -1]
  /\ token \in [Call -> Key]
  /\ loaded = FALSE
  /\ keys = {}
  /\ loadedAt = 0
  /\ pc = [c \in Call |-> "idle"]
  /\ stage = [c \in Call |-> "first"]
  /\ fetched = [c \in Call |-> {}]
  /\ started = [c \in Call |-> 0]
  /\ alone = [c \in Call |-> TRUE]
  /\ concluded = [c \in Call |-> 0]

\* validate_jwt is called on a token with a kid.
Start(c) ==
  /\ pc[c] = "idle"
  /\ Goto(c, "lookup")
  /\ started' = [started EXCEPT ![c] = now]
  /\ alone' = [d \in Call |-> IF d = c THEN \A e \in Call : ~Running(e)
                                        ELSE alone[d] /\ ~Running(d)]
  /\ UNCHANGED <<now, workosVars, token, cacheVars, stage, fetched, concluded>>

\* Mutant: a second miss refreshes once more.
Conclude_Loops(c, set) ==
  \/ /\ token[c] \in set
     /\ Goto(c, "ok") \/ Goto(c, "invalid")
     /\ concluded' = [concluded EXCEPT ![c] = now]
     /\ UNCHANGED stage
  \/ /\ token[c] \notin set
     /\ stage' = [stage EXCEPT ![c] = "refresh"]
     /\ Goto(c, "load")
     /\ UNCHANGED concluded

\* try_validate_with_kid once it has its key set, and what validate_jwt does
\* with the result: a key that is found accepts the token or finds it
\* expired or malformed; a first miss refreshes, a second one refuses.
Conclude(c, set) ==
  \/ /\ token[c] \in set
     /\ Goto(c, "ok") \/ Goto(c, "invalid")
     /\ concluded' = [concluded EXCEPT ![c] = now]
     /\ UNCHANGED stage
  \/ /\ token[c] \notin set
     /\ stage[c] = "first"
     /\ stage' = [stage EXCEPT ![c] = "refresh"]
     /\ Goto(c, "load")
     /\ UNCHANGED concluded
  \/ /\ token[c] \notin set
     /\ stage[c] = "retry"
     /\ Goto(c, "unknown")
     /\ UNCHANGED <<stage, concluded>>

\* Mutant: the age of the cache is not looked at.
Usable_Ageless == loaded

Usable == loaded /\ (Ttl = 0 \/ now - loadedAt < Ttl)

\* get_jwks: the cached keys unless they are missing or expired.
Lookup(c) ==
  /\ pc[c] = "lookup"
  /\ \/ Usable /\ Conclude(c, keys)
     \/ ~Usable /\ Goto(c, "load") /\ UNCHANGED <<stage, concluded>>
  /\ UNCHANGED <<now, workosVars, token, cacheVars, fetched, started, alone>>

\* load_jwks: the endpoint answers with what it publishes now.
Load(c) ==
  /\ pc[c] = "load"
  /\ fetched' = [fetched EXCEPT ![c] = published]
  /\ Goto(c, "store")
  /\ UNCHANGED <<now, workosVars, token, cacheVars, stage, history>>

\* Mutant: the cache is marked stale by dating it a TTL back.
Store_BackDated(c) ==
  /\ pc[c] = "store"
  /\ loaded' = TRUE
  /\ keys' = fetched[c]
  /\ loadedAt' = now - Ttl
  /\ \/ /\ stage[c] = "refresh"
        /\ stage' = [stage EXCEPT ![c] = "retry"]
        /\ Goto(c, "lookup")
        /\ UNCHANGED concluded
     \/ stage[c] # "refresh" /\ Conclude(c, fetched[c])
  /\ UNCHANGED <<now, workosVars, token, fetched, started, alone>>

\* Mutant: the retry looks at the keys that were cached before the refresh.
Store_Forgotten(c) ==
  /\ pc[c] = "store"
  /\ \/ /\ stage[c] = "refresh"
        /\ stage' = [stage EXCEPT ![c] = "retry"]
        /\ Goto(c, "lookup")
        /\ UNCHANGED <<cacheVars, concluded>>
     \/ /\ stage[c] # "refresh"
        /\ loaded' = TRUE /\ keys' = fetched[c] /\ loadedAt' = now
        /\ Conclude(c, fetched[c])
  /\ UNCHANGED <<now, workosVars, token, fetched, started, alone>>

\* refresh_jwks stores what was fetched, whatever others stored meanwhile.
\* Called by get_jwks it hands the fetched keys on; called by validate_jwt
\* it does not, and the retry looks into the cache again.
Store(c) ==
  /\ pc[c] = "store"
  /\ loaded' = TRUE
  /\ keys' = fetched[c]
  /\ loadedAt' = now
  /\ \/ /\ stage[c] = "refresh"
        /\ stage' = [stage EXCEPT ![c] = "retry"]
        /\ Goto(c, "lookup")
        /\ UNCHANGED concluded
     \/ stage[c] # "refresh" /\ Conclude(c, fetched[c])
  /\ UNCHANGED <<now, workosVars, token, fetched, started, alone>>

\* The fetch fails, or the request timeout drops the handler.
Fail(c) ==
  /\ Running(c)
  /\ Goto(c, "error")
  /\ UNCHANGED <<now, workosVars, token, cacheVars, stage, fetched, history>>

\* Time passes; no handler runs beyond its timeout.
Tick ==
  /\ now < Horizon
  /\ \A c \in Call : Running(c) => now < started[c] + Timeout
  /\ now' = now + 1
  /\ UNCHANGED <<workosVars, token, cacheVars, callVars, history>>

\* WorkOS rotates its keys; a retired key does not come back.
Publish(k) ==
  /\ k \notin published
  /\ retired[k] = -1
  /\ published' = published \union {k}
  /\ UNCHANGED <<now, retired, token, cacheVars, callVars, history>>

Retire(k) ==
  /\ k \in published
  /\ published' = published \ {k}
  /\ retired' = [retired EXCEPT ![k] = now]
  /\ UNCHANGED <<now, token, cacheVars, callVars, history>>

Serve(c) == Lookup(c) \/ Load(c) \/ Store(c)

Next ==
  \/ \E c \in Call : Start(c) \/ Serve(c) \/ Fail(c)
  \/ \E k \in Key : Publish(k) \/ Retire(k)
  \/ Tick

Spec == Init /\ [][Next]_vars

-----------------------------------------------------------------------------
(***************************************************************************)
(* Properties.                                                             *)
(***************************************************************************)

\* Every variable has the type of the field or local it stands for.
TypeOK ==
  /\ now \in Nat
  /\ published \subseteq Key
  /\ retired \in [Key -> Nat \union {-1}]
  /\ token \in [Call -> Key]
  /\ loaded \in BOOLEAN
  /\ keys \subseteq Key
  /\ loadedAt \in Nat
  /\ pc \in [Call -> {"idle", "lookup", "load", "store"} \union Outcome]
  /\ stage \in [Call -> {"first", "refresh", "retry"}]
  /\ fetched \in [Call -> SUBSET Key]
  /\ started \in [Call -> Nat]
  /\ alone \in [Call -> BOOLEAN]
  /\ concluded \in [Call -> Nat]

\* Key k was at jwks_url at time t or later.
PublishedSince(k, t) ==
  k \in published \/ (retired[k] # -1 /\ retired[k] >= t)

\* How long a retired key keeps being accepted: a slow request may store an
\* old key set over a newer one and restart its TTL, but no token is
\* accepted on a key that left jwks_url more than a TTL and a request
\* timeout ago.
RetiredKeysExpire ==
  Ttl > 0 => \A c \in Call : pc[c] = "ok" =>
    PublishedSince(token[c], concluded[c] - Ttl - Timeout)

\* auth.rs:136 says of a miss "refresh JWKS and retry".  The retry is on the
\* keys just fetched, and a token is refused as unknown only if they lack its
\* key, when no other request ran meanwhile, as on Lambda; else another may
\* store an older key set between the two.
RetrySeesRefreshedKeys ==
  \A c \in Call :
    pc[c] = "unknown" /\ alone[c] => token[c] \notin fetched[c]

\* The steps validate_jwt has before it at most: lookup, load and store of
\* the first try, load and store of the refresh, and again all three of the
\* retry, if the cache expires meanwhile.
StepsLeft(c) ==
  IF Running(c)
  THEN [first |-> 5, refresh |-> 3, retry |-> 0][stage[c]]
         + [lookup |-> 3, load |-> 2, store |-> 1][pc[c]]
  ELSE 0

\* No rotation, expiry or concurrent store makes validate_jwt refresh for
\* ever: each of its steps leaves it with fewer to go.
ValidationEnds ==
  [][\A c \in Call : Running(c) =>
       \/ UNCHANGED <<pc[c], stage[c]>>
       \/ StepsLeft(c)' < StepsLeft(c)]_vars
=============================================================================
