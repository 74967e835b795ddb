----------------------------- MODULE TokenCache -----------------------------
(***************************************************************************)
(* The worker's cache of one account's access token, in front of the        *)
(* backend's route.  A request is sent, handled and answered in three steps, *)
(* so an answer may be older than a report of a refused token that started   *)
(* after it.  Access tokens are numbered as the backend exchanges them.      *)
(***************************************************************************)
EXTENDS Naturals

CONSTANTS
  Requests,        \* calls of the worker, each once
  TokenTtl,        \* ACCESS_TOKEN_CACHE_TTL_MS
  Skew,            \* ACCESS_SKEW_MS: left of a token the backend hands out, at least
  Budget,          \* ACCESS_TOKEN_ROUTE_BUDGET_MS: the longest a request is out
  MaxTokens,       \* bound: tokens the backend holds in turn
  MaxNow,          \* bound: the clock
  MaxEvictions     \* bound: the entry dropped for other accounts'

NoToken == 0

CacheAssumption ==
  /\ {TokenTtl, Skew, Budget, MaxTokens, MaxNow, MaxEvictions} \subseteq Nat
  /\ TokenTtl + Budget < Skew

VARIABLES
  now,
  current,      \* the token the backend stores
  left,         \* by token: when it expires
  entry,        \* the cache entry: token, until when, the fingerprint last reported
  generation,   \* of the account's requests at the backend
  req,          \* what each call is doing
  reported,     \* tokens the broker refused and this worker reported
  evictions

cacheVars == <<now, current, left, entry, generation, req, reported, evictions>>

Tokens == 1..MaxTokens
NoEntry == [token |-> NoToken, until |-> 0, refused |-> NoToken]
NoReq == [pc |-> "idle", refused |-> NoToken, generation |-> 0, sent |-> 0, answer |-> NoToken,
          got |-> NoToken, hit |-> FALSE]

CacheInit ==
  /\ now = 0
  /\ current = 1
  /\ left = [n \in Tokens |-> IF n = 1 THEN Skew + 1 ELSE 0]
  /\ entry = NoEntry
  /\ generation = 0
  /\ req = [r \in Requests |-> NoReq]
  /\ reported = {}
  /\ evictions = 0

Out == {r \in Requests : req[r].pc \in {"sent", "handled"}}

-----------------------------------------------------------------------------
Cached == entry.token # NoToken /\ entry.until > now

\* A cached token that is not past its time: answered without a request.
Hit(r) ==
  /\ req[r].pc = "idle"
  /\ Cached
  /\ req' = [req EXCEPT ![r] = [NoReq EXCEPT !.pc = "done", !.got = entry.token, !.hit = TRUE]]
  /\ UNCHANGED <<now, current, left, entry, generation, reported, evictions>>

\* A miss: a plain request, under the generation it finds.
Ask(r) ==
  /\ req[r].pc = "idle"
  /\ ~Cached
  /\ req' = [req EXCEPT ![r] = [NoReq EXCEPT !.pc = "sent", !.generation = generation,
                                             !.sent = now]]
  /\ UNCHANGED <<now, current, left, entry, generation, reported, evictions>>

\* Somebody was handed token n and the broker refused it: the entry becomes its fingerprint
\* and the generation moves on, before the request is sent.
Report(r) ==
  /\ req[r].pc = "idle"
  /\ \E n \in {req[q].got : q \in Requests} \ {NoToken} :
       /\ entry' = [NoEntry EXCEPT !.refused = n]
       /\ reported' = reported \cup {n}
       /\ generation' = generation + 1
       /\ req' = [req EXCEPT ![r] = [NoReq EXCEPT !.pc = "sent", !.refused = n,
                                       !.generation = generation + 1, !.sent = now]]
  /\ UNCHANGED <<now, current, left, evictions>>

Usable(n) == left[n] > now + Skew

\* The backend's route: the stored token, or the next one after an exchange.
Handle(r) ==
  /\ req[r].pc = "sent"
  /\ \/ /\ Usable(current) /\ req[r].refused # current
        /\ req' = [req EXCEPT ![r].pc = "handled", ![r].answer = current]
        /\ UNCHANGED <<current, left>>
     \/ /\ ~Usable(current) \/ req[r].refused = current
        /\ current < MaxTokens
        /\ current' = current + 1
        /\ left' = [left EXCEPT ![current + 1] = now + Skew + 1]
        /\ req' = [req EXCEPT ![r].pc = "handled", ![r].answer = current + 1]
     \/ /\ req' = [req EXCEPT ![r].pc = "handled", ![r].answer = NoToken]
        /\ UNCHANGED <<current, left>>
  /\ UNCHANGED <<now, entry, generation, reported, evictions>>

Stores(n) == n # NoToken /\ n # entry.refused

\* Mutant: an answer of a request that started before the drop is stored.
FreshFlight_Always(r) == TRUE

\* flight.generation === generation
FreshFlight(r) == req[r].generation = generation

\* The answer is back; the last request out takes the generation with it.
Answer(r) ==
  /\ req[r].pc = "handled"
  /\ entry' = IF FreshFlight(r) /\ Stores(req[r].answer)
              THEN [entry EXCEPT !.token = req[r].answer, !.until = now + TokenTtl]
              ELSE entry
  /\ req' = [req EXCEPT ![r].pc = "done", ![r].got = req[r].answer]
  /\ generation' = IF Out = {r} THEN 0 ELSE generation
  /\ UNCHANGED <<now, current, left, reported, evictions>>

\* The route's budget is over: backend_unreachable, whatever the backend does.
GiveUp(r) ==
  /\ r \in Out
  /\ req' = [req EXCEPT ![r].pc = "done"]
  /\ generation' = IF Out = {r} THEN 0 ELSE generation
  /\ UNCHANGED <<now, current, left, entry, reported, evictions>>

\* maxEntries: the oldest entry makes room for another account's.
Evict ==
  /\ entry # NoEntry
  /\ evictions < MaxEvictions
  /\ evictions' = evictions + 1
  /\ entry' = NoEntry
  /\ UNCHANGED <<now, current, left, generation, req, reported>>

\* A request is out for the route's budget at most.
Tick ==
  /\ now < MaxNow
  /\ \A r \in Out : now < req[r].sent + Budget
  /\ now' = now + 1
  /\ UNCHANGED <<current, left, entry, generation, req, reported, evictions>>

CacheNext ==
  \/ \E r \in Requests : Hit(r) \/ Ask(r) \/ Report(r) \/ Handle(r) \/ Answer(r) \/ GiveUp(r)
  \/ Evict \/ Tick

CacheSpec == CacheInit /\ [][CacheNext]_cacheVars

-----------------------------------------------------------------------------
\* While the entry keeps the newest refused token's fingerprint, no token this worker reported
\* is in the cache: neither a late answer nor one of another backend process brings it back
\* (access-token.ts:225, C5, C8, C9).  The fingerprint is lost with an evicted entry, and to a
\* late report of an older token.
CacheForgets ==
  entry.refused \in reported /\ (\A n \in reported : n <= entry.refused)
    => entry.token \notin reported

=============================================================================
