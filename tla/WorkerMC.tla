------------------------------ MODULE WorkerMC ------------------------------
(***************************************************************************)
(* Small instances of three parts of the trading worker that share no      *)
(* state: the router of the intents, the cache of access tokens, the       *)
(* circuit breaker.  A behaviour is of one of them: interleaving two would *)
(* multiply the states and add nothing.                                    *)
(***************************************************************************)
EXTENDS IntentRouter, TokenCache, CircuitBreaker

VARIABLES
  part              \* the component the behaviour is of

\* The processes by their weight for an intent's account.
Ranked == [i \in Intents |-> <<"p1", "p2">>]

ASSUME PartsAssumption == CacheAssumption

-----------------------------------------------------------------------------
Parts == {"router", "cache", "breaker"}

PartsInit ==
  /\ part \in Parts
  /\ Init /\ CacheInit /\ BreakerInit

\* One component moves and the others stay in their initial states.
PartsNext ==
  /\ UNCHANGED part
  /\ \/ part = "router" /\ Next /\ UNCHANGED <<cacheVars, breakerVars>>
     \/ part = "cache" /\ CacheNext /\ UNCHANGED <<vars, breakerVars>>
     \/ part = "breaker" /\ BreakerNext /\ UNCHANGED <<vars, cacheVars>>

PartsSpec == PartsInit /\ [][PartsNext]_<<part, vars, cacheVars, breakerVars>>

=============================================================================
