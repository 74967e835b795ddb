------------------------- MODULE SessionOrchestrator -------------------------
(***************************************************************************)
(* The worker's session orchestrator: ticks of the interval and ticks woken   *)
(* by a write that ended an intent, merged so that one tick runs at a time.   *)
(* A full tick stops what the switch, the deadline and a halt end, then every *)
(* tick scans the sessions without a live intent, reads them, decides them    *)
(* and writes its endings; a batch past its deadline is given up, though the  *)
(* statement it was in may still land.                                        *)
(* A session stands for its account.                                          *)
(***************************************************************************)
EXTENDS Naturals, FiniteSets

CONSTANTS
  Sessions,
  BatchSize,
  Tick, Deadline, Retry, Check,     \* tickMs, attemptTimeoutMs, retryMs, h1CheckMs
  MaxEnds,                          \* bound: trades
  MaxFailures                         \* bound: failed ticks, given-up batches and restarts

sessionOrchestratorConfigHolds == Tick <= Check /\ Tick < Retry /\ Check < Retry

ASSUME OrchestratorAssumption ==
  /\ IsFiniteSet(Sessions)
  /\ {BatchSize, Tick, Deadline, Check, Retry} \subseteq Nat \ {0} /\ {MaxEnds, MaxFailures} \subseteq Nat
  /\ sessionOrchestratorConfigHolds

VARIABLES
  active,         \* the sessions whose row is active
  live,           \* the accounts with a live intent
  due,            \* the sessions a decision would stop
  swept,          \* the sessions only a sweep stops: a halt, the closed switch
  asked,          \* the sessions' places by last_decision_at, the least recent first
  traded,         \* trades so far
  unwoken,        \* writers between the commit that ended an intent and its wake()
  held,           \* heldUntil, as the time left
  pending, pendingAccounts, pendingFull,
  tick,           \* the running tick
  late,           \* stops of a batch that was given up, still to land
  timer,          \* time to the interval's next firing
  sinceFull,      \* time since lastFullAt
  failures,
  owed,           \* (ghost) accounts woken and not scanned since
  missed          \* (ghost) sweeps that failed since the last ones

orchestrator == <<held, pending, pendingAccounts, pendingFull, tick, late, timer, sinceFull>>
world == <<active, live, due, swept, asked, traded, unwoken>>
orchestratorVars == <<world, orchestrator, failures, owed, missed>>

NoTick == [at |-> "none", full |-> FALSE, accounts |-> {}, batch |-> {}, stops |-> {},
           waiting |-> {}, holds |-> [s \in Sessions |-> 0], failed |-> {}, age |-> 0]

\* The first tick of a worker, with lastFullAt at minus infinity.
FirstTick == [NoTick EXCEPT !.at = "sweep", !.full = TRUE]

\* Who was decided before whom; created_at orders the undecided.
Orders ==
  {o \in [Sessions -> 1..Cardinality(Sessions)] : \A s, u \in Sessions : o[s] = o[u] => s = u}

OrchestratorInit ==
  /\ active = Sessions /\ live = {} /\ due = {} /\ swept = {} /\ unwoken = {}
  /\ asked \in Orders /\ traded = 0
  /\ held = [s \in Sessions |-> 0] /\ pending = FALSE /\ pendingAccounts = {} /\ pendingFull = FALSE
  /\ tick = FirstTick /\ late = {} /\ timer = Tick /\ sinceFull = Tick
  /\ failures = 0 /\ owed = {} /\ missed = 0

-----------------------------------------------------------------------------
(* The other writers                                                       *)

\* The H1 driver opens a trade: it skips what sessionIntentBlock stops.
StartTrade(s) ==
  /\ s \in active \ (live \cup due \cup swept) /\ traded < MaxEnds
  /\ live' = live \cup {s} /\ traded' = traded + 1
  /\ UNCHANGED <<active, due, swept, asked, unwoken, orchestrator, failures, owed, missed>>

\* A settlement, a rejection or a halt commits; the last trade leaves nothing to do but the stop.
EndTrade(s) ==
  /\ s \in live /\ live' = live \ {s} /\ unwoken' = unwoken \cup {s}
  /\ \/ traded < MaxEnds /\ UNCHANGED <<due, swept>>
     \/ (due' = due \cup {s} /\ UNCHANGED swept)
     \/ (swept' = swept \cup {s} /\ UNCHANGED due)
  /\ UNCHANGED <<active, asked, traded, orchestrator, failures, owed, missed>>

\* Another writer stops the session: the user, the mode's switch.
StopByUser(s) ==
  /\ s \in active /\ active' = active \ {s}
  /\ UNCHANGED <<live, due, swept, asked, traded, unwoken, orchestrator, failures, owed, missed>>

-----------------------------------------------------------------------------
(* The start of a tick                                                     *)

\* pendingFull, no account named, or a tick since the last full one.
IsFull(f, accounts) == f \/ accounts = {} \/ sinceFull >= Tick

\* runTick to its first await, with what was pending.
Begun(accounts, f) ==
  [NoTick EXCEPT !.at = IF IsFull(f, accounts) THEN "sweep" ELSE "scan",
                 !.full = IsFull(f, accounts), !.accounts = accounts]

StartTick(accounts, f) ==
  /\ tick' = Begun(accounts, f)
  /\ pending' = FALSE /\ pendingAccounts' = {} /\ pendingFull' = FALSE

\* Mutant: a wake during a tick is left to it.
Keep_Dropped(accounts, f) == UNCHANGED <<pending, pendingAccounts, pendingFull>>

Keep(accounts, f) == pending' = TRUE /\ pendingAccounts' = accounts /\ pendingFull' = f

\* wake(): kept while a tick runs, a tick now otherwise.  A refusal of an intent names no account.
Wake(s) ==
  /\ s \in unwoken /\ unwoken' = unwoken \ {s} /\ owed' = owed \cup {s}
  /\ \E named \in BOOLEAN :
       LET accounts == IF named THEN pendingAccounts \cup {s} ELSE pendingAccounts
           f == pendingFull \/ ~named
       IN IF tick.at = "none" THEN StartTick(accounts, f)
          ELSE Keep(accounts, f) /\ UNCHANGED tick
  /\ UNCHANGED <<active, live, due, swept, asked, traded, held, late, timer, sinceFull, failures, missed>>

\* The interval fires: during a woken tick a full one follows it, during a full tick that one serves.
Interval ==
  /\ timer = 0 /\ timer' = Tick
  /\ IF tick.at = "none" THEN StartTick(pendingAccounts, pendingFull)
     ELSE /\ pendingFull' = (pendingFull \/ ~tick.full)
          /\ UNCHANGED <<tick, pending, pendingAccounts>>
  /\ UNCHANGED <<world, held, late, sinceFull, failures, owed, missed>>

\* The finally of tick(): what came meanwhile runs at once.
Ended ==
  IF pending \/ pendingFull THEN StartTick(pendingAccounts, pendingFull)
  ELSE tick' = NoTick /\ UNCHANGED <<pending, pendingAccounts, pendingFull>>

-----------------------------------------------------------------------------
(* A tick                                                                  *)

Least(a, b) == IF a < b THEN a ELSE b

\* stopPausedSessions, stopExpiredSessions, stopHaltedSessions, up to a batch each; then lastFullAt
\* is the tick's clock.
Sweep ==
  /\ tick.at = "sweep"
  /\ \E ended \in SUBSET (active \cap swept) :
       /\ Cardinality(ended) >= Least(BatchSize, Cardinality(active \cap swept))
       /\ active' = active \ ended
  /\ sinceFull' = 0 /\ missed' = 0 /\ tick' = [tick EXCEPT !.at = "scan"]
  /\ UNCHANGED <<live, due, swept, asked, traded, unwoken, held, pending, pendingAccounts, pendingFull,
                 late, timer, failures, owed>>

\* listRunnableSessions.
Runnable ==
  {s \in active \ live : held[s] = 0 /\ (tick.full \/ s \in tick.accounts)}

\* The first BatchSize of them, the least recently decided first.
Batch == {s \in Runnable : Cardinality({u \in Runnable : asked[u] < asked[s]}) < BatchSize}

Scan ==
  /\ tick.at = "scan"
  /\ owed' = IF tick.full THEN {} ELSE owed \ tick.accounts
  /\ IF Batch = {} THEN Ended
     ELSE /\ tick' = [tick EXCEPT !.at = "read", !.batch = Batch]
          /\ UNCHANGED <<pending, pendingAccounts, pendingFull>>
  /\ UNCHANGED <<world, held, late, timer, sinceFull, failures, missed>>

\* readSessionBatch and beforePair: a live intent since the scan is only marked, some are stopped
\* for what was read, the others go to the pairs.
Read ==
  /\ tick.at = "read"
  /\ \E stops \in SUBSET ((tick.batch \cap due) \ live) :
       tick' = [tick EXCEPT !.at = "pairs", !.stops = stops, !.waiting = tick.batch \ (stops \cup live)]
  /\ UNCHANGED <<world, held, pending, pendingAccounts, pendingFull, late, timer, sinceFull, failures,
                 owed, missed>>

\* The pairs GET and atPair: without a fresh catalog every session of it is held for Retry; with
\* it the due ones are stopped, the others held for the pair, the balance or the driver.  A decision
\* that throws holds its session for Retry, unmarked.
Pairs ==
  /\ tick.at = "pairs"
  /\ \E fresh \in BOOLEAN, failed \in SUBSET tick.waiting :
       LET stops == IF fresh THEN (tick.waiting \cap due) \ failed ELSE {}
       IN \E hold \in [tick.waiting \ stops -> IF fresh THEN Tick..Retry ELSE {Retry}] :
            /\ \A s \in failed : hold[s] = Retry
            /\ tick' = [tick EXCEPT !.at = "stop", !.stops = @ \cup stops, !.failed = failed,
                          !.holds = [s \in Sessions |-> IF s \in DOMAIN hold THEN hold[s] ELSE 0]]
  /\ UNCHANGED <<world, held, pending, pendingAccounts, pendingFull, late, timer, sinceFull, failures,
                 owed, missed>>

\* stopTradingSessions: the CAS leaves a session another writer stopped.
WriteStops ==
  /\ tick.at = "stop"
  /\ active' = active \ tick.stops
  /\ tick' = [tick EXCEPT !.at = "mark"]
  /\ UNCHANGED <<live, due, swept, asked, traded, unwoken, held, pending, pendingAccounts, pendingFull,
                 late, timer, sinceFull, failures, owed, missed>>

Marked == tick.batch \ (tick.stops \cup tick.failed)

\* The marked ones come after the others, which keep their order; created_at orders the marked.
Redecided ==
  {o \in Orders : \A s \in Sessions \ Marked, u \in Sessions :
     o[s] < o[u] <=> u \in Marked \/ asked[s] < asked[u]}

\* markSessionDecisions.
Mark ==
  /\ tick.at = "mark"
  /\ asked' \in Redecided
  /\ tick' = [tick EXCEPT !.at = "hold"]
  /\ UNCHANGED <<active, live, due, swept, traded, unwoken, held, pending, pendingAccounts, pendingFull,
                 late, timer, sinceFull, failures, owed, missed>>

\* The hold-backs, at least a tick, counted from the tick's clock.
Hold ==
  /\ tick.at = "hold"
  /\ held' = [s \in Sessions |->
       IF tick.holds[s] = 0 THEN held[s]
       ELSE IF tick.holds[s] > tick.age THEN tick.holds[s] - tick.age ELSE 0]
  /\ Ended
  /\ UNCHANGED <<world, late, timer, sinceFull, failures, owed, missed>>

\* The statement a batch was in when it was cut off may still land, a stop later.
InFlight ==
  /\ \E sent \in SUBSET tick.stops : late' = IF tick.at = "stop" THEN late \cup sent ELSE late
  /\ asked' \in {asked} \cup (IF tick.at = "mark" THEN Redecided ELSE {})

\* The batch's deadline, or a statement that throws: nothing more is written or held.
GiveUp ==
  /\ tick.at \in {"read", "pairs", "stop", "mark", "hold"} /\ failures < MaxFailures
  /\ failures' = failures + 1
  /\ InFlight /\ Ended
  /\ UNCHANGED <<active, live, due, swept, traded, unwoken, held, timer, sinceFull, owed, missed>>

StopLands(s) ==
  /\ s \in late /\ late' = late \ {s} /\ active' = active \ {s}
  /\ UNCHANGED <<live, due, swept, asked, traded, unwoken, held, pending, pendingAccounts, pendingFull,
                 tick, timer, sinceFull, failures, owed, missed>>

\* A statement of the tick throws, after some of the sweeps: what woke it is lost, and left to the
\* interval.
TickFails ==
  /\ tick.at \in {"sweep", "scan"} /\ failures < MaxFailures
  /\ failures' = failures + 1
  /\ owed' = IF tick.full THEN {} ELSE owed \ tick.accounts
  /\ \E ended \in SUBSET (IF tick.at = "sweep" THEN active \cap swept ELSE {}) : active' = active \ ended
  /\ missed' = IF tick.at = "sweep" THEN missed + 1 ELSE missed
  /\ Ended
  /\ UNCHANGED <<live, due, swept, asked, traded, unwoken, held, late, timer, sinceFull>>

\* The worker starts again: what woke it before is left to its first tick.
Restart ==
  /\ failures < MaxFailures /\ failures' = failures + 1
  /\ held' = [s \in Sessions |-> 0] /\ owed' = owed \cup unwoken /\ unwoken' = {}
  /\ sinceFull' = IF sinceFull < Tick THEN Tick ELSE sinceFull
  /\ tick' = FirstTick /\ timer' = Tick
  /\ pending' = FALSE /\ pendingAccounts' = {} /\ pendingFull' = FALSE
  /\ InFlight
  /\ UNCHANGED <<active, live, due, swept, traded, missed>>

-----------------------------------------------------------------------------
Dec(n) == IF n = 0 THEN 0 ELSE n - 1

\* Time passes between ticks and inside a batch, up to its deadline; the sweeps and the scan are
\* taken to be quick.
TimePasses ==
  /\ timer > 0
  /\ tick.at \in {"none", "read", "pairs", "stop", "mark", "hold"} /\ tick.age < Deadline
  /\ timer' = timer - 1
  /\ sinceFull' = sinceFull + 1
  /\ held' = [s \in Sessions |-> Dec(held[s])]
  /\ tick' = IF tick.at = "none" THEN tick ELSE [tick EXCEPT !.age = @ + 1]
  /\ UNCHANGED <<world, pending, pendingAccounts, pendingFull, late, failures, owed, missed>>

TickSteps == Sweep \/ Scan \/ Read \/ Pairs \/ WriteStops \/ Mark \/ Hold

OrchestratorNext ==
  \/ \E s \in Sessions :
       StartTrade(s) \/ EndTrade(s) \/ StopByUser(s) \/ Wake(s) \/ StopLands(s)
  \/ Interval \/ TickSteps \/ GiveUp \/ TickFails \/ Restart \/ TimePasses

OrchestratorSpec == OrchestratorInit /\ [][OrchestratorNext]_orchestratorVars

-----------------------------------------------------------------------------
TickType ==
  [at : {"none", "sweep", "scan", "read", "pairs", "stop", "mark", "hold"}, full : BOOLEAN,
   accounts : SUBSET Sessions, batch : SUBSET Sessions, stops : SUBSET Sessions,
   waiting : SUBSET Sessions, holds : [Sessions -> 0..Retry], failed : SUBSET Sessions,
   age : 0..Deadline]

\* A tick runs while anything is pending; a hold is never longer than Retry.
OrchestratorTypeOK ==
  /\ tick \in TickType /\ pending \in BOOLEAN /\ pendingFull \in BOOLEAN
  /\ pendingAccounts \subseteq Sessions /\ sinceFull \in Nat /\ missed \in Nat
  /\ tick.at = "none" => ~pending /\ pendingAccounts = {} /\ ~pendingFull
  /\ pendingAccounts # {} => pending
  /\ held \in [Sessions -> 0..Retry]
  /\ timer \in 0..Tick
  /\ asked \in Orders

\* A wake whose write the running tick's scan may not have seen is still to be served: by that
\* scan, or by a tick right after it (orchestrator.ts:65, orchestrator.ts:549).
WakeIsKept ==
  \A s \in owed :
    \/ (tick.at \in {"sweep", "scan"} /\ (tick.full \/ s \in tick.accounts))
    \/ (tick.at # "none" /\ (pendingFull \/ s \in pendingAccounts))

\* However often it is woken, the sweeps run within a tick and a batch of the last ones, and within
\* a tick more for each time they failed (orchestrator.ts:482, orchestrator.ts:538).
SweepsNotStarved == sinceFull <= (1 + missed) * Tick + Deadline

\* A wake is served, however the ticks before it ended, and waking does not starve the sweeps.
WakesAreServed == OrchestratorTypeOK /\ WakeIsKept /\ SweepsNotStarved

=============================================================================
