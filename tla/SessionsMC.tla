----------------------------- MODULE SessionsMC -----------------------------
(***************************************************************************)
(* Small instances of four parts of a trading session, each with its own   *)
(* state: the sizer of its stakes, the orchestrator that wakes and stops   *)
(* the sessions, the driver of the hourly strategy, the bot's message of   *)
(* the session.  A behaviour is of one of them.                            *)
(***************************************************************************)
EXTENDS StakeSizer, SessionOrchestrator

VARIABLES
  part,             \* the component the behaviour is of
  status, history, quiet, waitRow, notices, handover, driverLate, tracked, gone, state, run,
  scan, driverFaults, decided, heard,
  stage, recorded, summary, sent, screen, trackerGone, bot, slots, cur, drawn, expired, press, pass,
  trackerLate, faults, restarts, turns, saved, under

Driver == INSTANCE H1Driver WITH
  Directions <- {"up", "down"}, Cycles <- 2, MaxTrades <- 2, Cadence <- 0, Limit <- 1,
  MaxFaults <- 1, late <- driverLate, faults <- driverFaults

Tracker == INSTANCE SessionTracker WITH
  Slots <- {1, 2}, MaxMessages <- 2, MaxTurns <- 0, MaxFaults <- 1, MaxRestarts <- 0,
  late <- trackerLate, gone <- trackerGone

ASSUME PartsAssumption == Driver!DriverAssumption /\ Tracker!TrackerAssumption

-----------------------------------------------------------------------------
Parts == {"sizer", "orchestrator", "driver", "tracker"}

driverVars ==
  <<status, history, quiet, waitRow, notices, handover, driverLate, tracked, gone, state,
  run, scan, driverFaults, decided, heard>>

trackerVars ==
  <<stage, recorded, summary, sent, screen, trackerGone, bot, slots, cur, drawn, expired, press, pass,
  trackerLate, faults, restarts, turns, saved, under>>

PartsInit ==
  /\ part \in Parts
  /\ Init /\ OrchestratorInit /\ Driver!Init /\ Tracker!Init
  /\ part # "sizer" => base = 4 /\ plain = 17
  /\ part # "orchestrator" => asked = CHOOSE o \in Orders : TRUE

\* One component moves and the others stay in their initial states.
PartsNext ==
  /\ UNCHANGED part
  /\ \/ part = "sizer" /\ Next /\ UNCHANGED <<orchestratorVars, driverVars, trackerVars>>
     \/ part = "orchestrator" /\ OrchestratorNext /\ UNCHANGED <<vars, driverVars, trackerVars>>
     \/ part = "driver" /\ Driver!Next /\ UNCHANGED <<vars, orchestratorVars, trackerVars>>
     \/ part = "tracker" /\ Tracker!Next /\ UNCHANGED <<vars, orchestratorVars, driverVars>>

PartsSpec == PartsInit /\ [][PartsNext]_<<part, vars, orchestratorVars, driverVars, trackerVars>>

-----------------------------------------------------------------------------
\* A lost first step is repeated once, in its direction, and the driver does not lose sight of an
\* active session.
DriverRepeats == 
  /\ [](Driver!H1DriverTypeOK /\ Driver!RepeatsTheLostStep /\ Driver!NoSignalStopIsEarned
        /\ Driver!NoticeIsServed)
  /\ Driver!ActiveStaysTracked

\* The row keeps the newest message, the summary stands under the end, and only the entry the map
\* holds edits.
TrackerSafe ==
  /\ [](Tracker!TrackerTypeOK /\ Tracker!NewestKept /\ Tracker!SummaryUnderEnd)
  /\ Tracker!EditsOfCurrent

=============================================================================
