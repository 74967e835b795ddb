------------------------------- MODULE H1Driver -------------------------------
(***************************************************************************)
(* The H1 driver of one session under martingale: the seconds of its pair,    *)
(* the notices of its trades, the start's hand-over and the scan start runs   *)
(* that read the session's history, create its next trade or stop it.         *)
(* Sessions are independent: the one modelled stands for each of them.        *)
(***************************************************************************)
EXTENDS Naturals, Sequences, FiniteSets

CONSTANTS
  Directions,       \* the actions a signal may have; {} when the market gives none
  Cycles,           \* the session's plan
  MaxTrades,        \* the sizer's stop: maxSteps; a bound on the history
  Cadence,          \* seconds to the session's next decision after a trade
  Limit,            \* noSignalLimitSec
  MaxFaults         \* bound: failed statements, refusals, waits for the balance, lost notices, restarts

DriverAssumption == {Cycles, MaxTrades, Cadence, Limit, MaxFaults} \subseteq Nat

None == "none"

VARIABLES
  (* the database *)
  status,           \* of the session; "stopped": by the user or a limit, "no_signal": by the driver
  history,          \* its intents
  quiet,            \* seconds since its last change, up to Limit
  waitRow,          \* a no_signal row of the current step
  (* between the processes *)
  notices,          \* notifications on the listener's connection
  handover,         \* what the start route is about to adopt
  late,             \* a creation a dead process sent
  (* the driver *)
  tracked, gone,
  state,            \* the session's Tracked record
  run,              \* its run in flight
  scan,             \* the scan in flight: what it listed, and whether the session was adopted since
  faults,
  decided,          \* (ghost) no-signal seconds since the last intent, up to Limit
  heard             \* (ghost) a notice came and no run has read the history since

database == <<status, history, quiet, waitRow>>
driver == <<tracked, gone, state, run, scan>>
vars == <<database, notices, handover, late, driver, faults, decided, heard>>

Fresh == [nextIn |-> 0, waiting |-> FALSE, retryIn |-> 0, renotice |-> FALSE, pending |-> FALSE,
          seconds |-> 0]
Idle == [at |-> "idle", plan |-> None, step |-> 0, repeat |-> FALSE, action |-> None,
         outcome |-> None]
NoScan == [at |-> "none", listed |-> FALSE, adopted |-> FALSE]

Init ==
  /\ status = "new" /\ history = <<>> /\ quiet = 0 /\ waitRow = FALSE
  /\ notices = 0 /\ handover = None /\ late = Idle
  /\ tracked = FALSE /\ gone = FALSE /\ state = Fresh /\ run = Idle /\ scan = NoScan
  /\ faults = 0 /\ decided = 0 /\ heard = FALSE

-----------------------------------------------------------------------------
(* The history                                                             *)

Live(intents) == \E i \in DOMAIN intents : intents[i].status \in {"queued", "accepted"}
Last(intents) == intents[Len(intents)]

Settled(intents) == SelectSeq(intents, LAMBDA i : i.status \in {"won", "lost"})
Wins(intents) == Len(SelectSeq(intents, LAMBDA i : i.status = "won"))

\* The session's plan is reached, its last two intents are rejected, or the sizer stops.
Over(intents) ==
  \/ Wins(intents) >= Cycles
  \/ Len(intents) >= 2 /\ \A i \in {Len(intents) - 1, Len(intents)} : intents[i].status = "rejected"
  \/ Len(intents) >= MaxTrades

\* The last intent is a settled first step that did not win (a tie counts as a loss here).
RepeatDue(intents) ==
  /\ intents # <<>> /\ Last(intents).status = "lost"
  /\ LET settled == Settled(intents)
     IN \A i \in 1..(Len(settled) - 1) : i = Len(settled) - 1 => settled[i].status = "won"

-----------------------------------------------------------------------------
(* Outside the driver                                                      *)

\* Mutant: a repeat of the step makes a second intent.
Known_Never(step) == FALSE

\* The key session:id:step has an intent.
Known(step) == step <= Len(history)

\* createSessionIntent: the key first, then the session's row, then the account's live intent.
Answer(step, action) ==
  IF Known(step) THEN (IF history[step].action = action THEN "replayed" ELSE "refused")
  ELSE IF status # "active" THEN "not active"
  ELSE IF Live(history) THEN "refused"
  ELSE "created"

Insert(creation) ==
  /\ history' = Append(history, [status |-> "queued", action |-> creation.action,
                                 repeat |-> creation.repeat])
  /\ quiet' = 0 /\ waitRow' = FALSE /\ decided' = 0
  /\ UNCHANGED status

\* The start route's insert; what it read goes to adopt().
StartSession ==
  /\ status = "new" /\ status' = "active"
  /\ handover' \in {"nothing", "no signal"} \cup Directions
  /\ UNCHANGED <<history, quiet, waitRow, notices, late, driver, faults, decided, heard>>

\* The user or the orchestrator stops it; the route has adopted it by then.
StopSession ==
  /\ status = "active" /\ handover = None /\ status' = "stopped"
  /\ UNCHANGED <<history, quiet, waitRow, notices, handover, late, driver, faults, decided, heard>>

\* The worker moves the live intent, seconds after the start; acceptance and settlement notify.
Transition(from, to) ==
  /\ history # <<>> /\ Last(history).status = from /\ handover = None
  /\ history' = [history EXCEPT ![Len(history)].status = to]
  /\ quiet' = 0
  /\ notices' = (IF to = "rejected" THEN notices ELSE notices + 1)
  /\ UNCHANGED <<status, waitRow, handover, late, driver, faults, decided, heard>>

Trade ==
  \/ \E to \in {"accepted", "rejected"} : Transition("queued", to)
  \/ \E to \in {"won", "lost"} : Transition("accepted", to)

\* The listener reconnects.
LoseNotices ==
  /\ notices > 0 /\ faults < MaxFaults
  /\ notices' = 0 /\ faults' = faults + 1
  /\ UNCHANGED <<database, handover, late, driver, decided, heard>>

-----------------------------------------------------------------------------
(* A run                                                                   *)

\* launch(): one run of a session at a time.
Launched(plan) == [Idle EXCEPT !.at = "read", !.plan = plan]

\* The finally of launch(): a notice that came meanwhile runs once more.
Renoticed == state.renotice /\ tracked

\* The run is over, with the session's new state.
EndWith(s) ==
  IF Renoticed THEN run' = Launched("notice") /\ state' = [s EXCEPT !.renotice = FALSE]
  ELSE run' = Idle /\ state' = s

\* After a forget no further run starts.
Forget ==
  /\ tracked' = FALSE /\ gone' = TRUE /\ run' = Idle /\ heard' = FALSE
  /\ UNCHANGED state

\* trade() from its read: what it creates, or nothing.  The sizer's and the pair's answers are read
\* in the same turn; a repeat waits for the balance or for the pair.
Decided(repeat, plan) ==
  \/ repeat /\ faults < MaxFaults /\ faults' = faults + 1 /\ EndWith([state EXCEPT !.pending = TRUE])
  \/ \E action \in IF repeat THEN {Last(history).action} ELSE {plan} :
       /\ run' = [run EXCEPT !.at = "create", !.step = Len(history) + 1, !.repeat = repeat,
                    !.action = action]
       /\ UNCHANGED <<state, faults>>

ReadTrade ==
  /\ run.at = "read" /\ run.plan # "no signal"
  /\ heard' = FALSE
  /\ LET repeat == RepeatDue(history)
     IN IF Live(history) \/ Over(history) \/ (~repeat /\ run.plan \in {"notice", "tick"})
        THEN EndWith([state EXCEPT !.pending = FALSE]) /\ UNCHANGED faults
        ELSE Decided(repeat, run.plan)
  /\ UNCHANGED <<database, notices, handover, late, tracked, gone, scan, decided>>

\* createIntent commits or refuses; the answer is on its way.  A refusal may also be the account's.
Create ==
  /\ run.at = "create"
  /\ LET answer == Answer(run.step, run.action)
     IN \/ /\ run' = [run EXCEPT !.at = "answered", !.outcome = answer]
           /\ IF answer = "created" THEN Insert(run) ELSE UNCHANGED <<database, decided>>
           /\ UNCHANGED faults
        \/ /\ answer = "created" /\ faults < MaxFaults /\ faults' = faults + 1
           /\ run' \in {[run EXCEPT !.at = "answered", !.outcome = "refused"],
                        [run EXCEPT !.at = "answered", !.outcome = "stop"]}
           /\ UNCHANGED <<database, decided>>
  /\ UNCHANGED <<notices, handover, late, tracked, gone, state, scan, heard>>

\* What trade() does with the answer.
Answered ==
  /\ run.at = "answered"
  /\ \/ /\ run.outcome \in {"created", "replayed"}
        /\ EndWith([state EXCEPT !.pending = FALSE, !.waiting = FALSE, !.seconds = 0,
                      !.nextIn = Cadence])
        /\ UNCHANGED <<tracked, gone, heard>>
     \/ run.outcome = "refused" /\ EndWith(state) /\ UNCHANGED <<tracked, gone, heard>>
     \/ /\ run.outcome = "stop" /\ run' = [run EXCEPT !.at = "stop"]
        /\ UNCHANGED <<state, tracked, gone, heard>>
     \/ run.outcome = "not active" /\ Forget
  /\ UNCHANGED <<database, notices, handover, late, scan, faults, decided>>

\* The no-signal limit: the driver's seconds of a market without a signal, and the database's wait.
Earned == state.seconds >= Limit /\ quiet >= Limit

\* onNoSignal() from its read.
ReadWait ==
  /\ run.at = "read" /\ run.plan = "no signal"
  /\ heard' = FALSE
  /\ IF Live(history) \/ Over(history) THEN EndWith(state)
     ELSE IF RepeatDue(history) THEN EndWith([state EXCEPT !.pending = TRUE])
     ELSE IF ~state.waiting THEN
            (IF state.retryIn > 0 THEN EndWith(state)
             ELSE run' = [run EXCEPT !.at = "record"] /\ UNCHANGED state)
     ELSE IF ~Earned THEN EndWith(state)
     ELSE run' = [run EXCEPT !.at = "stop"] /\ UNCHANGED state
  /\ UNCHANGED <<database, notices, handover, late, tracked, gone, scan, faults, decided>>

\* The waiting row; a refused one is tried again a scan later.
RecordWait ==
  /\ run.at = "record"
  /\ \/ waitRow' = TRUE /\ EndWith([state EXCEPT !.waiting = TRUE]) /\ UNCHANGED faults
     \/ /\ faults < MaxFaults /\ faults' = faults + 1
        /\ EndWith([state EXCEPT !.retryIn = 1]) /\ UNCHANGED waitRow
  /\ UNCHANGED <<status, history, quiet, notices, handover, late, tracked, gone, scan, decided, heard>>

\* stopSession(): the stop of no_signal, or of a refusal; after a throw the session is kept.
Stop ==
  /\ run.at = "stop"
  /\ \/ /\ Forget /\ UNCHANGED faults
        /\ status' = IF status # "active" THEN status
                     ELSE IF run.plan = "no signal" THEN "no_signal" ELSE "stopped"
     \/ /\ faults < MaxFaults /\ faults' = faults + 1 /\ EndWith(state)
        /\ UNCHANGED <<status, tracked, gone, heard>>
  /\ UNCHANGED <<history, quiet, waitRow, notices, handover, late, scan, decided>>

\* A statement of the run throws: the run is over, a notice it served is lost.
RunFails ==
  /\ run.at \in {"read", "create"} /\ faults < MaxFaults /\ faults' = faults + 1
  /\ EndWith(state) /\ heard' = FALSE
  /\ UNCHANGED <<database, notices, handover, late, tracked, gone, scan, decided>>

-----------------------------------------------------------------------------
(* What starts a run                                                       *)

Dec(n) == IF n = 0 THEN 0 ELSE n - 1
Inc(n) == IF n < Limit THEN n + 1 ELSE n

\* A pending repeat is tried on every closed second.
Retries(s) == s.pending

\* A no-signal decision starts a run for the row, and again from the limit on.
ServesWait(s) == (~s.waiting /\ s.retryIn = 0) \/ s.seconds >= Limit

\* decide(): a closed second of the pair on which the detector says reading.  "blind": the source,
\* the catalog or the pair does not let it decide; "hole": no digits, no window or no price.
Second(reading) ==
  /\ reading = "no signal" => late = Idle     \* what a dead process sent lands within the wait
  /\ quiet' = Inc(quiet)
  /\ LET s == [state EXCEPT !.nextIn = Dec(@), !.retryIn = Dec(@)]
         counted == [s EXCEPT !.seconds = Inc(@)]
         idle == tracked /\ run.at = "idle" /\ reading # "blind"
     IN CASE idle /\ Retries(s) -> run' = Launched("tick") /\ state' = s /\ UNCHANGED decided
          [] idle /\ ~Retries(s) /\ s.nextIn = 0 /\ reading = "no signal" ->
               /\ state' = counted /\ decided' = Inc(decided)
               /\ run' = IF ServesWait(counted) THEN Launched(reading) ELSE run
          [] idle /\ ~Retries(s) /\ s.nextIn = 0 /\ reading \in Directions ->
               run' = Launched(reading) /\ state' = s /\ UNCHANGED decided
          [] OTHER -> state' = s /\ UNCHANGED <<run, decided>>
  /\ UNCHANGED <<status, history, waitRow, notices, handover, late, tracked, gone, scan, faults, heard>>

Seconds == \E reading \in {"blind", "hole", "no signal"} \cup Directions : Second(reading)

\* notice().
Notice ==
  /\ notices > 0 /\ notices' = notices - 1
  /\ IF ~tracked THEN UNCHANGED <<state, run, heard>>
     ELSE /\ heard' = TRUE
          /\ LET s == [state EXCEPT !.waiting = FALSE, !.seconds = 0]
             IN IF run.at = "idle" THEN run' = Launched("notice") /\ state' = s
                ELSE state' = [s EXCEPT !.renotice = TRUE] /\ UNCHANGED run
  /\ UNCHANGED <<database, handover, late, tracked, gone, scan, faults, decided>>

\* adopt(): tracked at once; the start's reading is decided like a second's.
Adopt ==
  /\ handover # None /\ handover' = None
  /\ IF gone THEN UNCHANGED <<tracked, state, run, scan, decided>>
     ELSE LET s == IF tracked THEN state ELSE Fresh
              counted == [s EXCEPT !.seconds = Inc(@)]
              idle == run.at = "idle" /\ s.nextIn = 0
          IN /\ tracked' = TRUE
             /\ scan' = [scan EXCEPT !.adopted = (scan.at # "none")]
             /\ CASE idle /\ handover = "no signal" ->
                       /\ state' = counted /\ decided' = Inc(decided)
                       /\ run' = IF ServesWait(counted) THEN Launched("no signal") ELSE run
                  [] idle /\ handover \in Directions ->
                       run' = Launched(handover) /\ state' = s /\ UNCHANGED decided
                  [] OTHER -> state' = s /\ UNCHANGED <<run, decided>>
  /\ UNCHANGED <<database, notices, late, gone, faults, heard>>

-----------------------------------------------------------------------------
(* The scan                                                                *)

\* readSessions(): the next number, then the list.
BeginScan ==
  /\ scan.at = "none" /\ scan' = [NoScan EXCEPT !.at = "list"]
  /\ UNCHANGED <<database, notices, handover, late, tracked, gone, state, run, faults, decided, heard>>

List ==
  /\ scan.at = "list" /\ scan' = [scan EXCEPT !.at = "listed", !.listed = (status = "active")]
  /\ UNCHANGED <<database, notices, handover, late, tracked, gone, state, run, faults, decided, heard>>

Drops == ~scan.listed /\ ~scan.adopted

Adds == scan.listed /\ ~tracked /\ ~gone

\* The list: a forgotten session stays forgotten while listed, a listed one is tracked.
ApplyScan ==
  /\ scan.at = "listed" /\ scan' = NoScan
  /\ gone' = (gone /\ scan.listed)
  /\ IF Adds THEN tracked' = TRUE /\ state' = Fresh
     ELSE tracked' = (tracked /\ ~Drops) /\ UNCHANGED state
  /\ heard' = (heard /\ ~Drops)
  /\ UNCHANGED <<database, notices, handover, late, run, faults, decided>>

ScanFails ==
  /\ scan.at = "list" /\ faults < MaxFaults /\ faults' = faults + 1 /\ scan' = NoScan
  /\ UNCHANGED <<database, notices, handover, late, tracked, gone, state, run, decided, heard>>

-----------------------------------------------------------------------------
(* The process                                                             *)

\* A kill and a start: the memory is gone, a creation already sent may still land.
Restart ==
  /\ faults < MaxFaults /\ faults' = faults + 1
  /\ late' = IF run.at = "create" THEN run ELSE late
  /\ tracked' = FALSE /\ gone' = FALSE /\ state' = Fresh /\ run' = Idle
  /\ scan' = [NoScan EXCEPT !.at = "list"]
  /\ handover' = None /\ notices' = 0 /\ heard' = FALSE
  /\ UNCHANGED <<database, decided>>

LateLands ==
  /\ late # Idle /\ late' = Idle
  /\ \/ UNCHANGED <<database, decided>>
     \/ Answer(late.step, late.action) = "created" /\ Insert(late)
  /\ UNCHANGED <<notices, handover, driver, faults, heard>>

RunSteps == ReadTrade \/ Create \/ Answered \/ ReadWait \/ RecordWait \/ Stop
ScanSteps == BeginScan \/ List \/ ApplyScan

Next ==
  \/ StartSession \/ StopSession \/ Trade \/ LoseNotices
  \/ RunSteps \/ RunFails \/ Seconds \/ Notice \/ Adopt
  \/ ScanSteps \/ ScanFails \/ Restart \/ LateLands

Spec == Init /\ [][Next]_vars

-----------------------------------------------------------------------------
\* The bounds, at most one live intent, and the driver never tracks a session it has forgotten
\* (driver.ts:512).
H1DriverTypeOK ==
  /\ status \in {"new", "active", "stopped", "no_signal"}
  /\ state.seconds <= Limit /\ quiet <= Limit /\ Len(history) <= MaxTrades
  /\ ~(gone /\ tracked)
  /\ Cardinality({i \in DOMAIN history : history[i].status \in {"queued", "accepted"}}) <= 1

\* Each trade right after a lost or tied first step repeats it in its direction, and no other trade
\* is a repeat, whatever readings, lost notices and restarts there were (h1.md, The repeat step).
RepeatsTheLostStep ==
  \A i \in DOMAIN history :
    LET SinceWin == {j \in 1..(i - 1) : /\ history[j].status = "lost"
                                      /\ \A k \in j..(i - 1) : history[k].status # "won"}
    IN /\ history[i].repeat <=> SinceWin = {i - 1}
       /\ history[i].repeat => history[i].action = history[i - 1].action

\* The no-signal stop comes after Limit seconds without a change of the session, Limit decided
\* seconds without a signal since its last intent, and its waiting row (driver.ts:862).
NoSignalStopIsEarned ==
  status = "no_signal" => quiet = Limit /\ decided = Limit /\ waitRow /\ ~Live(history)

\* A notice is read by a run that begins after it (driver.ts:456).
NoticeIsServed == heard => run.at = "read" \/ (state.renotice /\ run.at # "idle")

\* An active session the driver tracks is never dropped, but by a restart (driver.ts:471).
ActiveStaysTracked ==
  [][tracked /\ ~tracked' /\ status' = "active" => faults' = faults + 1]_vars

=============================================================================
