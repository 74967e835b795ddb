--------------------------- MODULE CircuitBreaker ---------------------------
(***************************************************************************)
(* The breaker of one worker process: a sliding window for each signal, the  *)
(* evaluation on a failure, and the asynchronous trip that closes the        *)
(* trading switch.  Events go on arriving while a trip is at the database.   *)
(*                                                                         *)
(* latest is the code's Map: insertion order, pruned from its head.  last is *)
(* what it stands for: the newest event of a key since the last trip.        *)
(***************************************************************************)
EXTENDS Naturals, FiniteSets, SequencesExt

CONSTANTS
  Signals,          \* the signals that are fed: "rest" and "socket"
  Keys,             \* intents (rest) and accounts (socket)
  WindowMs, MinFailures, FailurePercent,
  MaxBreakerNow,           \* bound: the clock
  MaxTripFaults         \* bound: stopTrading that fails

ASSUME BreakerAssumption ==
  /\ Signals \subseteq {"rest", "socket"} /\ IsFiniteSet(Keys)
  /\ {WindowMs, MaxBreakerNow, MaxTripFaults} \subseteq Nat
  /\ MinFailures \in Nat \ {0}
  /\ FailurePercent \in 1..100

VARIABLES
  breakerNow, latest, last,
  tripping,         \* the signal whose trip is in flight
  stopped,          \* stop() was called
  open,             \* trading_switch.trading_enabled
  breakerFaults

breakerVars == <<breakerNow, latest, last, tripping, stopped, open, breakerFaults>>

Never == [failed |-> FALSE, at |-> 0, set |-> FALSE]

BreakerInit ==
  /\ breakerNow = 1
  /\ latest = [s \in Signals |-> << >>]
  /\ last = [s \in Signals |-> [k \in Keys |-> Never]]
  /\ tripping = "none"
  /\ stopped = FALSE
  /\ open = TRUE
  /\ breakerFaults = 0

-----------------------------------------------------------------------------
(* The window                                                               *)

Old(e) == e.at + WindowMs <= breakerNow

\* prune: from the head, up to the first event inside the window.
Prune(w) ==
  LET kept == {i \in 1..Len(w) : ~Old(w[i])}
  IN  IF kept = {} THEN << >> ELSE SubSeq(w, CHOOSE i \in kept : \A j \in kept : i <= j, Len(w))

\* Mutant: Map.set of a present key keeps the key's place.
Record_InPlace(w, k, failed) ==
  LET e == [key |-> k, failed |-> failed, at |-> breakerNow]
      at == {i \in 1..Len(w) : w[i].key = k}
  IN  Prune(IF at = {} THEN Append(w, e) ELSE [i \in 1..Len(w) |-> IF i \in at THEN e ELSE w[i]])

\* Map.delete of the key, which the window holds once at most
Without(w, k) ==
  LET at == {i \in 1..Len(w) : w[i].key = k}
  IN IF at = {} THEN w ELSE RemoveAt(w, CHOOSE i \in at : TRUE)

\* record: the key moves to the end.
Record(w, k, failed) ==
  Prune(Append(Without(w, k), [key |-> k, failed |-> failed, at |-> breakerNow]))

Failures(w) == Cardinality({i \in 1..Len(w) : w[i].failed})

TripsAt(failures, total) ==
  failures >= MinFailures /\ failures * 100 >= FailurePercent * total

-----------------------------------------------------------------------------
(* Signals                                                                  *)

MayTrip == ~stopped /\ tripping = "none"

\* evaluate, after the record it follows.
Evaluate(s, w) ==
  tripping' = IF MayTrip /\ TripsAt(Failures(Prune(w)), Len(Prune(w))) THEN s ELSE tripping

Event(s, k, failed, evaluates) ==
  LET w == Record(latest[s], k, failed) IN
  /\ s \in Signals
  /\ latest' = [latest EXCEPT ![s] = w]
  /\ last' = [last EXCEPT ![s][k] = [failed |-> failed, at |-> breakerNow, set |-> TRUE]]
  /\ IF evaluates THEN Evaluate(s, w) ELSE UNCHANGED tripping
  /\ UNCHANGED <<breakerNow, stopped, open, breakerFaults>>

\* observeExecutor: what a submit says of the broker; a cut or other unknown says nothing.
Answers == [accepted |-> {FALSE}, rejected |-> {FALSE}, unavailable |-> {TRUE}, cut |-> {}]

ObserveExecutor(k, answer) == \E failed \in Answers[answer] : Event("rest", k, failed, failed)

SocketLost(k)  == Event("socket", k, TRUE, TRUE)
SocketReady(k) == Event("socket", k, FALSE, FALSE)

-----------------------------------------------------------------------------
(* The trip                                                                 *)

SwitchOff == FALSE

\* stopTrading committed; the window of the signal that tripped is emptied.
TripSucceeds ==
  /\ tripping # "none"
  /\ open' = SwitchOff
  /\ latest' = [latest EXCEPT ![tripping] = << >>]
  /\ last' = [last EXCEPT ![tripping] = [k \in Keys |-> Never]]
  /\ tripping' = "none"
  /\ UNCHANGED <<breakerNow, stopped, breakerFaults>>

\* the window stays
WindowAfterFailure(s) == latest

\* stopTrading threw: it may have committed, when only its answer was lost.
TripFails ==
  /\ tripping # "none"
  /\ breakerFaults < MaxTripFaults
  /\ breakerFaults' = breakerFaults + 1
  /\ latest' = WindowAfterFailure(tripping)
  /\ open' \in {open, SwitchOff}
  /\ tripping' = "none"
  /\ UNCHANGED <<breakerNow, last, stopped>>

Stop ==
  /\ ~stopped
  /\ stopped' = TRUE
  /\ UNCHANGED <<breakerNow, latest, last, tripping, open, breakerFaults>>

\* openTrading: the operator alone.
OpenTrading ==
  /\ ~open
  /\ open' = TRUE
  /\ UNCHANGED <<breakerNow, latest, last, tripping, stopped, breakerFaults>>

TimePasses ==
  /\ breakerNow < MaxBreakerNow
  /\ breakerNow' = breakerNow + 1
  /\ UNCHANGED <<latest, last, tripping, stopped, open, breakerFaults>>

BreakerNext ==
  \/ \E k \in Keys : SocketLost(k) \/ SocketReady(k)
  \/ \E k \in Keys, answer \in DOMAIN Answers : ObserveExecutor(k, answer)
  \/ TripSucceeds \/ TripFails \/ Stop \/ OpenTrading \/ TimePasses

BreakerSpec == BreakerInit /\ [][BreakerNext]_breakerVars

-----------------------------------------------------------------------------
Recent(s) == {k \in Keys : last[s][k].set /\ last[s][k].at + WindowMs > breakerNow}
Failing(s) == {k \in Recent(s) : last[s][k].failed}
CallsForTrip(s) ==
  /\ Cardinality(Failing(s)) >= MinFailures
  /\ Cardinality(Failing(s)) * 100 >= FailurePercent * Cardinality(Recent(s))

\* A trip starts only on an outage: enough distinct keys, and enough of those heard of, whose
\* newest event inside the window is a failure (window.ts:1).
TripIsJustified ==
  [][\A s \in Signals : (tripping = "none" /\ tripping' = s) => CallsForTrip(s)']_breakerVars

\* An outage is not overlooked: a failure heard while no trip is in flight starts one whenever
\* the keys call for it, also after a trip that failed (breaker.ts:75).
OutageIsSeen ==
  [][\A s \in Signals, k \in Keys :
       (/\ last'[s] # last[s] /\ last'[s][k].failed /\ last'[s][k].at = breakerNow
        /\ last'[s][k] # last[s][k] /\ tripping = "none" /\ ~stopped
        /\ CallsForTrip(s)')
       => tripping' = s]_breakerVars

Heard == [key : Keys, failed : BOOLEAN, at : Nat]

BreakerTypeOK ==
  /\ breakerNow \in Nat /\ breakerFaults \in 0..MaxTripFaults
  /\ latest \in [Signals -> Seq(Heard)]
  /\ last \in [Signals -> [Keys -> [failed : BOOLEAN, at : Nat, set : BOOLEAN]]]
  /\ tripping \in Signals \cup {"none"} /\ stopped \in BOOLEAN /\ open \in BOOLEAN

\* The map never outgrows the window: one event a key, none older than the window when pruned
\* last (window.ts:5).
WindowIsBounded ==
  \A s \in Signals :
    /\ Len(latest[s]) <= Cardinality(Keys)
    /\ \A i, j \in 1..Len(latest[s]) : i < j => latest[s][i].at <= latest[s][j].at

\* Trading is closed by this process only while a trip is in flight, and none starts after stop().
NoTripAfterStop ==
  [][stopped /\ tripping = "none" => tripping' = "none" /\ (open => open')]_breakerVars

\* A trip starts on an outage and on every outage, and none after the stop.
BreakerTrips ==
  /\ [](BreakerTypeOK /\ WindowIsBounded)
  /\ TripIsJustified /\ OutageIsSeen /\ NoTripAfterStop

=============================================================================
