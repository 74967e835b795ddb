---------------------------- MODULE BalanceCheck ----------------------------
(***************************************************************************)
(* The worker's balance check after a reconciliation outcome: what the     *)
(* broker holds for the account against our open trades.  Trades move on   *)
(* both sides while the GET is under way, so it is bracketed by two reads  *)
(* of our side.  One account and mode; every trade is of the same amount.  *)
(* A read sees the committed rows at one instant.                          *)
(***************************************************************************)
EXTENDS Naturals, FiniteSets

CONSTANTS
  Intents,     \* our intents; one is also the trade it opens
  Foreign      \* trades no intent of ours stands for

ASSUME CheckAssumption == Intents \cap Foreign = {} /\ IsFiniteSet(Intents \cup Foreign)

VARIABLES
  intent,      \* trade_intents: "none", "pending" (in flight), "accepted", "rejected", "settled"
  trade,       \* broker_trades of our intents: "none", "open", "settled"
  old,         \* intents that left the moving window of RECENT_INTENTS_WINDOW_MS
  broker,      \* at the broker: "none", "open", "closed"
  due,         \* trades at or past their expected close
  check        \* one check; checks share nothing they compare

vars == <<intent, trade, old, broker, due, check>>

Steps == {"idle", "read", "answered", "ended"}
Endings == {"none", "compared", "mismatch", "not_compared", "failed", "aborted"}

NoExposure == [open |-> {}, counted |-> {}, unresolved |-> FALSE, pending |-> FALSE]
NoCheck == [step |-> "idle", aborted |-> FALSE, before |-> NoExposure, past |-> {}, held |-> {},
            excess |-> FALSE, ending |-> "none"]

Init ==
  /\ intent = [i \in Intents |-> "none"]
  /\ trade = [i \in Intents |-> "none"]
  /\ old = {}
  /\ broker = [t \in Intents \cup Foreign |-> "none"]
  /\ due = {}
  /\ check = NoCheck

-----------------------------------------------------------------------------
(* Our side and the broker's *)

Create(i) ==
  /\ intent[i] = "none"
  /\ intent' = [intent EXCEPT ![i] = "pending"]
  /\ UNCHANGED <<trade, old, broker, due, check>>

\* the order takes effect: while its intent is in flight, late after a rejection, or without one
Opens(t) ==
  /\ broker[t] = "none"
  /\ t \in Intents => intent[t] \in {"pending", "rejected"}
  /\ broker' = [broker EXCEPT ![t] = "open"]
  /\ UNCHANGED <<intent, trade, old, due, check>>

\* the broker closes a trade at its expected close, a foreign one whenever it ends
Closes(t) ==
  /\ broker[t] = "open"
  /\ t \in Intents => t \in due
  /\ broker' = [broker EXCEPT ![t] = "closed"]
  /\ UNCHANGED <<intent, trade, old, due, check>>

ReachesClose(i) ==
  /\ broker[i] = "open" /\ i \notin due
  /\ due' = due \cup {i}
  /\ UNCHANGED <<intent, trade, old, broker, check>>

\* accepted together with its open trade, from the event or the reconciliation
Accept(i) ==
  /\ intent[i] = "pending" /\ broker[i] # "none"
  /\ intent' = [intent EXCEPT ![i] = "accepted"]
  /\ trade' = [trade EXCEPT ![i] = "open"]
  /\ UNCHANGED <<old, broker, due, check>>

\* not_found: the broker has no such trade
Reject(i) ==
  /\ intent[i] = "pending" /\ broker[i] = "none"
  /\ intent' = [intent EXCEPT ![i] = "rejected"]
  /\ UNCHANGED <<trade, old, broker, due, check>>

Settle(i) ==
  /\ intent[i] = "accepted" /\ broker[i] = "closed"
  /\ intent' = [intent EXCEPT ![i] = "settled"]
  /\ trade' = [trade EXCEPT ![i] = "settled"]
  /\ UNCHANGED <<old, broker, due, check>>

\* the window is far longer than a check: an intent that leaves it was there at the first read
Age(i) ==
  /\ intent[i] # "none" /\ i \notin old
  /\ check.step \in {"read", "answered"} => i \in check.before.counted
  /\ old' = old \cup {i}
  /\ UNCHANGED <<intent, trade, broker, due, check>>

-----------------------------------------------------------------------------
(* The check *)

OpenTrades == {i \in Intents : trade[i] = "open"}

\* a non-terminal intent that is not accepted with an open linked trade
Unresolved == \E i \in Intents :
  intent[i] \in {"pending", "accepted"} /\ ~(intent[i] = "accepted" /\ trade[i] = "open")

\* intents created after the bound; `past` had left the window of the first read
Counted(past) == {i \in Intents : intent[i] # "none"} \ past

SettlementPending == OpenTrades \cap due # {}

Exposure(past) ==
  [open |-> OpenTrades, counted |-> Counted(past), unresolved |-> Unresolved,
   pending |-> SettlementPending]

\* Mutant: only the trades are compared between the reads
SameTrades_Ids(before, after) == before.open = after.open

\* the reads carry the sorted ids of the trades and the number of intents
SameTrades(before, after) ==
  /\ Cardinality(before.counted) = Cardinality(after.counted)
  /\ before.open = after.open

Skip(before, after) ==
  before.unresolved \/ after.unresolved \/ after.pending \/ ~SameTrades(before, after)

\* the first read
Begin ==
  /\ check.step = "idle"
  /\ check' = [check EXCEPT !.step = "read", !.before = Exposure(old), !.past = old]
  /\ UNCHANGED <<intent, trade, old, broker, due>>

\* what the broker holds without a trade of ours for it
Excess == {t \in Intents \cup Foreign : broker[t] = "open" /\ (t \in Foreign \/ intent[t] = "rejected")}

\* the GET: an answer is the broker's state at one instant
Ask ==
  /\ check.step = "read"
  /\ check' = [check EXCEPT !.step = IF check.aborted THEN "ended" ELSE "answered",
                            !.ending = IF check.aborted THEN "aborted" ELSE "none",
                            !.held = {t \in Intents \cup Foreign : broker[t] = "open"},
                            !.excess = Excess # {}]
  /\ UNCHANGED <<intent, trade, old, broker, due>>

\* the token, the GET, the owner or the domain
Fails ==
  /\ check.step = "read"
  /\ check' = [check EXCEPT !.step = "ended",
                            !.ending = IF check.aborted THEN "aborted" ELSE "failed"]
  /\ UNCHANGED <<intent, trade, old, broker, due>>

\* the deadline or stop()
Abort ==
  /\ check.step \in {"read", "answered"} /\ ~check.aborted
  /\ check' = [check EXCEPT !.aborted = TRUE]
  /\ UNCHANGED <<intent, trade, old, broker, due>>

Ending(after) ==
  IF check.aborted THEN "aborted"
  ELSE IF Skip(check.before, after) THEN "not_compared"
  ELSE IF Cardinality(check.held) > Cardinality(after.open) THEN "mismatch"
  ELSE "compared"

\* the second read, with the first one's bound
Compare ==
  /\ check.step = "answered"
  /\ check' = [check EXCEPT !.step = "ended", !.ending = Ending(Exposure(check.past))]
  /\ UNCHANGED <<intent, trade, old, broker, due>>

Next ==
  \/ \E i \in Intents : Create(i) \/ Accept(i) \/ Reject(i) \/ Settle(i) \/ ReachesClose(i) \/ Age(i)
  \/ \E t \in Intents \cup Foreign : Opens(t) \/ Closes(t)
  \/ Begin \/ Ask \/ Fails \/ Abort \/ Compare

Spec == Init /\ [][Next]_vars

-----------------------------------------------------------------------------
(* Properties *)

CheckTypeOK ==
  /\ intent \in [Intents -> {"none", "pending", "accepted", "rejected", "settled"}]
  /\ trade \in [Intents -> {"none", "open", "settled"}]
  /\ check.step \in Steps /\ check.ending \in Endings
  /\ \A i \in Intents : trade[i] = "open" <=> intent[i] = "accepted"

\* An alert says the broker held a trade no row of ours stands for, whatever of ours opened,
\* settled or was created around the GET.
NoFalseAlarm ==
  check.ending = "mismatch" => check.excess

\* A clean compare says it held none: our own trades cannot hide one by settling meanwhile.
CleanIsClean ==
  check.ending = "compared" => ~check.excess

\* Neither answer of the check is wrong.
AlarmsAreTrue == CheckTypeOK /\ NoFalseAlarm /\ CleanIsClean
=============================================================================
