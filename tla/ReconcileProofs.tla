--------------------------- MODULE ReconcileProofs ---------------------------
(***************************************************************************)
(* The check of a balance: neither of its answers is wrong, for every set  *)
(* of intents and trades.  The row of a balance: the check puts no older   *)
(* answer over an event, for every number of changes, links and faults.    *)
(* The pages of an unknown order: its token comes back only without a      *)
(* trade, for every list and every way the broker cuts it.                 *)
(***************************************************************************)
EXTENDS BalanceCheck, BalanceRow, TradePages, FiniteSetTheorems, SequenceTheorems,
        NaturalsInduction, WellFoundedInduction, TLAPS

AllTrades == Intents \cup Foreign
Exposures == [open : SUBSET Intents, counted : SUBSET Intents, unresolved : BOOLEAN, pending : BOOLEAN]
CheckRows == [step : Steps, aborted : BOOLEAN, before : Exposures, past : SUBSET Intents,
              held : SUBSET AllTrades, excess : BOOLEAN, ending : Endings]

SidesTyped ==
  /\ intent \in [Intents -> {"none", "pending", "accepted", "rejected", "settled"}]
  /\ trade \in [Intents -> {"none", "open", "settled"}]
  /\ old \in SUBSET Intents /\ due \in SUBSET Intents
  /\ broker \in [AllTrades -> {"none", "open", "closed"}]

\* What the two sides know of each other: one intent, its trade's row, the broker's trade.
SideOK(i, t, b, isDue, isOld) ==
  /\ t = "open" <=> i = "accepted"
  /\ i = "none" => b = "none" /\ ~isOld
  /\ i \in {"accepted", "settled"} => b # "none"
  /\ i = "settled" => b = "closed"
  /\ b = "closed" => isDue
SidesOK == \A i \in Intents : SideOK(intent[i], trade[i], broker[i], i \in due, i \in old)

\* The intents that existed at the first read.
Known == check.before.counted \cup check.past

\* After a first read that left nothing unresolved, a known intent is where it was, or settled.
KnownOK ==
  \A i \in Known :
    /\ intent[i] # "none"
    /\ ~check.before.unresolved =>
         IF i \in check.before.open THEN intent[i] \in {"accepted", "settled"}
                                    ELSE intent[i] \in {"rejected", "settled"}
ReadOK ==
  /\ check.before.open \subseteq Known /\ check.before.counted \cap check.past = {}
  /\ KnownOK

\* What the answer held is ours, or in excess and stays so; what of ours it did not hold is over.
HeldOK ==
  /\ \A t \in check.held :
       /\ t \in Intents => intent[t] # "none"
       /\ t \in Foreign => check.excess
       /\ t \in Known /\ ~check.before.unresolved => t \in check.before.open \/ check.excess
  /\ check.excess => \E t \in check.held : t \in Foreign \/ (t \in Intents /\ intent[t] = "rejected")
  /\ ~check.before.unresolved => \A i \in check.before.open \ check.held : broker[i] = "closed"

EndedOK == NoFalseAlarm /\ CleanIsClean

CheckInv ==
  /\ SidesTyped /\ check \in CheckRows /\ SidesOK /\ EndedOK
  /\ check.step \in {"read", "answered"} => ReadOK
  /\ check.step = "answered" => HeldOK

-----------------------------------------------------------------------------
LEMMA CheckInits == Init => CheckInv
<1> SUFFICES ASSUME Init PROVE CheckInv
  OBVIOUS
<1>1. check \in CheckRows /\ check.step = "idle" /\ check.ending = "none"
  BY DEF Init, NoCheck, NoExposure, CheckRows, Exposures, Steps, Endings
<1>2. SidesTyped /\ SidesOK
  BY DEF Init, SidesTyped, SidesOK, SideOK, AllTrades
<1>3. QED
  BY <1>1, <1>2 DEF CheckInv, EndedOK, NoFalseAlarm, CleanIsClean

\* A step of one intent, with its trade: what has to hold of it for the check to go on.
SideStep(i) ==
  /\ check' = check
  /\ \A j \in Intents \ {i} : intent'[j] = intent[j] /\ broker'[j] = broker[j]
  /\ intent'[i] # intent[i] =>
       <<intent[i], intent'[i]>> \in {<<"none", "pending">>, <<"pending", "accepted">>,
                                      <<"pending", "rejected">>, <<"accepted", "settled">>}
  /\ broker[i] = "closed" => broker'[i] = "closed"

LEMMA SideStepKeepsCheck ==
  ASSUME CheckInv, NEW i \in Intents, SideStep(i), SidesTyped'
  PROVE  /\ EndedOK' /\ check' \in CheckRows
         /\ check'.step \in {"read", "answered"} => ReadOK'
         /\ check'.step = "answered" => HeldOK'
<1>0. check' = check /\ check \in CheckRows
  BY DEF SideStep, CheckInv
<1>1. EndedOK'
  BY <1>0 DEF CheckInv, EndedOK, NoFalseAlarm, CleanIsClean
<1>2. Known \subseteq Intents /\ check.before.open \subseteq Intents /\ Known' = Known
  BY <1>0 DEF CheckRows, Exposures, Known
<1>3. \A j \in Intents :
        /\ intent[j] # "none" => intent'[j] # "none"
        /\ intent[j] = "rejected" => intent'[j] = "rejected"
        /\ intent[j] \in {"accepted", "settled"} => intent'[j] \in {"accepted", "settled"}
        /\ intent[j] = "settled" => intent'[j] = "settled"
        /\ broker[j] = "closed" => broker'[j] = "closed"
  BY DEF SideStep
<1>4. ASSUME check.step \in {"read", "answered"} PROVE ReadOK'
  <2>1. ReadOK
    BY <1>4 DEF CheckInv
  <2>2. QED
    BY <1>0, <1>2, <1>3, <2>1 DEF ReadOK, KnownOK
<1>5. ASSUME check.step = "answered" PROVE HeldOK'
  <2>1. HeldOK
    BY <1>5 DEF CheckInv
  <2>2. \A t \in check.held :
          /\ t \in Intents => intent'[t] # "none"
          /\ t \in Foreign => check.excess
          /\ t \in Known /\ ~check.before.unresolved => t \in check.before.open \/ check.excess
    BY <1>3, <2>1 DEF HeldOK
  <2>3. check.excess => \E t \in check.held : t \in Foreign \/ (t \in Intents /\ intent'[t] = "rejected")
    BY <1>3, <2>1 DEF HeldOK
  <2>4. ~check.before.unresolved => \A j \in check.before.open \ check.held : broker'[j] = "closed"
    BY <1>2, <1>3, <2>1 DEF HeldOK
  <2>5. QED
    BY <1>0, <1>2, <2>2, <2>3, <2>4 DEF HeldOK
<1>6. QED
  BY <1>0, <1>1, <1>4, <1>5

LEMMA SideStepKeeps ==
  ASSUME CheckInv, NEW i \in Intents, SideStep(i), SidesTyped', SidesOK'
  PROVE  CheckInv'
BY SideStepKeepsCheck DEF CheckInv

LEMMA IntentMoves ==
  ASSUME CheckInv, NEW i \in Intents,
         Create(i) \/ Accept(i) \/ Reject(i) \/ Settle(i) \/ ReachesClose(i) \/ Age(i)
  PROVE  CheckInv'
<1>0. SidesTyped /\ SidesOK /\ Intents \subseteq AllTrades
  BY DEF CheckInv, AllTrades
<1>1. SidesTyped'
  BY <1>0 DEF SidesTyped, Create, Accept, Reject, Settle, ReachesClose, Age
<1>2. SidesOK'
  <2>1. CASE Create(i)
    BY <1>0, <2>1 DEF SidesTyped, SidesOK, SideOK, Create
  <2>2. CASE Accept(i)
    BY <1>0, <2>2 DEF SidesTyped, SidesOK, SideOK, Accept
  <2>3. CASE Reject(i)
    BY <1>0, <2>3 DEF SidesTyped, SidesOK, SideOK, Reject
  <2>4. CASE Settle(i)
    BY <1>0, <2>4 DEF SidesTyped, SidesOK, SideOK, Settle
  <2>5. CASE ReachesClose(i)
    BY <1>0, <2>5 DEF SidesTyped, SidesOK, SideOK, ReachesClose
  <2>6. CASE Age(i)
    BY <1>0, <2>6 DEF SidesTyped, SidesOK, SideOK, Age
  <2>7. QED
    BY <2>1, <2>2, <2>3, <2>4, <2>5, <2>6
<1>3. SideStep(i)
  BY <1>0 DEF SideStep, SidesTyped, Create, Accept, Reject, Settle, ReachesClose, Age
<1>4. QED
  BY <1>1, <1>2, <1>3, SideStepKeeps

LEMMA TradeMoves ==
  ASSUME CheckInv, NEW t \in AllTrades, Opens(t) \/ Closes(t)
  PROVE  CheckInv'
<1>0. SidesTyped /\ SidesOK
  BY DEF CheckInv
<1>1. SidesTyped'
  BY <1>0 DEF SidesTyped, Opens, Closes
<1>2. SidesOK'
  BY <1>0 DEF SidesTyped, SidesOK, SideOK, Opens, Closes, AllTrades
<1>3. CASE t \in Intents
  <2>1. SideStep(t)
    BY <1>0, <1>3 DEF SideStep, SidesTyped, Opens, Closes, AllTrades
  <2>2. QED
    BY <1>1, <1>2, <1>3, <2>1, SideStepKeeps
<1>4. CASE t \notin Intents
  <2>1. \A j \in Intents : broker'[j] = broker[j]
    BY <1>0, <1>4 DEF SidesTyped, Opens, Closes, AllTrades
  <2>2. check' = check /\ intent' = intent
    BY DEF Opens, Closes
  <2>3. check \in CheckRows
    BY DEF CheckInv
  <2>4. check.before.open \subseteq Intents
    BY <2>3 DEF CheckRows, Exposures
  <2>5. QED
    BY <1>1, <1>2, <2>1, <2>2, <2>4
       DEF CheckInv, EndedOK, NoFalseAlarm, CleanIsClean, ReadOK, KnownOK, HeldOK, Known
<1>5. QED
  BY <1>3, <1>4

-----------------------------------------------------------------------------
\* The check itself leaves both sides alone.
Watches == UNCHANGED <<intent, trade, old, broker, due>>

LEMMA WatchesSides == ASSUME CheckInv, Watches PROVE SidesTyped' /\ SidesOK'
BY DEF CheckInv, Watches, SidesTyped, SidesOK

LEMMA ExposureTyped ==
  ASSUME CheckInv, NEW past \in SUBSET Intents
  PROVE  /\ Exposure(past) \in Exposures
         /\ Exposure(past).open = OpenTrades /\ Exposure(past).counted = Counted(past)
         /\ Exposure(past).unresolved = Unresolved /\ Exposure(past).pending = SettlementPending
BY DEF Exposure, Exposures, OpenTrades, Counted, Unresolved, SettlementPending

LEMMA BeginKeeps == ASSUME CheckInv, Begin PROVE CheckInv'
<1> DEFINE new == [check EXCEPT !.step = "read", !.before = Exposure(old), !.past = old]
<1>0. SidesTyped /\ SidesOK /\ check \in CheckRows /\ check.step = "idle" /\ EndedOK
  BY DEF CheckInv, Begin
<1>1. check' = new /\ Watches
  BY DEF Begin, Watches
<1>2. /\ Exposure(old) \in Exposures
      /\ Exposure(old).open = OpenTrades /\ Exposure(old).counted = Counted(old)
      /\ Exposure(old).unresolved = Unresolved
  BY <1>0, ExposureTyped DEF SidesTyped
<1>3. /\ new \in CheckRows /\ new.step = "read" /\ new.ending = check.ending /\ new.excess = check.excess
      /\ new.before = Exposure(old) /\ new.past = old
  BY <1>0, <1>2 DEF CheckRows, Steps, SidesTyped
<1> HIDE DEF new
<1>4. EndedOK'
  BY <1>0, <1>1, <1>3 DEF EndedOK, NoFalseAlarm, CleanIsClean
<1>5. Known' = {i \in Intents : intent[i] # "none"}
  <2>1. Known' = Counted(old) \cup old
    BY <1>1, <1>2, <1>3 DEF Known
  <2>2. \A i \in old : i \in Intents /\ intent[i] # "none"
    BY <1>0 DEF SidesTyped, SidesOK, SideOK
  <2>3. QED
    BY <2>1, <2>2 DEF Counted
<1>6. ReadOK'
  <2>1. \A i \in Intents : trade[i] = "open" <=> intent[i] = "accepted"
    BY <1>0 DEF SidesOK, SideOK
  <2>2. ~Unresolved => \A i \in Intents : intent[i] \in {"pending", "accepted"} => i \in OpenTrades
    BY DEF Unresolved, OpenTrades
  <2>3. intent' = intent /\ intent \in [Intents -> {"none", "pending", "accepted", "rejected", "settled"}]
    BY <1>0, <1>1 DEF Watches, SidesTyped
  <2>4. check'.before.open = OpenTrades /\ check'.before.unresolved = Unresolved
    BY <1>1, <1>2, <1>3
  <2>5. OpenTrades \subseteq Known'
    BY <1>5, <2>1, <2>3 DEF OpenTrades
  <2>6. KnownOK'
    <3>1. ASSUME NEW i \in Known'
          PROVE  /\ intent[i] # "none"
                 /\ ~Unresolved => IF i \in OpenTrades THEN intent[i] \in {"accepted", "settled"}
                                                       ELSE intent[i] \in {"rejected", "settled"}
      BY <1>5, <2>1, <2>2, <2>3, <3>1 DEF OpenTrades
    <3>2. QED
      BY <2>3, <2>4, <3>1 DEF KnownOK
  <2>7. (check.before.counted \cap check.past = {})'
    BY <1>1, <1>2, <1>3 DEF Counted
  <2>8. QED
    BY <2>4, <2>5, <2>6, <2>7 DEF ReadOK
<1>7. QED
  BY <1>1, <1>3, <1>4, <1>6, WatchesSides DEF CheckInv

LEMMA AskKeeps == ASSUME CheckInv, Ask PROVE CheckInv'
<1> DEFINE held == {t \in AllTrades : broker[t] = "open"}
           new == [check EXCEPT !.step = IF check.aborted THEN "ended" ELSE "answered",
                                !.ending = IF check.aborted THEN "aborted" ELSE "none",
                                !.held = held, !.excess = Excess # {}]
<1>0. SidesTyped /\ SidesOK /\ check \in CheckRows /\ check.step = "read" /\ ReadOK
  BY DEF CheckInv, Ask
<1>1. check' = new /\ Watches
  BY DEF Ask, Watches, AllTrades
<1>2. /\ new \in CheckRows /\ new.step \in {"ended", "answered"} /\ new.ending \in {"aborted", "none"}
      /\ new.before = check.before /\ new.past = check.past /\ new.held = held
      /\ new.excess = (Excess # {})
  BY <1>0 DEF CheckRows, Steps, Endings
<1> HIDE DEF new
<1>3. EndedOK' /\ Known' = Known
  BY <1>1, <1>2 DEF EndedOK, NoFalseAlarm, CleanIsClean, Known
<1>4. ReadOK'
  BY <1>0, <1>1, <1>2, <1>3 DEF ReadOK, KnownOK, Watches
<1>5. check.before.open \subseteq Intents
  BY <1>0 DEF CheckRows, Exposures
<1>6. ASSUME NEW t \in held
      PROVE  /\ t \in Intents => intent[t] # "none"
             /\ t \in Foreign => Excess # {}
             /\ t \in Known /\ ~check.before.unresolved => t \in check.before.open \/ Excess # {}
  <2>1. t \in AllTrades /\ broker[t] = "open"
    BY <1>6
  <2>2. t \in Foreign => t \in Excess
    BY <2>1 DEF Excess, AllTrades
  <2>3. t \in Intents => intent[t] # "none" /\ intent[t] # "settled"
    BY <1>0, <2>1 DEF SidesOK, SideOK
  <2>4. t \in Known => t \in Intents
    BY <1>0 DEF CheckRows, Exposures, Known
  <2>5. t \in Intents /\ intent[t] = "rejected" => t \in Excess
    BY <2>1 DEF Excess
  <2>6. QED
    BY <1>0, <2>2, <2>3, <2>4, <2>5 DEF ReadOK, KnownOK
<1>7. Excess # {} => \E t \in held : t \in Foreign \/ (t \in Intents /\ intent[t] = "rejected")
  BY DEF Excess, AllTrades
<1>8. ~check.before.unresolved => \A i \in check.before.open \ held : broker[i] = "closed"
  <2> SUFFICES ASSUME ~check.before.unresolved, NEW i \in check.before.open \ held PROVE broker[i] = "closed"
    OBVIOUS
  <2>1. i \in Intents /\ i \in AllTrades /\ broker[i] # "open"
    BY <1>5 DEF AllTrades
  <2>2. intent[i] \in {"accepted", "settled"}
    BY <1>0 DEF ReadOK, KnownOK
  <2>3. broker[i] \in {"none", "open", "closed"} /\ broker[i] # "none"
    BY <1>0, <2>1, <2>2 DEF SidesTyped, SidesOK, SideOK
  <2>4. QED
    BY <2>1, <2>3
<1> HIDE DEF held
<1>9. HeldOK'
  <2>1. intent' = intent /\ broker' = broker /\ check'.held = held /\ check'.excess = (Excess # {})
        /\ check'.before = check.before
    BY <1>1, <1>2 DEF Watches
  <2>2. QED
    BY <1>3, <1>6, <1>7, <1>8, <2>1 DEF HeldOK
<1>10. QED
  BY <1>1, <1>2, <1>3, <1>4, <1>9, WatchesSides DEF CheckInv

LEMMA FailsKeeps == ASSUME CheckInv, Fails PROVE CheckInv'
<1> DEFINE new == [check EXCEPT !.step = "ended", !.ending = IF check.aborted THEN "aborted" ELSE "failed"]
<1>0. check \in CheckRows
  BY DEF CheckInv
<1>1. check' = new /\ Watches
  BY DEF Fails, Watches
<1>2. new \in CheckRows /\ new.step = "ended" /\ new.ending \in {"aborted", "failed"}
  BY <1>0 DEF CheckRows, Steps, Endings
<1> HIDE DEF new
<1>3. EndedOK'
  BY <1>1, <1>2 DEF EndedOK, NoFalseAlarm, CleanIsClean
<1>4. QED
  BY <1>1, <1>2, <1>3, WatchesSides DEF CheckInv

LEMMA AbortKeeps == ASSUME CheckInv, Abort PROVE CheckInv'
<1> DEFINE new == [check EXCEPT !.aborted = TRUE]
<1>0. check \in CheckRows
  BY DEF CheckInv
<1>1. check' = new /\ Watches
  BY DEF Abort, Watches
<1>2. /\ new \in CheckRows /\ new.step = check.step /\ new.ending = check.ending /\ new.before = check.before
      /\ new.past = check.past /\ new.held = check.held /\ new.excess = check.excess
  BY <1>0 DEF CheckRows
<1> HIDE DEF new
<1>3. EndedOK'
  BY <1>1, <1>2 DEF CheckInv, EndedOK, NoFalseAlarm, CleanIsClean
<1>4. Known' = Known
  BY <1>1, <1>2 DEF Known
<1>5. check.step \in {"read", "answered"} => ReadOK'
  BY <1>1, <1>2, <1>4 DEF CheckInv, ReadOK, KnownOK, Watches
<1>6. check.step = "answered" => HeldOK'
  BY <1>1, <1>2, <1>4 DEF CheckInv, HeldOK, Watches
<1>7. QED
  BY <1>1, <1>2, <1>3, <1>5, <1>6, WatchesSides DEF CheckInv

\* The heart of it.  Two reads that agree have seen everything of ours: what the broker held is
\* our open trades and the excess.
LEMMA AgreeingReads ==
  ASSUME CheckInv, check.step = "answered", ~Skip(check.before, Exposure(check.past))
  PROVE  OpenTrades \subseteq check.held /\ (check.excess <=> check.held # OpenTrades)
<1> DEFINE after == Exposure(check.past)
<1>0. SidesTyped /\ SidesOK /\ check \in CheckRows /\ ReadOK /\ HeldOK
  BY DEF CheckInv
<1>1. /\ check.past \in SUBSET Intents /\ check.before.counted \subseteq Intents
      /\ check.held \subseteq AllTrades
  BY <1>0 DEF CheckRows, Exposures
<1>2. /\ after.open = OpenTrades /\ after.counted = Counted(check.past)
      /\ after.unresolved = Unresolved /\ after.pending = SettlementPending
  BY <1>1, ExposureTyped
<1> HIDE DEF after
<1>3. /\ ~check.before.unresolved /\ ~Unresolved /\ ~SettlementPending
      /\ Cardinality(check.before.counted) = Cardinality(Counted(check.past))
      /\ check.before.open = OpenTrades
  BY <1>2 DEF Skip, SameTrades, after
<1>4. {i \in Intents : intent[i] # "none"} \subseteq Known
  <2>1. IsFiniteSet(Counted(check.past))
    <3>1. Counted(check.past) \subseteq Intents \cup Foreign
      BY DEF Counted
    <3>2. QED
      BY <3>1, CheckAssumption, FS_Subset DEF CheckAssumption
  <2>2. check.before.counted \subseteq Counted(check.past)
    BY <1>0, <1>1 DEF ReadOK, KnownOK, Known, Counted
  <2>3. Counted(check.past) = check.before.counted
    BY <1>3, <2>1, <2>2, FS_Subset
  <2>4. QED
    BY <2>3 DEF Counted, Known
<1>5. \A t \in check.held : t \notin OpenTrades => check.excess
  BY <1>0, <1>1, <1>3, <1>4 DEF HeldOK, AllTrades
<1>6. check.excess => \E t \in check.held : t \notin OpenTrades
  <2>1. \A t \in OpenTrades : t \in Intents /\ intent[t] = "accepted"
    BY <1>0 DEF SidesOK, SideOK, OpenTrades
  <2>2. QED
    BY <1>0, <2>1, CheckAssumption DEF HeldOK, CheckAssumption
<1>7. OpenTrades \subseteq check.held
  <2>1. \A i \in OpenTrades : i \notin due /\ i \in Intents
    BY <1>3 DEF SettlementPending, OpenTrades
  <2>2. \A i \in OpenTrades : broker[i] # "closed"
    BY <1>0, <2>1 DEF SidesOK, SideOK
  <2>3. QED
    BY <1>0, <1>3, <2>2 DEF HeldOK
<1>8. QED
  BY <1>5, <1>6, <1>7

LEMMA CompareKeeps == ASSUME CheckInv, Compare PROVE CheckInv'
<1> DEFINE after == Exposure(check.past)
           new == [check EXCEPT !.step = "ended", !.ending = Ending(after)]
<1>0. check \in CheckRows /\ check.step = "answered"
  BY DEF CheckInv, Compare
<1>1. check' = new /\ Watches
  BY DEF Compare, Watches
<1>2. Ending(after) \in {"aborted", "not_compared", "mismatch", "compared"}
  BY DEF Ending
<1>3. /\ new \in CheckRows /\ new.step = "ended" /\ new.ending = Ending(after)
      /\ new.excess = check.excess
  <2> HIDE DEF after
  <2> QED
    BY <1>0, <1>2 DEF CheckRows, Steps, Endings
<1> HIDE DEF new
<1>4. after.open = OpenTrades
  BY <1>0, ExposureTyped DEF CheckRows
<1>5. IsFiniteSet(check.held) /\ IsFiniteSet(OpenTrades)
  <2>1. check.held \subseteq Intents \cup Foreign /\ OpenTrades \subseteq Intents \cup Foreign
    BY <1>0 DEF CheckRows, AllTrades, OpenTrades
  <2>2. QED
    BY <2>1, CheckAssumption, FS_Subset DEF CheckAssumption
<1>6. Ending(after) = "mismatch" => check.excess
  <2> SUFFICES ASSUME Ending(after) = "mismatch" PROVE check.held # OpenTrades
    BY <1>0, AgreeingReads DEF Ending
  <2>1. Cardinality(check.held) > Cardinality(OpenTrades) /\ Cardinality(OpenTrades) \in Nat
    BY <1>4, <1>5, FS_CardinalityType DEF Ending
  <2>2. QED
    BY <2>1
<1>7. Ending(after) = "compared" => ~check.excess
  <2> SUFFICES ASSUME Ending(after) = "compared", check.excess PROVE FALSE
    OBVIOUS
  <2>1. /\ ~(Cardinality(check.held) > Cardinality(OpenTrades))
        /\ OpenTrades \subseteq check.held /\ check.held # OpenTrades
    BY <1>0, <1>4, AgreeingReads DEF Ending
  <2>2. Cardinality(OpenTrades) < Cardinality(check.held)
    BY <1>5, <2>1, FS_Subset, FS_CardinalityType
  <2>3. QED
    BY <1>5, <2>1, <2>2, FS_CardinalityType
<1> HIDE DEF after
<1>8. EndedOK'
  BY <1>1, <1>3, <1>6, <1>7 DEF EndedOK, NoFalseAlarm, CleanIsClean
<1>9. QED
  BY <1>1, <1>3, <1>8, WatchesSides DEF CheckInv

LEMMA CheckSteps == ASSUME CheckInv, [Next]_vars PROVE CheckInv'
<1>1. CASE UNCHANGED vars
  BY <1>1 DEF vars, CheckInv, SidesTyped, SidesOK, EndedOK, NoFalseAlarm, CleanIsClean, ReadOK, KnownOK,
              HeldOK, Known
<1>2. QED
  BY <1>1, IntentMoves, TradeMoves, BeginKeeps, AskKeeps, FailsKeeps, AbortKeeps, CompareKeeps
     DEF Next, AllTrades

\* An alarm of the balance check says that the broker held a trade no row of ours stands for, and a
\* clean check that it held none, whatever of ours was created, opened or settled around the GET.
THEOREM AlarmsStayTrue == Spec => []AlarmsAreTrue
<1>1. CheckInv => AlarmsAreTrue
  <2> SUFFICES ASSUME CheckInv PROVE AlarmsAreTrue
    OBVIOUS
  <2>1. CheckTypeOK
    BY DEF CheckInv, CheckTypeOK, SidesTyped, SidesOK, SideOK, CheckRows
  <2>2. QED
    BY <2>1 DEF CheckInv, EndedOK, AlarmsAreTrue
<1>2. CheckInv /\ [Next]_vars => CheckInv'
  BY CheckSteps
<1>3. QED
  BY <1>1, <1>2, CheckInits, PTL DEF Spec

-----------------------------------------------------------------------------
(* The balance row *)

Events == [kind : {"user_data", "update_balance", "close_trade"}, ver : Nat]

\* Nothing anyone holds is ahead of the broker.
RowTyped ==
  /\ at \in 1..MaxChanges /\ close \in 0..at
  /\ row \in [exists : BOOLEAN, ver : 0..at, writer : Writers, current : BOOLEAN]
  /\ row.exists \/ row = NoRow
  /\ flight \in [step : {"idle", "answered"}, ver : 0..at]
  /\ rowCheck \in [step : {"idle", "read", "answered"}, ver : 0..at, event : BOOLEAN]
  /\ queue \in Seq(Events)
  /\ \A n \in 1..Len(queue) : queue[n].ver <= at

FromEvent == row.writer \in {"user_data", "update_balance"}

\* An event's amounts an answered check has not heard of are from before its answer.
AnswerIsNewer == rowCheck.step = "answered" /\ ~rowCheck.event /\ FromEvent => row.ver <= rowCheck.ver

RowInv == RowTyped /\ AnswerIsNewer

LEMMA RowInits == RowAssumption /\ RowInit => RowInv
BY DEF RowAssumption, RowInit, RowInv, RowTyped, AnswerIsNewer, FromEvent, NoRow, NoAsk, NoRowCheck, Writers,
       Events

\* What stays in a queue that loses events at either end, or gains some.
LEMMA QueueTail ==
  ASSUME RowTyped, queue # <<>>
  PROVE  /\ Head(queue) \in Events /\ Head(queue).ver <= at
         /\ Tail(queue) \in Seq(Events) /\ \A n \in 1..Len(Tail(queue)) : Tail(queue)[n].ver <= at
BY DEF RowTyped
LEMMA QueueFront ==
  ASSUME RowTyped, NEW n \in 0..Len(queue)
  PROVE  /\ SubSeq(queue, 1, n) \in Seq(Events)
         /\ \A k \in 1..Len(SubSeq(queue, 1, n)) : SubSeq(queue, 1, n)[k].ver <= at
BY DEF RowTyped
LEMMA QueueMore ==
  ASSUME RowTyped, NEW more \in Seq(Events), NEW top \in Nat, at <= top,
         \A n \in 1..Len(more) : more[n].ver <= top
  PROVE  /\ queue \o more \in Seq(Events)
         /\ \A n \in 1..Len(queue \o more) : (queue \o more)[n].ver <= top
<1>1. queue \in Seq(Events) /\ at \in Nat
  BY DEF RowTyped
<1>2. ASSUME NEW n \in 1..Len(queue \o more) PROVE (queue \o more)[n].ver <= top
  <2>1. CASE n <= Len(queue)
    <3>1. (queue \o more)[n] = queue[n] /\ n \in 1..Len(queue)
      BY <1>1, <2>1
    <3>2. queue[n] \in Events /\ queue[n].ver <= at
      BY <1>1, <3>1 DEF RowTyped
    <3>3. QED
      BY <1>1, <3>1, <3>2 DEF Events
  <2>2. CASE n > Len(queue)
    <3>1. (queue \o more)[n] = more[n - Len(queue)] /\ n - Len(queue) \in 1..Len(more)
      BY <1>1, <2>2
    <3>2. QED
      BY <3>1
  <2>3. QED
    BY <1>1, <2>1, <2>2
<1>3. QED
  BY <1>1, <1>2

LEMMA OneIsSeq ==
  ASSUME NEW a \in Events, NEW top \in Nat, a.ver <= top
  PROVE  <<a>> \in Seq(Events) /\ \A n \in 1..Len(<<a>>) : <<a>>[n].ver <= top
OBVIOUS
LEMMA TwoAreSeq ==
  ASSUME NEW a \in Events, NEW b \in Events, NEW top \in Nat, a.ver <= top, b.ver <= top
  PROVE  <<a, b>> \in Seq(Events) /\ \A n \in 1..Len(<<a, b>>) : <<a, b>>[n].ver <= top
<1>1. \A n \in 1..Len(<<a, b>>) : n = 1 \/ n = 2
  OBVIOUS
<1>2. QED
  BY <1>1

\* The broker's version only grows, so what was not ahead of it stays so.
LEMMA Later ==
  ASSUME RowTyped, NEW more \in Seq(Events), at + 1 <= MaxChanges, at' = at + 1,
         \A n \in 1..Len(more) : more[n].ver <= at + 1,
         queue' = Heard(more), row' = row, flight' = flight, rowCheck' = rowCheck,
         close' \in {close, at + 1}, RowAssumption
  PROVE  RowTyped'
<1>1. at \in Nat /\ at >= 1 /\ MaxChanges \in Nat /\ close \in 0..at
  BY DEF RowTyped, RowAssumption
<1>2. at' \in 1..MaxChanges /\ close' \in 0..at' /\ 0..at \subseteq 0..at'
  BY <1>1
<1>3. queue' \in Seq(Events) /\ \A n \in 1..Len(queue') : queue'[n].ver <= at'
  <2>1. CASE linked
    <3>1. queue' = queue \o more
      BY <2>1 DEF Heard
    <3>2. at + 1 \in Nat /\ at <= at + 1
      BY <1>1
    <3>3. QED
      BY <3>1, <3>2, QueueMore
  <2>2. CASE ~linked
    <3>1. queue' = queue /\ queue \in Seq(Events)
      BY <2>2 DEF Heard, RowTyped
    <3>2. ASSUME NEW n \in 1..Len(queue) PROVE queue[n].ver <= at'
      <4>1. queue[n] \in Events /\ queue[n].ver <= at
        BY <3>1 DEF RowTyped
      <4>2. QED
        BY <1>1, <4>1 DEF Events
    <3>3. QED
      BY <3>1, <3>2
  <2>3. QED
    BY <2>1, <2>2
<1>4. QED
  BY <1>2, <1>3 DEF RowTyped

LEMMA BrokerMoves == ASSUME RowAssumption, RowInv, Changes \/ RowCloses PROVE RowInv'
<1> DEFINE balance == [kind |-> "update_balance", ver |-> at + 1]
           closed == [kind |-> "close_trade", ver |-> at + 1]
<1>0. RowTyped /\ at \in Nat /\ MaxChanges \in Nat
  BY DEF RowInv, RowTyped, RowAssumption
<1>1. /\ at < MaxChanges /\ at' = at + 1 /\ row' = row /\ flight' = flight /\ rowCheck' = rowCheck
      /\ close' \in {close, at + 1}
  BY DEF Changes, RowCloses
<1>2. balance \in Events /\ closed \in Events /\ balance.ver = at + 1 /\ closed.ver = at + 1
  BY <1>0 DEF Events
<1>3. queue' = Heard(<<balance>>) \/ queue' = Heard(<<balance, closed>>) \/ queue' = Heard(<<closed, balance>>)
  BY DEF Changes, RowCloses
<1> HIDE DEF balance, closed
<1>4. \A more \in {<<balance>>, <<balance, closed>>, <<closed, balance>>} :
        more \in Seq(Events) /\ \A n \in 1..Len(more) : more[n].ver <= at + 1
  <2>1. <<balance>> \in Seq(Events) /\ \A n \in 1..Len(<<balance>>) : <<balance>>[n].ver <= at + 1
    BY <1>0, <1>2, OneIsSeq
  <2>2. \A a, b \in {balance, closed} :
          <<a, b>> \in Seq(Events) /\ \A n \in 1..Len(<<a, b>>) : <<a, b>>[n].ver <= at + 1
    BY <1>0, <1>2, TwoAreSeq
  <2>3. QED
    BY <2>1, <2>2
<1>5. at + 1 <= MaxChanges
  BY <1>0, <1>1
<1>6. RowTyped'
  BY <1>0, <1>1, <1>3, <1>4, <1>5, Later
<1>7. QED
  BY <1>1, <1>6 DEF RowInv, AnswerIsNewer, FromEvent

LEMMA LinkMoves == ASSUME RowInv, Link \/ Unlink PROVE RowInv'
<1>0. RowTyped /\ at \in Nat
  BY DEF RowInv, RowTyped
<1>1. at' = at /\ close' = close /\ row' = row /\ flight' = flight /\ rowCheck' = rowCheck
  BY DEF Link, Unlink
<1>2. queue' \in Seq(Events) /\ \A n \in 1..Len(queue') : queue'[n].ver <= at
  <2>1. CASE Link
    <3> DEFINE event == [kind |-> "user_data", ver |-> at]
    <3>1. event \in Events /\ event.ver = at
      BY <1>0 DEF Events
    <3>2. queue' = queue \o <<event>> /\ queue \in Seq(Events)
      BY <1>0, <2>1 DEF Link, RowTyped
    <3> HIDE DEF event
    <3> DEFINE more == <<event>>
    <3>3. more \in Seq(Events) /\ \A n \in 1..Len(more) : more[n].ver <= at
      BY <1>0, <3>1, OneIsSeq
    <3>4. queue' = queue \o more /\ at <= at
      BY <1>0, <3>2
    <3> HIDE DEF more
    <3>5. QED
      BY <1>0, <3>3, <3>4, QueueMore
  <2>2. CASE Unlink
    BY <1>0, <2>2, QueueFront DEF Unlink
  <2>3. QED
    BY <2>1, <2>2
<1>3. QED
  BY <1>0, <1>1, <1>2 DEF RowInv, RowTyped, AnswerIsNewer, FromEvent

LEMMA WrittenIs ==
  ASSUME NEW n \in 0..at, NEW w \in Writers
  PROVE  /\ Written(n, w) \in [exists : BOOLEAN, ver : 0..at, writer : Writers, current : BOOLEAN]
         /\ Written(n, w).exists /\ Written(n, w).ver = n /\ Written(n, w).writer = w
BY DEF Written

LEMMA SettledIs ==
  ASSUME RowTyped
  PROVE  /\ Settled \in [exists : BOOLEAN, ver : 0..at, writer : Writers, current : BOOLEAN]
         /\ Settled.exists = row.exists /\ Settled.ver = row.ver /\ Settled.writer = row.writer
         /\ Settled.exists \/ Settled = NoRow
<1>1. CASE row = NoRow
  BY <1>1 DEF RowTyped, Settled, NoRow, Writers
<1>2. CASE row.exists
  BY <1>2 DEF RowTyped, Settled
<1>3. QED
  BY <1>1, <1>2 DEF RowTyped

LEMMA HeadMoves == ASSUME RowInv, WriteHead PROVE RowInv'
<1> DEFINE event == Head(queue)
<1>0. RowTyped /\ AnswerIsNewer
  BY DEF RowInv
<1>1. /\ event \in Events /\ event.ver <= at /\ at \in Nat
      /\ Tail(queue) \in Seq(Events) /\ \A n \in 1..Len(Tail(queue)) : Tail(queue)[n].ver <= at
  BY <1>0, QueueTail DEF WriteHead, RowTyped
<1>2. at' = at /\ close' = close /\ flight' = flight /\ queue' = Tail(queue)
  BY DEF WriteHead
<1>3. event.ver \in 0..at /\ event.kind \in {"user_data", "update_balance", "close_trade"}
  BY <1>1 DEF Events
<1>4. CASE event.kind = "close_trade"
  <2>1. rowCheck' = rowCheck /\ row' \in {Settled, row}
    BY <1>4 DEF WriteHead
  <2>2. /\ row' \in [exists : BOOLEAN, ver : 0..at, writer : Writers, current : BOOLEAN]
        /\ row'.ver = row.ver /\ row'.writer = row.writer /\ (row'.exists \/ row' = NoRow)
    BY <1>0, <2>1, SettledIs DEF RowTyped
  <2>3. QED
    BY <1>0, <1>1, <1>2, <2>1, <2>2 DEF RowInv, RowTyped, AnswerIsNewer, FromEvent
<1>5. CASE event.kind # "close_trade"
  <2> DEFINE heard == row.exists \/ event.kind = "user_data"
  <2>1. /\ row' = IF heard THEN Written(event.ver, event.kind) ELSE row
        /\ rowCheck' = [rowCheck EXCEPT !.event = heard]
    BY <1>5 DEF WriteHead
  <2>2. /\ event.kind \in Writers
        /\ Written(event.ver, event.kind) \in [exists : BOOLEAN, ver : 0..at, writer : Writers, current : BOOLEAN]
        /\ Written(event.ver, event.kind).exists
    BY <1>3, <1>5, WrittenIs DEF Writers
  <2>3. rowCheck' \in [step : {"idle", "read", "answered"}, ver : 0..at, event : BOOLEAN] /\ rowCheck'.event = heard
    BY <1>0, <2>1 DEF RowTyped
  <2>4. /\ row' \in [exists : BOOLEAN, ver : 0..at, writer : Writers, current : BOOLEAN]
        /\ row'.exists \/ row' = NoRow
    BY <1>0, <2>1, <2>2 DEF RowTyped
  <2>5. AnswerIsNewer'
    BY <1>0, <2>1, <2>3 DEF RowTyped, AnswerIsNewer, FromEvent, NoRow
  <2>6. QED
    BY <1>0, <1>1, <1>2, <2>3, <2>4, <2>5 DEF RowInv, RowTyped
<1>6. QED
  BY <1>4, <1>5

LEMMA WriteFailsMoves == ASSUME RowInv, WriteFails PROVE RowInv'
<1>1. RowTyped /\ queue # <<>>
  BY DEF RowInv, WriteFails
<1>2. QED
  BY <1>1, QueueTail DEF RowInv, RowTyped, AnswerIsNewer, FromEvent, WriteFails

LEMMA OthersMove ==
  ASSUME RowInv, CatchUp \/ RefreshAsks \/ RefreshWrites \/ RefreshFails
  PROVE  RowInv'
<1>0. RowTyped /\ AnswerIsNewer /\ at \in Nat
  BY DEF RowInv, RowTyped
<1>1. CASE CatchUp
  BY <1>0, <1>1, SettledIs DEF CatchUp, RowInv, RowTyped, AnswerIsNewer, FromEvent
<1>2. CASE RefreshAsks
  BY <1>0, <1>2 DEF RefreshAsks, RowInv, RowTyped, AnswerIsNewer, FromEvent
<1>3. CASE RefreshWrites
  BY <1>0, <1>3, WrittenIs
     DEF RefreshWrites, RefreshRow, RowInv, RowTyped, AnswerIsNewer, FromEvent, Writers, NoAsk
<1>4. CASE RefreshFails
  BY <1>0, <1>4 DEF RefreshFails, RowInv, RowTyped, AnswerIsNewer, FromEvent, NoAsk
<1>5. QED
  BY <1>1, <1>2, <1>3, <1>4

\* What the check writes, and that it is not older than an event's amounts.
LEMMA CheckMoves ==
  ASSUME RowInv, CheckReads \/ CheckAsks \/ CheckWrites \/ CheckEnds
  PROVE  RowInv'
<1>0. RowTyped /\ AnswerIsNewer /\ at \in Nat
  BY DEF RowInv, RowTyped
<1>1. CASE CheckReads
  BY <1>0, <1>1 DEF CheckReads, RowInv, RowTyped, AnswerIsNewer, FromEvent
<1>2. CASE CheckAsks
  <2>1. row.ver <= at
    BY <1>0 DEF RowTyped
  <2>2. /\ rowCheck' \in [step : {"idle", "read", "answered"}, ver : 0..at, event : BOOLEAN]
        /\ rowCheck'.ver = at
    <3>1. at \in 0..at
      BY <1>0
    <3>2. rowCheck' = [rowCheck EXCEPT !.step = "answered", !.ver = at]
      BY <1>2 DEF CheckAsks
    <3>3. QED
      BY <1>0, <3>1, <3>2 DEF RowTyped
  <2>3. QED
    BY <1>0, <1>2, <2>1, <2>2 DEF CheckAsks, RowInv, RowTyped, AnswerIsNewer, FromEvent
<1>3. CASE CheckWrites
  <2>1. /\ CheckRow \in [exists : BOOLEAN, ver : 0..at, writer : Writers, current : BOOLEAN]
        /\ CheckRow.exists
    BY <1>0, WrittenIs DEF CheckRow, RowTyped, Writers
  <2>2. QED
    BY <1>0, <1>3, <2>1 DEF CheckWrites, RowInv, RowTyped, AnswerIsNewer, FromEvent, NoRowCheck
<1>4. CASE CheckEnds
  BY <1>0, <1>4 DEF CheckEnds, RowInv, RowTyped, AnswerIsNewer, FromEvent, NoRowCheck
<1>5. QED
  BY <1>1, <1>2, <1>3, <1>4

LEMMA RowSteps == ASSUME RowAssumption, RowInv, [RowNext]_rowVars PROVE RowInv'
<1>1. CASE UNCHANGED rowVars
  BY <1>1 DEF rowVars, RowInv, RowTyped, AnswerIsNewer, FromEvent
<1>2. QED
  BY <1>1, BrokerMoves, LinkMoves, HeadMoves, WriteFailsMoves, OthersMove, CheckMoves DEF RowNext

\* A check that ends has left the amounts, or has put newer ones.
EventsStay ==
  rowCheck.step = "answered" /\ rowCheck'.step = "idle" /\ FromEvent => row'.ver >= row.ver

LEMMA StepKeepsEvents == ASSUME RowInv, [RowNext]_rowVars PROVE EventsStay
<1> SUFFICES ASSUME rowCheck.step = "answered", rowCheck'.step = "idle", FromEvent PROVE row'.ver >= row.ver
  BY DEF EventsStay
<1>0. RowTyped /\ AnswerIsNewer /\ row.ver \in Nat
  BY DEF RowInv, RowTyped
<1>1. CASE CheckWrites
  <2>1. row' = CheckRow
    BY <1>1 DEF CheckWrites
  <2>2. CheckRow.ver = row.ver \/ (~rowCheck.event /\ CheckRow.ver = rowCheck.ver)
    BY <1>0 DEF CheckRow, RowTyped, Written, NoRow, FromEvent
  <2>3. QED
    BY <1>0, <2>1, <2>2 DEF AnswerIsNewer, RowTyped
<1>2. CASE CheckEnds
  BY <1>0, <1>2 DEF CheckEnds
<1>3. CASE WriteHead
  <2>1. rowCheck'.step = rowCheck.step
    BY <1>0, <1>3 DEF WriteHead, RowTyped
  <2>2. QED
    BY <2>1
<1>4. CASE CheckReads \/ CheckAsks
  BY <1>0, <1>4 DEF CheckReads, CheckAsks, RowTyped
<1>5. QED
  BY <1>1, <1>2, <1>3, <1>4
     DEF RowNext, rowVars, Changes, RowCloses, Link, Unlink, WriteFails, CatchUp, RefreshAsks,
         RefreshWrites, RefreshFails

\* The balance row is well formed, and the check's answer never replaces amounts of a socket event
\* that are newer than it, for any number of connections, changes and failed calls.
THEOREM RowStaysSafe == RowAssumption /\ RowSpec => RowSafe
<1> SUFFICES ASSUME RowAssumption PROVE RowSpec => RowSafe
  OBVIOUS
<1>1. RowInit => RowInv
  BY RowInits
<1>2. RowInv /\ [RowNext]_rowVars => RowInv'
  BY RowSteps
<1>3. RowInv => RowTypeOK
  BY DEF RowInv, RowTyped, RowTypeOK
<1>4. RowInv /\ [RowNext]_rowVars => [EventsStay]_rowVars
  BY StepKeepsEvents
<1>5. EventsStay <=> ((rowCheck.step = "answered" /\ rowCheck'.step = "idle"
                        /\ row.writer \in {"user_data", "update_balance"}) => row'.ver >= row.ver)
  BY DEF EventsStay, FromEvent
<1>6. RowSpec => []RowTypeOK
  BY <1>1, <1>2, <1>3, PTL DEF RowSpec
<1>7. RowSpec => CheckKeepsEvents
  BY <1>1, <1>2, <1>4, <1>5, PTL DEF RowSpec, CheckKeepsEvents
<1>8. QED
  BY <1>6, <1>7 DEF RowSafe

-----------------------------------------------------------------------------
(* The pages of an unknown order *)

Reader == [seen : SUBSET Trades, prev : Seq(Trades), offset : Nat, pages : 0..MaxPages,
           covered : BOOLEAN, proof : BOOLEAN]
Attempts == [pc : {"idle", "reading", "deciding"}, list : {1, 2}, read : [{1, 2} -> Reader],
             over : BOOLEAN, before : SUBSET Trades, smooth : BOOLEAN]

PagesTyped ==
  /\ book \in [Trades -> Places] /\ gap \in 0..MaxGap /\ over \in BOOLEAN
  /\ rec \in Attempts /\ age \in 0..Retry /\ absent \in BOOLEAN
  /\ answer \in Answers /\ pagesFaults \in 0..MaxPagesFaults

\* A reader that goes on: what it has read ends with its last page, and two trades of a page show
\* that the list is newest first.
Progress(r) ==
  /\ r.pages < MaxPages /\ ~r.covered /\ ~r.proof
  /\ r.prev = <<>> <=> r.pages = 0
  /\ r.prev = <<>> => r.offset = 0 /\ r.seen = {}
  /\ r.prev # <<>> => \A t \in r.seen : Last(r.prev) <= t
  /\ Len(r.prev) >= 2 => NewestFirst

\* A trade on the list was read, or is beyond what was.
Reached(t, r) == r.prev # <<>> => t \in r.seen \/ (Len(r.prev) >= 2 /\ t < Last(r.prev))

ReadingOK ==
  rec.pc = "reading" => Progress(rec.read[rec.list]) /\ (rec.list = 1 => rec.read[2] = Unread)

AttemptOK ==
  rec.pc # "idle" =>
    /\ rec.over => over
    /\ age <= Timeout /\ rec.before \subseteq Exists
    /\ rec.pc = "deciding" => rec.list = 2

OneMoves == \A t, u \in Trades : book[t] = "between" /\ book[u] = "between" => t = u

\* What the proof of one list says of the order's trade, and a second proof of both.
ProofOK ==
  rec.pc # "idle" /\ rec.over /\ rec.list = 2 /\ rec.read[1].proof /\ Ours \notin rec.read[1].seen =>
    /\ book[Ours] # "open"
    /\ rec.pc = "deciding" /\ rec.read[2].proof /\ Ours \notin rec.read[2].seen /\ absent =>
         book[Ours] = "none"

\* After a first proof the order's trade is nowhere, closed, or between the lists since then.
AbsentOK ==
  absent =>
    /\ over /\ book[Ours] # "open"
    /\ book[Ours] = "between" => rec.pc = "idle" /\ age <= gap + Timeout

\* What the first list showed, and the second of the trades the first did not show.
SmoothOK ==
  rec.pc # "idle" /\ rec.smooth =>
    /\ ~Moving
    /\ rec.list = 1 =>
         \A t \in rec.before : book[t] = "open" => Reached(t, rec.read[1])
    /\ rec.list = 2 /\ rec.read[1].covered =>
         \A t \in rec.before \cap Matching :
           t \in rec.read[1].seen \/
             /\ book[t] = "closed"
             /\ rec.pc = "reading" => Reached(t, rec.read[2])
             /\ rec.pc = "deciding" /\ rec.read[2].covered => t \in rec.read[2].seen

PagesInv ==
  /\ PagesTyped /\ OneMoves /\ ReadingOK /\ AttemptOK
  /\ ProofOK /\ AbsentOK /\ SmoothOK /\ ReleasedHasNoTrade

-----------------------------------------------------------------------------
\* The constants, as the steps use them.
LEMMA PagesNumbers ==
  /\ Trades \subseteq Nat /\ Matching \subseteq Trades /\ Ours \in Matching /\ Ours \in Trades
  /\ \A t \in Matching : t >= WindowStart
  /\ MaxPages \in Nat /\ MaxPages > 0 /\ WindowStart \in Nat
  /\ \A cap \in Caps : cap \in Nat /\ cap >= 1
  /\ MaxGap \in Nat /\ Retry \in Nat /\ Timeout \in Nat /\ MaxPagesFaults \in Nat
  /\ Timeout < Retry /\ MaxGap < Retry - Timeout
<1>1. Caps \subseteq 1..PageSize /\ PageSize \in Nat
  BY PagesAssumption
<1>2. \A cap \in Caps : cap \in Nat /\ cap >= 1
  BY <1>1
<1> QED
  BY <1>2, PagesAssumption

\* A list holds every trade of its status, in its order.
LEMMA ListIs ==
  ASSUME NEW status, NEW list \in BrokerLists(status)
  PROVE  /\ list \in Seq(Trades) /\ Len(list) \in Nat
         /\ \A i \in 1..Len(list) : list[i] \in Trades /\ book[list[i]] = status
         /\ \A t \in Trades : book[t] = status => \E i \in 1..Len(list) : list[i] = t
         /\ \A i, j \in 1..Len(list) :
              i < j => IF NewestFirst THEN list[i] > list[j] ELSE list[i] < list[j]
<1> DEFINE listed == {t \in Trades : book[t] = status}
           size == Cardinality(listed)
<1>1. /\ list \in [1..size -> listed]
      /\ \A i, j \in 1..size : i < j => IF NewestFirst THEN list[i] > list[j] ELSE list[i] < list[j]
  BY DEF BrokerLists
<1>2. IsFiniteSet(listed) /\ size \in Nat
  <2>1. IsFiniteSet(listed)
    BY PagesAssumption, FS_Subset
  <2> QED
    BY <2>1, FS_CardinalityType
<1>3. listed \subseteq Trades /\ listed \subseteq Nat
  BY PagesNumbers
<1> HIDE DEF size
<1>4. list \in Seq(Trades) /\ Len(list) = size
  <2>1. list \in Seq(listed) /\ Len(list) = size
    BY <1>1, <1>2
  <2> QED
    BY <1>1, <1>2, <1>3, <2>1
<1>5. \A i, j \in 1..size : list[i] = list[j] => i = j
  <2>1. ASSUME NEW i \in 1..size, NEW j \in 1..size, list[i] = list[j] PROVE i = j
    <3>1. list[i] \in Nat /\ list[j] \in Nat
      BY <1>1, <1>3
    <3>2. ~(i < j) /\ ~(j < i)
      BY <1>1, <2>1, <3>1
    <3> QED
      BY <1>2, <3>2
  <2> QED
    BY <2>1
<1>6. Cardinality(1..size) = size
  <2>1. Cardinality(1..size) = IF 1 > size THEN 0 ELSE size - 1 + 1
    BY <1>2, FS_Interval
  <2> QED
    BY <1>2, <2>1
<1>7. \A t \in listed : \E i \in 1..size : list[i] = t
  <2> DEFINE D == 1..size
  <2>1. list \in [D -> listed] /\ \A i, j \in D : list[i] = list[j] => i = j
    BY <1>1, <1>5
  <2>2. Cardinality(D) = Cardinality(listed)
    BY <1>6 DEF size
  <2> HIDE DEF D, listed
  <2>3. list \in Injection(D, listed)
    BY <2>1 DEF Injection, IsInjective
  <2>4. list \in Surjection(D, listed)
    BY <1>2, <2>2, <2>3, FS_Injection
  <2> QED
    BY <2>4 DEF Surjection, D
<1> QED
  BY <1>1, <1>2, <1>4, <1>7

-----------------------------------------------------------------------------
\* What a page shows of its list: a trade of the list that is not newer than the page's first is on
\* the page, or older than its last.
Shows(status, list, offset, items) ==
  /\ items \in Seq(Trades) /\ Len(items) \in Nat
  /\ \A i, j \in 1..Len(items) :
       i < j => IF NewestFirst THEN items[i] > items[j] ELSE items[i] < items[j]
  /\ offset = 0 /\ Len(items) = 0 => \A t \in Trades : book[t] # status
  /\ NewestFirst /\ Len(items) >= 1 =>
       \A t \in Trades : book[t] = status /\ (offset = 0 \/ t <= items[1]) =>
         t \in ToSet(items) \/ t < Last(items)
  /\ Len(items) = 1 /\ offset + 1 = Len(list) =>
       \A t \in Trades :
         book[t] = status /\ (offset = 0 \/ (NewestFirst /\ t <= items[1])) => t = items[1]

LEMMA PageShows ==
  ASSUME NEW status, NEW list \in BrokerLists(status), NEW offset \in Nat, NEW cap \in Caps,
         NEW items, items = PageAt(list, offset, cap)
  PROVE  Shows(status, list, offset, items)
<1> DEFINE n == Len(list)
           m == Len(items)
           end == IF offset + cap < n THEN offset + cap ELSE n
<1>1. /\ list \in Seq(Trades) /\ n \in Nat
      /\ \A i \in 1..n : list[i] \in Trades /\ book[list[i]] = status
      /\ \A t \in Trades : book[t] = status => \E i \in 1..n : list[i] = t
      /\ \A i, j \in 1..n : i < j => IF NewestFirst THEN list[i] > list[j] ELSE list[i] < list[j]
  BY ListIs
<1>2. cap \in Nat /\ cap >= 1
  BY PagesNumbers
<1>3. items = SubSeq(list, offset + 1, end)
  BY DEF PageAt
<1> HIDE DEF n, m
<1>4. end \in Nat /\ end <= n
  BY <1>1, <1>2
<1>5. /\ items \in Seq(Trades)
      /\ m = IF offset + 1 <= end THEN end - (offset + 1) + 1 ELSE 0
      /\ \A i \in 1..(end - (offset + 1) + 1) : items[i] = list[offset + 1 + i - 1]
  <2>1. offset + 1 \in Int /\ end \in Int /\ \A i \in (offset + 1)..end : list[i] \in Trades
    BY <1>1, <1>4
  <2> HIDE DEF end
  <2>2. /\ SubSeq(list, offset + 1, end) \in Seq(Trades)
        /\ Len(SubSeq(list, offset + 1, end)) = IF offset + 1 <= end THEN end - (offset + 1) + 1 ELSE 0
        /\ \A i \in 1..(end - (offset + 1) + 1) :
             SubSeq(list, offset + 1, end)[i] = list[offset + 1 + i - 1]
    BY <2>1, SubSeqProperties
  <2> QED
    BY <1>3, <2>2 DEF m
<1>6. /\ m \in Nat /\ (m > 0 => offset + m = end)
      /\ \A i \in 1..m : offset + i \in 1..n /\ items[i] = list[offset + i]
  <2> HIDE DEF end
  <2>1. CASE offset + 1 <= end
    <3>1. m = end - offset /\ m \in Nat /\ offset + m = end
      BY <1>4, <1>5, <2>1
    <3>2. ASSUME NEW i \in 1..m PROVE offset + i \in 1..n /\ items[i] = list[offset + i]
      <4>1. i \in 1..(end - (offset + 1) + 1) /\ offset + 1 + i - 1 = offset + i
        BY <1>4, <3>1
      <4>2. items[i] = list[offset + 1 + i - 1]
        BY <1>5, <4>1
      <4>3. offset + i \in 1..n
        BY <1>1, <1>4, <3>1
      <4> QED
        BY <4>1, <4>2, <4>3
    <3> QED
      BY <3>1, <3>2
  <2>2. CASE ~(offset + 1 <= end)
    <3>1. m = 0
      BY <1>5, <2>2
    <3> QED
      BY <3>1
  <2> QED
    BY <2>1, <2>2
<1>7. offset = 0 /\ m = 0 => n = 0
  BY <1>1, <1>2, <1>5
<1> HIDE DEF end
<1>8. \A i, j \in 1..m : i < j => IF NewestFirst THEN items[i] > items[j] ELSE items[i] < items[j]
  BY <1>1, <1>6
<1>9. offset = 0 /\ m = 0 => \A t \in Trades : book[t] # status
  BY <1>1, <1>7
<1>10. \A t \in Trades : t \in Nat
  BY PagesNumbers
<1>11. ASSUME NewestFirst, m >= 1, NEW t \in Trades, book[t] = status, offset = 0 \/ t <= items[1]
       PROVE  t \in ToSet(items) \/ t < Last(items)
  <2>1. PICK k \in 1..n : list[k] = t
    BY <1>1, <1>11
  <2>2. k >= offset + 1
    <3>1. CASE offset = 0
      BY <1>1, <3>1
    <3>2. CASE k < offset + 1
      <4>1. offset + 1 \in 1..n /\ items[1] = list[offset + 1]
        BY <1>6, <1>11
      <4>2. list[k] > list[offset + 1] \/ offset = 0
        BY <1>1, <1>11, <3>2, <4>1
      <4>3. items[1] \in Nat /\ t \in Nat
        BY <1>1, <1>10, <4>1
      <4> QED
        BY <1>1, <1>11, <2>1, <3>2, <4>1, <4>2, <4>3
    <3> QED
      BY <1>1, <3>1, <3>2
  <2>3. CASE k <= offset + m
    <3>1. k - offset \in 1..m /\ items[k - offset] = list[k]
      BY <1>1, <1>6, <2>2, <2>3
    <3>2. DOMAIN items = 1..m
      BY <1>5 DEF m
    <3> QED
      BY <2>1, <3>1, <3>2 DEF ToSet
  <2>4. CASE k > offset + m
    <3>1. offset + m \in 1..n /\ items[m] = list[offset + m]
      BY <1>6, <1>11
    <3>2. list[offset + m] > list[k]
      BY <1>1, <1>11, <2>4, <3>1
    <3>3. items[m] \in Nat /\ t \in Nat
      BY <1>1, <1>10, <3>1
    <3>4. Last(items) = items[m]
      BY DEF Last, m
    <3> QED
      BY <2>1, <3>1, <3>2, <3>3, <3>4
  <2> QED
    BY <1>1, <1>6, <2>3, <2>4
<1>12. ASSUME m = 1, offset + 1 = n, NEW t \in Trades, book[t] = status,
              offset = 0 \/ (NewestFirst /\ t <= items[1])
       PROVE  t = items[1]
  <2>1. PICK k \in 1..n : list[k] = t
    BY <1>1, <1>12
  <2>2. items[1] = list[n] /\ n \in 1..n
    BY <1>6, <1>12
  <2>3. CASE k = n
    BY <2>1, <2>2, <2>3
  <2>4. CASE k < n
    <3>1. NewestFirst /\ t <= items[1]
      BY <1>12, <2>4
    <3>2. list[k] > list[n]
      BY <1>1, <2>2, <2>4, <3>1
    <3>3. items[1] \in Nat /\ t \in Nat
      BY <1>1, <1>10, <2>2
    <3> QED
      BY <2>1, <2>2, <3>1, <3>2, <3>3
  <2> QED
    BY <1>1, <2>3, <2>4
<1> QED
  BY <1>5, <1>6, <1>8, <1>9, <1>11, <1>12 DEF m, n, Shows

-----------------------------------------------------------------------------
LEMMA LeastOf ==
  ASSUME NEW S, S \subseteq Nat, S # {}
  PROVE  \E n \in S : \A p \in S : n <= p
<1>1. PICK n \in S : \A p \in S : ~(<<p, n>> \in OpToRel(<, Nat))
  BY NatLessThanWellFounded, WFMin
<1>2. \A p \in S : ~(p < n)
  BY <1>1 DEF OpToRel
<1> QED
  BY <1>2

\* What an answer that is not refused makes of the reader.
Turned(r, items, res) ==
  /\ res[2] \in Reader
  /\ res[2].seen = r.seen \cup ToSet(items) /\ res[2].prev = items
  /\ res[2].pages = r.pages + 1
  /\ IF items = <<>> THEN Len(r.prev) < 2 ELSE PageHolds(r, items)
  /\ \/ /\ res[1] = "done" /\ res[2].covered = TRUE /\ res[2].proof = Proof(r, items)
        /\ items = <<>> \/ ToSet(items) \subseteq r.seen \/ \E t \in ToSet(items) : StopAt(t)
     \/ /\ res[1] = "done" /\ res[2].covered = r.covered /\ res[2].proof = r.proof
     \/ /\ res[1] = "again" /\ res[2].covered = r.covered /\ res[2].proof = r.proof
        /\ items # <<>> /\ ~(ToSet(items) \subseteq r.seen)
        /\ r.pages + 1 < MaxPages

LEMMA PageCases ==
  ASSUME NEW r \in Reader, r.pages < MaxPages, NEW items \in Seq(Trades),
         NEW res, res = PageRead(r, items), res[1] # "error"
  PROVE  Turned(r, items, res)
<1> DEFINE step == IF Len(items) >= 2 THEN Len(items) - 1 ELSE 1
           read == [r EXCEPT !.pages = @ + 1, !.seen = @ \cup ToSet(items), !.prev = items,
                             !.offset = @ + step]
           end == [read EXCEPT !.covered = TRUE, !.proof = Proof(r, items)]
<1>1. step \in Nat /\ ToSet(items) \subseteq Trades
  BY DEF ToSet
<1>2. MaxPages \in Nat /\ r.pages \in Nat
  BY PagesNumbers DEF Reader
<1>3. r.pages + 1 \in 0..MaxPages
  BY <1>2
<1>4. Proof(r, items) \in BOOLEAN
  BY <1>2 DEF Proof
<1> HIDE DEF step
<1>5. read \in Reader /\ end \in Reader
  <2>1. /\ r.pages + 1 \in 0..MaxPages /\ r.seen \cup ToSet(items) \in SUBSET Trades
        /\ r.offset + step \in Nat
    BY <1>1, <1>3 DEF Reader
  <2> HIDE DEF Proof
  <2>2. ASSUME NEW p \in 0..MaxPages, NEW seen \in SUBSET Trades, NEW o \in Nat, NEW b \in BOOLEAN
        PROVE  /\ [r EXCEPT !.pages = p, !.seen = seen, !.prev = items, !.offset = o] \in Reader
               /\ \A q \in Reader : [q EXCEPT !.covered = TRUE, !.proof = b] \in Reader
    BY DEF Reader
  <2>3. read = [r EXCEPT !.pages = r.pages + 1, !.seen = r.seen \cup ToSet(items), !.prev = items,
                         !.offset = r.offset + step]
    OBVIOUS
  <2>4. read \in Reader
    BY <2>1, <2>2, <2>3
  <2> HIDE DEF read
  <2> QED
    BY <1>4, <2>1, <2>2, <2>4
<1>6. /\ read.seen = r.seen \cup ToSet(items) /\ read.prev = items /\ read.pages = r.pages + 1
      /\ read.covered = r.covered /\ read.proof = r.proof
      /\ end.seen = r.seen \cup ToSet(items) /\ end.prev = items /\ end.pages = r.pages + 1
      /\ end.covered = TRUE /\ end.proof = Proof(r, items)
  BY DEF Reader
<1>7. res = IF items = <<>>
              THEN IF Len(r.prev) >= 2 THEN <<"error", r>> ELSE <<"done", end>>
            ELSE IF ~PageHolds(r, items) THEN <<"error", r>>
            ELSE IF ToSet(items) \subseteq r.seen \/ \E t \in ToSet(items) : StopAt(t) THEN <<"done", end>>
            ELSE IF LastPage(read) THEN <<"done", read>> ELSE <<"again", read>>
  BY DEF PageRead, step
<1>8. LastPage(read) <=> r.pages + 1 = MaxPages
  BY <1>6 DEF LastPage
<1>9. Len(r.prev) \in Nat
  BY DEF Reader
<1> HIDE DEF read, end
<1>10. CASE items = <<>>
  <2>1. Len(r.prev) < 2 /\ res = <<"done", end>>
    BY <1>7, <1>9, <1>10
  <2> QED
    BY <1>5, <1>6, <1>10, <2>1 DEF Turned
<1>11. CASE items # <<>> /\ (ToSet(items) \subseteq r.seen \/ \E t \in ToSet(items) : StopAt(t))
  <2>1. PageHolds(r, items) /\ res = <<"done", end>>
    BY <1>7, <1>11
  <2> QED
    BY <1>5, <1>6, <1>11, <2>1 DEF Turned
<1>12. CASE items # <<>> /\ ~(ToSet(items) \subseteq r.seen) /\ ~\E t \in ToSet(items) : StopAt(t)
  <2>1. PageHolds(r, items) /\ (res = <<"done", read>> \/ (res = <<"again", read>> /\ ~LastPage(read)))
    BY <1>7, <1>12
  <2>2. ~LastPage(read) => r.pages + 1 < MaxPages
    BY <1>2, <1>8
  <2> QED
    BY <1>5, <1>6, <1>12, <2>1, <2>2 DEF Turned
<1> QED
  BY <1>10, <1>11, <1>12

\* An accepted page of two trades shows that the list is newest first; its last trade is its oldest.
LEMMA PageOrder ==
  ASSUME NEW r, NEW items \in Seq(Trades), items # <<>>, PageHolds(r, items),
         \A i, j \in 1..Len(items) :
           i < j => IF NewestFirst THEN items[i] > items[j] ELSE items[i] < items[j]
  PROVE  /\ Len(items) \in Nat /\ Len(items) >= 1
         /\ items[1] \in ToSet(items) /\ Last(items) \in ToSet(items)
         /\ Len(items) = 1 => Last(items) = items[1] /\ ToSet(items) = {items[1]}
         /\ Len(items) >= 2 => NewestFirst
         /\ \A t \in ToSet(items) : Last(items) <= t
<1> DEFINE m == Len(items)
<1>1. m \in Nat /\ m >= 1 /\ DOMAIN items = 1..m /\ (\A i \in 1..m : items[i] \in Nat)
      /\ ToSet(items) = {items[i] : i \in 1..m}
  <2>1. m \in Nat /\ DOMAIN items = 1..m /\ items \in [1..m -> Trades]
    OBVIOUS
  <2>2. m # 0
    BY EmptySeq, <2>1
  <2>3. m >= 1
    BY <2>1, <2>2
  <2> QED
    BY <2>1, <2>3, PagesNumbers DEF ToSet
<1>2. Last(items) = items[m] /\ 1 \in 1..m /\ m \in 1..m
  BY <1>1 DEF Last
<1>3. \A k \in 2..m : items[k] <= items[k - 1]
  BY DEF PageHolds, Older
<1> HIDE DEF m
<1>4. ASSUME m >= 2 PROVE NewestFirst
  <2>1. 2 \in 2..m /\ 1 \in 1..m /\ 2 \in 1..m
    BY <1>1, <1>4
  <2>2. items[2] <= items[1]
    BY <1>3, <2>1
  <2>3. ~NewestFirst => items[1] < items[2]
    BY <2>1 DEF m
  <2> QED
    BY <1>1, <2>1, <2>2, <2>3
<1>5. ASSUME NEW i \in 1..m PROVE items[m] <= items[i]
  <2>1. CASE i = m
    BY <1>1, <2>1
  <2>2. CASE i < m
    <3>1. NewestFirst
      BY <1>1, <1>4, <2>2
    <3>2. items[i] > items[m]
      BY <1>1, <1>2, <2>2, <3>1 DEF m
    <3> QED
      BY <1>1, <1>2, <3>2
  <2> QED
    BY <1>1, <2>1, <2>2
<1>6. m = 1 => ToSet(items) = {items[1]}
  BY <1>1
<1>7. /\ items[1] \in ToSet(items) /\ Last(items) \in ToSet(items)
      /\ \A t \in ToSet(items) : Last(items) <= t
  BY <1>1, <1>2, <1>5
<1> QED
  BY <1>1, <1>2, <1>4, <1>6, <1>7 DEF m

-----------------------------------------------------------------------------
\* An accepted page starts and ends no later than what was read before it.
LEMMA PageFollows ==
  ASSUME NEW r \in Reader, Progress(r), r.prev # <<>>,
         NEW items \in Seq(Trades), items # <<>>, PageHolds(r, items),
         \A t \in ToSet(items) : Last(items) <= t
  PROVE  /\ Len(r.prev) >= 2 /\ items[1] \in r.seen /\ Last(r.prev) <= items[1]
         /\ ~(ToSet(items) \subseteq r.seen) => \A t \in r.seen : Last(items) <= t
<1> DEFINE m == Len(items)
           fresh == {k \in 1..m : items[k] \notin r.seen}
<1>1. Len(r.prev) # 1 /\ items[1] \in r.seen
  BY DEF PageHolds, Continuous
<1>2. \A t \in r.seen : Last(r.prev) <= t
  BY DEF Progress
<1>3. r.prev \in Seq(Trades) /\ r.seen \subseteq Trades
  BY DEF Reader
<1>4. Len(r.prev) \in Nat \ {0} /\ m \in Nat \ {0}
  BY <1>3, EmptySeq
<1>5. Last(r.prev) \in Nat
  <2>1. Last(r.prev) \in Trades
    BY <1>3, <1>4 DEF Last
  <2> QED
    BY <2>1, PagesNumbers
<1>6. items \in [1..m -> Trades] /\ DOMAIN items = 1..m
  BY <1>4
<1>7. ToSet(items) = {items[k] : k \in 1..m} /\ Last(items) = items[m]
  BY <1>6 DEF ToSet, Last
<1>8. ASSUME ~(ToSet(items) \subseteq r.seen), NEW t \in r.seen PROVE Last(items) <= t
  <2>1. fresh # {} /\ fresh \subseteq Nat
    BY <1>7, <1>8
  <2> HIDE DEF fresh
  <2>2. PICK k \in fresh : \A j \in fresh : k <= j
    BY <2>1, LeastOf
  <2>3. items[k] <= Last(r.prev)
    BY <2>2 DEF PageHolds, Older, fresh
  <2>4. k \in 1..m
    BY DEF fresh
  <2>5. Last(items) <= items[k] /\ items[k] \in Nat
    BY <1>6, <1>7, <2>4, PagesNumbers
  <2>6. Last(items) \in Nat /\ t \in Nat
    <3>1. m \in 1..m
      BY <1>4
    <3> QED
      BY <1>3, <1>6, <1>7, <3>1, PagesNumbers
  <2>7. Last(r.prev) <= t
    BY <1>2
  <2> QED
    BY <1>5, <2>3, <2>5, <2>6, <2>7
<1>9. Len(r.prev) >= 2
  <2>1. Len(r.prev) \in Nat /\ Len(r.prev) # 0 /\ Len(r.prev) # 1
    BY <1>1, <1>4
  <2>2. \A c \in Nat : c # 0 /\ c # 1 => c >= 2
    OBVIOUS
  <2> QED
    BY <2>1, <2>2
<1> QED
  BY <1>1, <1>2, <1>8, <1>9

\* A reader that goes on makes progress, and one that proves a list's end has read its window.
LEMMA PageTells ==
  ASSUME NEW status, NEW list \in BrokerLists(status), NEW offset \in Nat, NEW cap \in Caps,
         NEW r \in Reader, Progress(r), r.prev = <<>> => offset = 0,
         NEW items, items = PageAt(list, offset, cap),
         NEW res, res = PageRead(r, items), res[1] # "error"
  PROVE  /\ res[2] \in Reader
         /\ res[1] \in {"again", "done"}
         /\ res[1] = "again" => Progress(res[2])
         /\ res[1] = "done" /\ res[2].proof =>
              \A t \in Trades : book[t] = status /\ t >= WindowStart => t \in res[2].seen
<1>1. /\ items \in Seq(Trades) /\ Len(items) \in Nat
      /\ \A i, j \in 1..Len(items) :
           i < j => IF NewestFirst THEN items[i] > items[j] ELSE items[i] < items[j]
      /\ offset = 0 /\ Len(items) = 0 => \A t \in Trades : book[t] # status
      /\ NewestFirst /\ Len(items) >= 1 =>
           \A t \in Trades : book[t] = status /\ (offset = 0 \/ t <= items[1]) =>
             t \in ToSet(items) \/ t < Last(items)
  <2>1. Shows(status, list, offset, items)
    BY PageShows
  <2> QED
    BY <2>1 DEF Shows
<1>2. r.pages < MaxPages
  BY DEF Progress
<1>3. /\ res[2] \in Reader
      /\ res[2].seen = r.seen \cup ToSet(items) /\ res[2].prev = items
      /\ res[2].pages = r.pages + 1
      /\ IF items = <<>> THEN Len(r.prev) < 2 ELSE PageHolds(r, items)
      /\ \/ /\ res[1] = "done" /\ res[2].covered = TRUE /\ res[2].proof = Proof(r, items)
            /\ items = <<>> \/ ToSet(items) \subseteq r.seen \/ \E t \in ToSet(items) : StopAt(t)
         \/ /\ res[1] = "done" /\ res[2].covered = r.covered /\ res[2].proof = r.proof
         \/ /\ res[1] = "again" /\ res[2].covered = r.covered /\ res[2].proof = r.proof
            /\ items # <<>> /\ ~(ToSet(items) \subseteq r.seen)
            /\ r.pages + 1 < MaxPages
  <2>1. Turned(r, items, res)
    BY <1>1, <1>2, PageCases
  <2> QED
    BY <2>1 DEF Turned
<1>4. ~r.covered /\ ~r.proof
  BY DEF Progress
<1>5. items # <<>> =>
        /\ Len(items) >= 1
        /\ items[1] \in ToSet(items) /\ Last(items) \in ToSet(items)
        /\ Len(items) = 1 => Last(items) = items[1] /\ ToSet(items) = {items[1]}
        /\ Len(items) >= 2 => NewestFirst
        /\ \A t \in ToSet(items) : Last(items) <= t
  BY <1>1, <1>3, PageOrder
<1>6. r.pages \in Nat
  BY <1>2 DEF Reader
<1>7. ASSUME res[1] = "again" PROVE Progress(res[2])
  <2>1. items # <<>> /\ ~(ToSet(items) \subseteq r.seen) /\ r.pages + 1 < MaxPages
        /\ res[2].covered = r.covered /\ res[2].proof = r.proof
    BY <1>3, <1>7
  <2>2. PageHolds(r, items)
    BY <1>3, <2>1
  <2>3. r.pages + 1 # 0
    BY <1>6
  <2>4. \A t \in r.seen \cup ToSet(items) : Last(items) <= t
    <3>1. CASE r.prev = <<>>
      BY <1>5, <2>1, <3>1 DEF Progress
    <3>2. CASE r.prev # <<>>
      <4>1. \A t \in r.seen : Last(items) <= t
        BY <1>1, <1>5, <2>1, <2>2, <3>2, PageFollows
      <4> QED
        BY <1>5, <2>1, <4>1
    <3> QED
      BY <3>1, <3>2
  <2> QED
    BY <1>3, <1>4, <1>5, <2>1, <2>3, <2>4 DEF Progress
<1>8. ASSUME res[1] = "done", res[2].proof, NEW t \in Trades, book[t] = status, t >= WindowStart
      PROVE  t \in res[2].seen
  <2>1. /\ Proof(r, items)
        /\ items = <<>> \/ ToSet(items) \subseteq r.seen \/ \E u \in ToSet(items) : StopAt(u)
    BY <1>3, <1>4, <1>8
  <2>2. r.prev = <<>> /\ r.seen = {} /\ offset = 0
    BY <2>1 DEF Proof, Progress
  <2>3. items # <<>>
    BY <1>1, <1>8, <2>2, EmptySeq
  <2>4. items[1] > Last(items)
    BY <2>1, <2>3 DEF Proof
  <2>5. ToSet(items) \subseteq Nat
    <3>1. DOMAIN items = 1..Len(items) /\ items \in [1..Len(items) -> Trades]
      BY <1>1
    <3> QED
      BY <3>1, PagesNumbers DEF ToSet
  <2>6. items[1] \in Nat /\ Last(items) \in Nat
    BY <1>5, <2>3, <2>5
  <2>7. NewestFirst
    <3>1. Len(items) # 1
      BY <1>5, <2>3, <2>4, <2>6
    <3> QED
      <4>1. Len(items) >= 1 /\ Len(items) \in Nat
        BY <1>1, <1>5, <2>3
      <4>2. \A c \in Nat : c >= 1 /\ c # 1 => c >= 2
        OBVIOUS
      <4> QED
        BY <1>5, <2>3, <3>1, <4>1, <4>2
  <2>8. t \in ToSet(items) \/ t < Last(items)
    BY <1>1, <1>5, <1>8, <2>2, <2>3, <2>7
  <2>9. PICK u \in ToSet(items) : u < WindowStart
    BY <1>5, <2>1, <2>2, <2>3 DEF StopAt
  <2>10. Last(items) <= u
    BY <1>5, <2>3
  <2>11. ~(t < Last(items))
    <3>1. u \in Nat /\ t \in Nat /\ WindowStart \in Nat
      BY <2>5, PagesNumbers
    <3> QED
      BY <1>8, <2>6, <2>9, <2>10, <3>1
  <2> QED
    BY <1>3, <2>8, <2>11
<1> QED
  BY <1>3, <1>7, <1>8

\* A page that is not cut to one trade reaches a trade of the list, which a reader that covers the
\* window has then seen.
LEMMA PageReaches ==
  ASSUME NEW status, NEW list \in BrokerLists(status), NEW offset \in Nat, NEW cap \in Caps,
         NEW r \in Reader, Progress(r), r.prev = <<>> => offset = 0,
         NEW items, items = PageAt(list, offset, cap),
         NEW res, res = PageRead(r, items), res[1] # "error",
         Len(items) = 1 => offset + 1 = Len(list),
         NEW t \in Trades, book[t] = status, Reached(t, r)
  PROVE  /\ res[1] = "again" => Reached(t, res[2])
         /\ res[1] = "done" /\ res[2].covered /\ t >= WindowStart => t \in res[2].seen
<1>1. Shows(status, list, offset, items)
  BY PageShows
<1>2. r.pages < MaxPages /\ ~r.covered /\ ~r.proof
  BY DEF Progress
<1>3. items \in Seq(Trades) /\ Len(items) \in Nat
  BY <1>1 DEF Shows
<1>4. Turned(r, items, res)
  BY <1>2, <1>3, PageCases
<1>5. /\ res[2].seen = r.seen \cup ToSet(items) /\ res[2].prev = items
      /\ items # <<>> => PageHolds(r, items)
      /\ items = <<>> => Len(r.prev) < 2
      /\ res[1] = "again" => items # <<>> /\ ~(ToSet(items) \subseteq r.seen)
      /\ res[1] = "done" /\ res[2].covered /\ items # <<>> =>
           ToSet(items) \subseteq r.seen \/ \E u \in ToSet(items) : StopAt(u)
  BY <1>2, <1>4 DEF Turned
<1>6. items # <<>> =>
        /\ Len(items) >= 1
        /\ items[1] \in ToSet(items) /\ Last(items) \in ToSet(items)
        /\ Len(items) = 1 => Last(items) = items[1] /\ ToSet(items) = {items[1]}
        /\ Len(items) >= 2 => NewestFirst
        /\ \A u \in ToSet(items) : Last(items) <= u
  <2>1. \A i, j \in 1..Len(items) :
          i < j => IF NewestFirst THEN items[i] > items[j] ELSE items[i] < items[j]
    BY <1>1 DEF Shows
  <2> QED
    BY <1>3, <1>5, <2>1, PageOrder
<1>7. r.prev # <<>> /\ items # <<>> =>
        Len(r.prev) >= 2 /\ items[1] \in r.seen /\ Last(r.prev) <= items[1]
  BY <1>3, <1>5, <1>6, PageFollows
<1>8. \A c \in Nat : c >= 1 => c = 1 \/ c >= 2
  OBVIOUS
<1>9. r.prev # <<>> => t \in r.seen \/ (Len(r.prev) >= 2 /\ t < Last(r.prev))
  BY DEF Reached
<1>10. t \in Nat /\ ToSet(items) \subseteq Nat
  <2>1. DOMAIN items = 1..Len(items) /\ items \in [1..Len(items) -> Trades]
    BY <1>3
  <2> QED
    BY <2>1, PagesNumbers DEF ToSet
<1>11. r.prev # <<>> => Last(r.prev) \in Nat
  <2>1. r.prev \in Seq(Trades)
    BY DEF Reader
  <2>2. r.prev # <<>> => Len(r.prev) \in Nat \ {0}
    BY <2>1, EmptySeq
  <2>3. r.prev # <<>> => Last(r.prev) \in Trades
    BY <2>1, <2>2 DEF Last
  <2> QED
    BY <2>3, PagesNumbers
\* The trade was read, or the page says where it is.
<1>12. ASSUME items # <<>>, t \notin r.seen
       PROVE  /\ offset = 0 \/ (t <= items[1] /\ NewestFirst)
              /\ r.prev = <<>> \/ items[1] \in r.seen
  <2>1. CASE r.prev = <<>>
    BY <2>1
  <2>2. CASE r.prev # <<>>
    <3>1. t < Last(r.prev) /\ Last(r.prev) <= items[1] /\ items[1] \in r.seen
      BY <1>7, <1>9, <1>12, <2>2
    <3>2. items[1] \in Nat
      BY <1>6, <1>10, <1>12
    <3>3. t <= items[1]
      BY <1>10, <1>11, <2>2, <3>1, <3>2
    <3>4. NewestFirst
      BY <1>7, <1>12, <2>2 DEF Progress
    <3> QED
      BY <3>1, <3>3, <3>4
  <2> QED
    BY <2>1, <2>2
<1>13. ASSUME items # <<>>, t \notin r.seen
       PROVE  IF Len(items) = 1 THEN t = items[1] ELSE Len(items) >= 2 /\ (t \in ToSet(items) \/ t < Last(items))
  <2>1. CASE Len(items) = 1
    BY <1>1, <1>12, <1>13, <2>1 DEF Shows
  <2>2. CASE Len(items) # 1
    <3>1. Len(items) >= 2 /\ NewestFirst /\ Len(items) >= 1
      BY <1>3, <1>6, <1>8, <1>13, <2>2
    <3> QED
      BY <1>1, <1>12, <1>13, <2>2, <3>1 DEF Shows
  <2> QED
    BY <2>1, <2>2
<1>14. ASSUME res[1] = "again" PROVE Reached(t, res[2])
  <2>1. items # <<>>
    BY <1>5, <1>14
  <2>2. t \in r.seen \cup ToSet(items) \/ (Len(items) >= 2 /\ t < Last(items))
    BY <1>6, <1>13, <2>1
  <2> QED
    BY <1>5, <2>2 DEF Reached
<1>15. ASSUME res[1] = "done", res[2].covered, t >= WindowStart, t \notin res[2].seen PROVE FALSE
  <2>1. t \notin r.seen /\ t \notin ToSet(items)
    BY <1>5, <1>15
  <2>2. CASE items = <<>>
    <3>1. Len(r.prev) < 2
      BY <1>5, <2>2
    <3>2. r.prev = <<>> => FALSE
      BY <1>1, <2>2, EmptySeq DEF Shows
    <3>3. Len(r.prev) >= 2
      BY <1>9, <2>1, <3>2
    <3>4. Len(r.prev) \in Nat
      BY DEF Reader
    <3> QED
      BY <3>1, <3>3, <3>4
  <2>3. CASE items # <<>>
    <3>1. Len(items) >= 2 /\ t < Last(items)
      BY <1>6, <1>13, <2>1, <2>3
    <3>2. ~(ToSet(items) \subseteq r.seen)
      <4> SUFFICES ASSUME ToSet(items) \subseteq r.seen PROVE FALSE
        OBVIOUS
      <4>1. \A k \in 1..Len(items) : items[k] \in r.seen
        <5>1. DOMAIN items = 1..Len(items)
          BY <1>3
        <5> QED
          BY <5>1 DEF ToSet
      <4>2. Len(items) = 1
        BY <1>5, <2>3, <4>1 DEF PageHolds
      <4> QED
        BY <3>1, <4>2
    <3>3. PICK u \in ToSet(items) : u < WindowStart
      BY <1>5, <1>15, <2>3, <3>2 DEF StopAt
    <3>4. Last(items) <= u /\ Last(items) \in Nat /\ u \in Nat /\ WindowStart \in Nat
      BY <1>6, <1>10, <2>3, PagesNumbers
    <3> QED
      BY <1>10, <1>15, <3>1, <3>3, <3>4
  <2> QED
    BY <2>2, <2>3
<1> QED
  BY <1>14, <1>15

-----------------------------------------------------------------------------
LEMMA UnreadIs ==
  /\ Unread \in Reader /\ Progress(Unread) /\ NoAttempt \in Attempts
  /\ NoAttempt.pc = "idle" /\ NoAttempt.list = 1 /\ NoAttempt.read = [k \in {1, 2} |-> Unread]
  /\ Unread.covered = FALSE /\ Unread.proof = FALSE /\ Unread.seen = {} /\ Unread.prev = <<>>
<1>1. <<>> \in Seq(Trades) /\ 0 \in 0..MaxPages /\ 0 \in Nat /\ 0 < MaxPages /\ Len(<<>>) = 0
  BY PagesNumbers, EmptySeq
<1>2. Unread \in Reader
  BY <1>1 DEF Unread, Reader
<1>3. Progress(Unread)
  BY <1>1 DEF Unread, Progress
<1>4. [k \in {1, 2} |-> Unread] \in [{1, 2} -> Reader]
  BY <1>2
<1>5. NoAttempt \in Attempts
  BY <1>4 DEF NoAttempt, Attempts
<1> QED
  BY <1>2, <1>3, <1>5 DEF NoAttempt, Unread

\* What the steps that leave the attempt idle have left to keep.
LEMMA IdleIsSafe ==
  ASSUME PagesTyped', OneMoves', rec'.pc = "idle", AbsentOK', ReleasedHasNoTrade'
  PROVE  PagesInv'
<1>1. ReadingOK' /\ AttemptOK' /\ ProofOK' /\ SmoothOK'
  BY DEF ReadingOK, AttemptOK, ProofOK, SmoothOK
<1> QED
  BY <1>1 DEF PagesInv

LEMMA PagesInits == PagesInit => PagesInv
<1> SUFFICES ASSUME PagesInit PROVE PagesInv
  OBVIOUS
<1>1. /\ book \in [Trades -> {"none", "open", "closed"}] /\ gap = 0 /\ over \in BOOLEAN
      /\ rec = NoAttempt /\ age = Retry /\ absent = FALSE /\ answer = "none" /\ pagesFaults = 0
  BY DEF PagesInit
<1>2. book \in [Trades -> Places] /\ \A t \in Trades : book[t] # "between"
  BY <1>1 DEF Places
<1>3. 0 \in 0..MaxGap /\ Retry \in 0..Retry /\ 0 \in 0..MaxPagesFaults
  BY PagesNumbers
<1>4. PagesTyped
  BY <1>1, <1>2, <1>3, UnreadIs DEF PagesTyped, Answers
<1>5. OneMoves /\ AbsentOK /\ ReleasedHasNoTrade
  BY <1>1, <1>2 DEF OneMoves, AbsentOK, ReleasedHasNoTrade
<1>6. rec.pc = "idle"
  BY <1>1, UnreadIs
<1>7. ReadingOK /\ AttemptOK /\ ProofOK /\ SmoothOK
  BY <1>6 DEF ReadingOK, AttemptOK, ProofOK, SmoothOK
<1> QED
  BY <1>4, <1>5, <1>7 DEF PagesInv

\* The order's trade cannot open once the window is over, nor any trade of before.
LEMMA OpenTradeSteps ==
  ASSUME PagesInv, answer = "none", NEW t \in Trades, OpenTrade(t)
  PROVE  PagesInv'
<1>1. /\ book[t] = "none" /\ (t = Ours => ~over) /\ book' = [book EXCEPT ![t] = "open"]
      /\ gap' = gap /\ over' = over /\ rec' = rec /\ age' = age /\ absent' = absent
      /\ answer' = answer /\ pagesFaults' = pagesFaults
  BY DEF OpenTrade
<1>2. book \in [Trades -> Places]
  BY DEF PagesInv, PagesTyped
<1>3. /\ book' \in [Trades -> Places] /\ book'[t] = "open"
      /\ \A u \in Trades : u # t => book'[u] = book[u]
  BY <1>1, <1>2 DEF Places
<1>4. PagesTyped'
  BY <1>1, <1>3 DEF PagesInv, PagesTyped
<1>5. OneMoves' /\ (Moving' => Moving)
  BY <1>3 DEF PagesInv, OneMoves, Moving
<1>6. ReadingOK'
  BY <1>1 DEF PagesInv, ReadingOK
<1>7. AttemptOK'
  BY <1>1, <1>3 DEF PagesInv, AttemptOK, Exists
<1>8. Ours \in Trades /\ (over => book'[Ours] = book[Ours])
  BY <1>1, <1>3, PagesNumbers
<1>9. ProofOK'
  <2>1. ASSUME rec.pc # "idle", rec.over, rec.list = 2 PROVE over
    BY <2>1 DEF PagesInv, AttemptOK
  <2> QED
    BY <1>1, <1>8, <2>1 DEF PagesInv, ProofOK
<1>10. AbsentOK'
  BY <1>1, <1>8 DEF PagesInv, AbsentOK
<1>11. SmoothOK'
  <2> SUFFICES ASSUME rec.pc # "idle", rec.smooth PROVE SmoothOK'
    BY <1>1 DEF SmoothOK
  <2>1. t \notin rec.before
    BY <1>1 DEF PagesInv, AttemptOK, Exists
  <2>2. \A u \in rec.before : u \in Trades
    BY DEF PagesInv, PagesTyped, Attempts
  <2>3. \A u \in rec.before : book'[u] = book[u]
    BY <1>3, <2>1, <2>2
  <2> QED
    BY <1>1, <1>5, <2>3 DEF PagesInv, SmoothOK
<1>12. ReleasedHasNoTrade'
  BY <1>1 DEF ReleasedHasNoTrade
<1> QED
  BY <1>4, <1>5, <1>6, <1>7, <1>9, <1>10, <1>11, <1>12 DEF PagesInv

\* A trade that closes was on the open list until then, or no attempt under way is smooth.
LEMMA CloseTradeSteps ==
  ASSUME PagesInv, answer = "none", NEW t \in Trades, CloseTrade(t)
  PROVE  PagesInv'
<1>1. /\ book[t] = "open" /\ over' = over /\ age' = age /\ absent' = absent
      /\ answer' = answer /\ pagesFaults' = pagesFaults
      /\ \/ book' = [book EXCEPT ![t] = "closed"] /\ gap' = gap /\ rec' = rec
         \/ /\ ~Moving /\ book' = [book EXCEPT ![t] = "between"] /\ gap' = 0
            /\ rec' = [rec EXCEPT !.smooth = (rec.pc = "idle")]
  BY DEF CloseTrade
<1>2. /\ book \in [Trades -> Places] /\ rec \in Attempts
      /\ \A u \in rec.before : u \in Trades
  BY DEF PagesInv, PagesTyped, Attempts
<1>3. Ours \in Trades /\ 0 \in 0..MaxGap
  BY PagesNumbers
<1>4. \A u \in Trades : u # t => book'[u] = book[u]
  BY <1>1, <1>2
<1>5. ReleasedHasNoTrade'
  BY <1>1 DEF ReleasedHasNoTrade
<1>6. CASE book' = [book EXCEPT ![t] = "closed"] /\ gap' = gap /\ rec' = rec
  <2>1. book' \in [Trades -> Places] /\ book'[t] = "closed"
    BY <1>2, <1>6 DEF Places
  <2>2. PagesTyped'
    BY <1>1, <1>6, <2>1 DEF PagesInv, PagesTyped
  <2>3. OneMoves' /\ (Moving' => Moving)
    BY <1>4, <2>1 DEF PagesInv, OneMoves, Moving
  <2>4. ReadingOK'
    BY <1>6 DEF PagesInv, ReadingOK
  <2>5. AttemptOK'
    BY <1>1, <1>4, <1>6, <2>1 DEF PagesInv, AttemptOK, Exists
  <2>6. ProofOK'
    BY <1>1, <1>3, <1>4, <1>6 DEF PagesInv, ProofOK
  <2>7. AbsentOK'
    BY <1>1, <1>3, <1>4, <1>6 DEF PagesInv, AbsentOK
  <2>8. SmoothOK'
    <3> SUFFICES ASSUME rec.pc # "idle", rec.smooth PROVE SmoothOK'
      BY <1>6 DEF SmoothOK
    <3>1. \A u \in rec.before :
            (book'[u] = "open" => book[u] = "open") /\ (book[u] = "closed" => book'[u] = "closed")
      BY <1>1, <1>2, <1>4, <2>1
    <3> QED
      BY <1>6, <2>3, <3>1 DEF PagesInv, SmoothOK
  <2> QED
    BY <1>5, <2>2, <2>3, <2>4, <2>5, <2>6, <2>7, <2>8 DEF PagesInv
<1>7. CASE ~Moving /\ book' = [book EXCEPT ![t] = "between"] /\ gap' = 0
           /\ rec' = [rec EXCEPT !.smooth = (rec.pc = "idle")]
  <2>1. book' \in [Trades -> Places] /\ book'[t] = "between"
    BY <1>2, <1>7 DEF Places
  <2>2. /\ rec' \in Attempts /\ rec'.pc = rec.pc /\ rec'.list = rec.list /\ rec'.read = rec.read
        /\ rec'.over = rec.over /\ rec'.before = rec.before /\ (rec.pc # "idle" => ~rec'.smooth)
    BY <1>2, <1>7 DEF Attempts
  <2>3. PagesTyped'
    BY <1>1, <1>3, <1>7, <2>1, <2>2 DEF PagesInv, PagesTyped
  <2>4. \A u \in Trades : u # t => book'[u] # "between"
    BY <1>4, <1>7 DEF Moving
  <2>5. OneMoves'
    BY <2>4 DEF OneMoves
  <2>6. ReadingOK'
    BY <2>2 DEF PagesInv, ReadingOK
  <2>7. AttemptOK'
    BY <1>1, <1>4, <2>1, <2>2 DEF PagesInv, AttemptOK, Exists
  <2>8. ProofOK'
    BY <1>1, <1>3, <1>4, <2>2 DEF PagesInv, ProofOK
  <2>9. AbsentOK'
    BY <1>1, <1>3, <1>4, <2>4 DEF PagesInv, AbsentOK
  <2>10. SmoothOK'
    BY <2>2 DEF SmoothOK
  <2> QED
    BY <1>5, <2>3, <2>5, <2>6, <2>7, <2>8, <2>9, <2>10 DEF PagesInv
<1> QED
  BY <1>1, <1>6, <1>7

LEMMA AppearSteps ==
  ASSUME PagesInv, answer = "none", NEW t \in Trades, Appear(t)
  PROVE  PagesInv'
<1>1. /\ book[t] = "between" /\ book' = [book EXCEPT ![t] = "closed"] /\ gap' = 0
      /\ over' = over /\ rec' = rec /\ age' = age /\ absent' = absent
      /\ answer' = answer /\ pagesFaults' = pagesFaults
  BY DEF Appear
<1>2. book \in [Trades -> Places]
  BY DEF PagesInv, PagesTyped
<1>3. /\ book' \in [Trades -> Places] /\ book'[t] = "closed"
      /\ \A u \in Trades : u # t => book'[u] = book[u] /\ book'[u] # "between"
  BY <1>1, <1>2 DEF PagesInv, OneMoves, Places
<1>4. Ours \in Trades /\ 0 \in 0..MaxGap
  BY PagesNumbers
<1>5. PagesTyped'
  BY <1>1, <1>3, <1>4 DEF PagesInv, PagesTyped
<1>6. OneMoves'
  BY <1>3 DEF OneMoves
<1>7. ReadingOK'
  BY <1>1 DEF PagesInv, ReadingOK
<1>8. AttemptOK'
  BY <1>1, <1>3 DEF PagesInv, AttemptOK, Exists
<1>9. ProofOK'
  BY <1>1, <1>3, <1>4 DEF PagesInv, ProofOK
<1>10. AbsentOK'
  BY <1>1, <1>3, <1>4 DEF PagesInv, AbsentOK
<1>11. SmoothOK'
  BY <1>1 DEF PagesInv, SmoothOK, Moving
<1>12. ReleasedHasNoTrade'
  BY <1>1 DEF ReleasedHasNoTrade
<1> QED
  BY <1>5, <1>6, <1>7, <1>8, <1>9, <1>10, <1>11, <1>12 DEF PagesInv

LEMMA WindowClosesSteps ==
  ASSUME PagesInv, answer = "none", WindowCloses
  PROVE  PagesInv'
<1>1. /\ over' = TRUE /\ book' = book /\ gap' = gap /\ rec' = rec /\ age' = age /\ absent' = absent
      /\ answer' = answer /\ pagesFaults' = pagesFaults
  BY DEF WindowCloses
<1>2. PagesTyped'
  BY <1>1 DEF PagesInv, PagesTyped
<1>3. OneMoves' /\ ReadingOK' /\ ReleasedHasNoTrade'
  BY <1>1 DEF PagesInv, OneMoves, ReadingOK, ReleasedHasNoTrade
<1>4. AttemptOK'
  BY <1>1 DEF PagesInv, AttemptOK, Exists
<1>5. ProofOK'
  BY <1>1 DEF PagesInv, ProofOK
<1>6. AbsentOK'
  BY <1>1 DEF PagesInv, AbsentOK
<1>7. SmoothOK'
  BY <1>1 DEF PagesInv, SmoothOK, Moving
<1> QED
  BY <1>2, <1>3, <1>4, <1>5, <1>6, <1>7 DEF PagesInv

\* A trade between the lists since a proof stays there less long than the next attempt is away.
LEMMA TickSteps ==
  ASSUME PagesInv, answer = "none", Tick
  PROVE  PagesInv'
<1>1. /\ age < Retry /\ (rec.pc # "idle" => age < Timeout) /\ (Moving => gap < MaxGap)
      /\ age' = age + 1 /\ gap' = (IF Moving THEN gap + 1 ELSE gap)
      /\ book' = book /\ over' = over /\ rec' = rec /\ absent' = absent
      /\ answer' = answer /\ pagesFaults' = pagesFaults
  BY DEF Tick
<1>2. age \in 0..Retry /\ gap \in 0..MaxGap /\ Retry \in Nat /\ MaxGap \in Nat /\ Timeout \in Nat
      /\ Ours \in Trades
  BY PagesNumbers DEF PagesInv, PagesTyped
<1>3. age' \in 0..Retry /\ gap' \in 0..MaxGap
  BY <1>1, <1>2
<1>4. PagesTyped'
  BY <1>1, <1>3 DEF PagesInv, PagesTyped
<1>5. OneMoves' /\ ReadingOK' /\ ReleasedHasNoTrade'
  BY <1>1 DEF PagesInv, OneMoves, ReadingOK, ReleasedHasNoTrade
<1>6. AttemptOK'
  <2>1. rec.pc # "idle" => age' <= Timeout
    BY <1>1, <1>2
  <2> QED
    BY <1>1, <2>1 DEF PagesInv, AttemptOK, Exists
<1>7. ProofOK'
  BY <1>1 DEF PagesInv, ProofOK
<1>8. AbsentOK'
  <2>1. ASSUME absent, book[Ours] = "between" PROVE age' <= gap' + Timeout
    <3>1. age <= gap + Timeout /\ Moving
      BY <1>2, <2>1 DEF PagesInv, AbsentOK, Moving
    <3> QED
      BY <1>1, <1>2, <3>1
  <2> QED
    BY <1>1, <2>1 DEF PagesInv, AbsentOK
<1>9. SmoothOK'
  BY <1>1 DEF PagesInv, SmoothOK, Moving
<1> QED
  BY <1>4, <1>5, <1>6, <1>7, <1>8, <1>9 DEF PagesInv

\* The next attempt comes when a trade that was between the lists at the proof is closed.
LEMMA ClaimSteps ==
  ASSUME PagesInv, answer = "none", Claim
  PROVE  PagesInv'
<1>1. /\ rec.pc = "idle" /\ age = Retry /\ age' = 0
      /\ rec' = [NoAttempt EXCEPT !.pc = "reading", !.over = over, !.before = Exists,
                                  !.smooth = ~Moving]
      /\ book' = book /\ gap' = gap /\ over' = over /\ absent' = absent
      /\ answer' = answer /\ pagesFaults' = pagesFaults
  BY DEF Claim
<1>2. /\ over \in BOOLEAN /\ gap \in 0..MaxGap /\ Exists \subseteq Trades /\ 0 \in 0..Retry
      /\ MaxGap \in Nat /\ Retry \in Nat /\ Timeout \in Nat /\ MaxGap < Retry - Timeout
  BY PagesNumbers DEF PagesInv, PagesTyped, Exists
<1>3. (~Moving) \in BOOLEAN
  BY DEF Moving
<1>4. /\ rec' \in Attempts /\ rec'.pc = "reading" /\ rec'.list = 1
      /\ rec'.read = [k \in {1, 2} |-> Unread] /\ rec'.over = over /\ rec'.before = Exists
      /\ (rec'.smooth => ~Moving)
  BY <1>1, <1>2, <1>3, UnreadIs DEF Attempts
<1>5. PagesTyped'
  BY <1>1, <1>2, <1>4 DEF PagesInv, PagesTyped
<1>6. OneMoves' /\ ReleasedHasNoTrade'
  BY <1>1 DEF PagesInv, OneMoves, ReleasedHasNoTrade
<1>7. rec'.read[1] = Unread /\ rec'.read[2] = Unread
  BY <1>4
<1>8. ReadingOK'
  BY <1>4, <1>7, UnreadIs DEF ReadingOK
<1>9. AttemptOK'
  BY <1>1, <1>2, <1>4 DEF AttemptOK, Exists
<1>10. ProofOK'
  BY <1>4 DEF ProofOK
<1>11. AbsentOK'
  <2>1. ASSUME absent, book[Ours] = "between" PROVE FALSE
    <3>1. age <= gap + Timeout
      BY <2>1 DEF PagesInv, AbsentOK
    <3> QED
      BY <1>1, <1>2, <3>1
  <2> QED
    BY <1>1, <2>1 DEF PagesInv, AbsentOK
<1>12. SmoothOK'
  <2>1. \A t : Reached(t, Unread)
    BY UnreadIs DEF Reached
  <2>2. Moving' <=> Moving
    BY <1>1 DEF Moving
  <2> QED
    BY <1>4, <1>7, <2>1, <2>2 DEF SmoothOK
<1> QED
  BY <1>5, <1>6, <1>8, <1>9, <1>10, <1>11, <1>12 DEF PagesInv

LEMMA AttemptTimesOutSteps ==
  ASSUME PagesInv, answer = "none", AttemptTimesOut
  PROVE  PagesInv'
<1>1. /\ rec.pc # "idle" /\ rec' = NoAttempt /\ age' = age /\ absent' = absent
      /\ pagesFaults < MaxPagesFaults /\ pagesFaults' = pagesFaults + 1
      /\ book' = book /\ gap' = gap /\ over' = over /\ answer' = answer
  BY DEF AttemptTimesOut
<1>2. pagesFaults' \in 0..MaxPagesFaults
  BY <1>1, PagesNumbers DEF PagesInv, PagesTyped
<1>3. PagesTyped'
  BY <1>1, <1>2, UnreadIs DEF PagesInv, PagesTyped
<1>4. OneMoves' /\ ReleasedHasNoTrade' /\ AbsentOK'
  BY <1>1 DEF PagesInv, OneMoves, ReleasedHasNoTrade, AbsentOK
<1> QED
  BY <1>1, <1>3, <1>4, UnreadIs, IdleIsSafe

LEMMA DropSteps ==
  ASSUME PagesInv, answer = "none", Drop, pagesFaults' \in 0..MaxPagesFaults,
         UNCHANGED <<book, gap, over, age, answer>>
  PROVE  PagesInv'
<1>1. rec' = NoAttempt /\ absent' = FALSE
  BY DEF Drop
<1>2. PagesTyped'
  BY <1>1, UnreadIs DEF PagesInv, PagesTyped
<1>3. OneMoves' /\ ReleasedHasNoTrade' /\ AbsentOK'
  BY <1>1 DEF PagesInv, OneMoves, ReleasedHasNoTrade, AbsentOK
<1> QED
  BY <1>1, <1>2, <1>3, UnreadIs, IdleIsSafe

LEMMA FailSteps ==
  ASSUME PagesInv, answer = "none", Fail
  PROVE  PagesInv'
<1>1. /\ Drop /\ UNCHANGED <<book, gap, over, age, answer>>
      /\ pagesFaults < MaxPagesFaults /\ pagesFaults' = pagesFaults + 1
  BY DEF Fail
<1>2. pagesFaults' \in 0..MaxPagesFaults
  BY <1>1, PagesNumbers DEF PagesInv, PagesTyped
<1> QED
  BY <1>1, <1>2, DropSteps

\* A second proof of absence releases the token of an order without a trade.
LEMMA DecideSteps ==
  ASSUME PagesInv, answer = "none", Decide
  PROVE  PagesInv'
<1> DEFINE proof == rec.read[1].proof /\ rec.read[2].proof
<1>1. /\ rec.pc = "deciding" /\ rec' = NoAttempt
      /\ book' = book /\ gap' = gap /\ over' = over /\ age' = age /\ pagesFaults' = pagesFaults
      /\ \/ answer' \in {"parked", "found"} /\ absent' = FALSE
         \/ answer' = answer /\ absent' = FALSE
         \/ /\ rec.over # FALSE /\ Exact = {} /\ proof
            /\ \/ absent /\ absent' = FALSE /\ answer' = "released"
               \/ absent' = TRUE /\ answer' = answer
  BY DEF Decide, Absence, Confirmed, Release
<1>2. rec.list = 2 /\ age <= Timeout /\ (rec.over => over)
  BY <1>1 DEF PagesInv, AttemptOK
<1>3. Ours \in Matching /\ Ours \in Trades /\ Timeout \in Nat
  BY PagesNumbers
<1>4. Exact = {} => Ours \notin rec.read[1].seen /\ Ours \notin rec.read[2].seen
  BY <1>3 DEF Exact, Seen
<1>5. rec.over \in BOOLEAN /\ age \in 0..Retry /\ gap \in 0..MaxGap /\ Retry \in Nat /\ MaxGap \in Nat
  BY PagesNumbers DEF PagesInv, PagesTyped, Attempts
<1>6. PagesTyped'
  BY <1>1, UnreadIs DEF PagesInv, PagesTyped, Answers
<1>7. OneMoves'
  BY <1>1 DEF PagesInv, OneMoves
<1>8. ReleasedHasNoTrade'
  <2>1. ASSUME rec.over # FALSE, Exact = {}, proof, absent PROVE book[Ours] = "none"
    BY <1>1, <1>2, <1>4, <1>5, <2>1 DEF PagesInv, ProofOK
  <2> QED
    BY <1>1, <2>1 DEF ReleasedHasNoTrade
<1>9. AbsentOK'
  <2>1. ASSUME rec.over # FALSE, Exact = {}, proof PROVE over /\ book[Ours] # "open"
    BY <1>1, <1>2, <1>4, <1>5, <2>1 DEF PagesInv, ProofOK
  <2>2. age <= gap + Timeout
    BY <1>2, <1>3, <1>5
  <2> QED
    BY <1>1, <2>1, <2>2, UnreadIs DEF AbsentOK
<1> QED
  BY <1>1, <1>6, <1>7, <1>8, <1>9, UnreadIs, IdleIsSafe

LEMMA PagesStutters == ASSUME PagesInv, UNCHANGED pagesVars PROVE PagesInv'
<1>1. PagesTyped' /\ OneMoves' /\ ReadingOK' /\ ReleasedHasNoTrade'
  BY DEF pagesVars, PagesInv, PagesTyped, OneMoves, ReadingOK, ReleasedHasNoTrade
<1>2. AttemptOK' /\ ProofOK'
  BY DEF pagesVars, PagesInv, AttemptOK, ProofOK, Exists
<1>3. AbsentOK' /\ SmoothOK'
  BY DEF pagesVars, PagesInv, AbsentOK, SmoothOK, Moving
<1> QED
  BY <1>1, <1>2, <1>3 DEF PagesInv

\* A page of the open list, then of the closed one: what both have shown when they end.
LEMMA RequestSteps ==
  ASSUME PagesInv, answer = "none", rec.pc = "reading", NEW cap \in Caps, NEW offset \in Nat,
         NEW list \in BrokerLists(ListOrder[rec.list]),
         rec.read[rec.list].offset = 0 => offset = 0,
         Request(list, offset, cap), UNCHANGED <<book, gap, over, age, answer, pagesFaults>>
  PROVE  PagesInv'
<1> DEFINE r == rec.read[rec.list]
           items == PageAt(list, offset, cap)
           res == PageRead(r, items)
           whole == Len(items) = 1 => offset + 1 = Len(list)
           next == [rec EXCEPT !.read[rec.list] = res[2], !.smooth = @ /\ whole]
           status == ListOrder[rec.list]
<1>1. /\ book' = book /\ gap' = gap /\ over' = over /\ age' = age /\ answer' = answer
      /\ pagesFaults' = pagesFaults
  OBVIOUS
<1>2. \/ res[1] = "error" /\ Drop
      \/ /\ res[1] = "again" /\ rec' = next /\ absent' = absent
      \/ /\ res[1] = "done" /\ absent' = absent
         /\ rec' = IF rec.list = 1 THEN [next EXCEPT !.list = 2] ELSE [next EXCEPT !.pc = "deciding"]
  BY DEF Request
<1>3. rec \in Attempts /\ rec.list \in {1, 2} /\ rec.read \in [{1, 2} -> Reader] /\ r \in Reader
      /\ book \in [Trades -> Places] /\ rec.before \subseteq Trades /\ rec.smooth \in BOOLEAN
  BY DEF PagesInv, PagesTyped, Attempts
<1>4. Progress(r) /\ (rec.list = 1 => rec.read[2] = Unread)
  BY DEF PagesInv, ReadingOK
<1>5. r.prev = <<>> => offset = 0
  BY <1>4 DEF Progress
<1>6. (rec.list = 1 => status = "open") /\ (rec.list = 2 => status = "closed")
  BY DEF ListOrder
<1>7. Ours \in Trades /\ Ours >= WindowStart /\ (\A t \in Matching : t \in Trades /\ t >= WindowStart)
  BY PagesNumbers
<1> HIDE DEF r, status
<1>8. CASE res[1] = "error"
  <2>1. Drop
    BY <1>2, <1>8
  <2>2. pagesFaults' \in 0..MaxPagesFaults
    BY <1>1 DEF PagesInv, PagesTyped
  <2> QED
    BY <2>1, <2>2, DropSteps
<1>9. CASE res[1] # "error"
  <2>1. /\ res[2] \in Reader
        /\ res[1] = "again" => Progress(res[2])
        /\ res[1] = "done" /\ res[2].proof =>
             \A t \in Trades : book[t] = status /\ t >= WindowStart => t \in res[2].seen
    BY <1>3, <1>4, <1>5, <1>9, PageTells DEF status
  <2>2. \A t \in Trades :
          whole /\ book[t] = status /\ Reached(t, r) =>
            /\ res[1] = "again" => Reached(t, res[2])
            /\ res[1] = "done" /\ res[2].covered /\ t >= WindowStart => t \in res[2].seen
    BY <1>3, <1>4, <1>5, <1>9, PageReaches DEF status
  <2>3. (rec.smooth /\ whole) \in BOOLEAN
    BY <1>3
  <2> HIDE DEF items, whole
  <2> HIDE DEF res
  <2>4. /\ next \in Attempts /\ next.pc = "reading" /\ next.list = rec.list
        /\ next.read \in [{1, 2} -> Reader] /\ next.read[rec.list] = res[2]
        /\ \A k \in {1, 2} : k # rec.list => next.read[k] = rec.read[k]
        /\ next.over = rec.over /\ next.before = rec.before
        /\ next.smooth => rec.smooth /\ whole
    BY <1>3, <2>1, <2>3 DEF Attempts
  <2> HIDE DEF next
  <2>5. OneMoves' /\ ReleasedHasNoTrade' /\ (Moving' <=> Moving)
    BY <1>1 DEF PagesInv, OneMoves, ReleasedHasNoTrade, Moving
  <2>6. absent' = absent
    BY <1>2, <1>9
  <2>7. ASSUME absent PROVE over /\ book[Ours] # "open" /\ book[Ours] # "between"
    BY <2>7 DEF PagesInv, AbsentOK
  <2>8. AbsentOK'
    BY <1>1, <2>6, <2>7 DEF AbsentOK
  <2>9. (rec.over => over) /\ age <= Timeout /\ rec.before \subseteq Exists
    BY DEF PagesInv, AttemptOK
  <2>10. Exists' = Exists
    BY <1>1 DEF Exists
  <2>11. CASE res[1] = "again"
    <3>1. rec' = next
      BY <1>2, <2>11
    <3>2. PagesTyped'
      BY <1>1, <2>4, <2>6, <3>1 DEF PagesInv, PagesTyped
    <3>3. ReadingOK'
      BY <1>3, <1>4, <2>1, <2>4, <2>11, <3>1 DEF ReadingOK
    <3>4. AttemptOK'
      BY <1>1, <2>4, <2>9, <2>10, <3>1 DEF AttemptOK
    <3>5. ProofOK'
      BY <1>1, <1>3, <2>4, <3>1 DEF PagesInv, ProofOK
    <3>6. SmoothOK'
      <4> SUFFICES ASSUME next.smooth PROVE SmoothOK'
        BY <3>1 DEF SmoothOK
      <4>1. ~Moving /\ rec.smooth /\ whole
        BY <2>4 DEF PagesInv, SmoothOK
      <4>2. ASSUME rec.list = 1, NEW t \in rec.before, book[t] = "open" PROVE Reached(t, res[2])
        <5>1. Reached(t, r) /\ t \in Trades
          BY <1>3, <4>1, <4>2 DEF PagesInv, SmoothOK, r
        <5> QED
          BY <1>6, <2>2, <2>11, <4>1, <4>2, <5>1
      <4>3. ASSUME rec.list = 2, rec.read[1].covered, NEW t \in rec.before \cap Matching
            PROVE  t \in rec.read[1].seen \/ (book[t] = "closed" /\ Reached(t, res[2]))
        <5>1. t \in rec.read[1].seen \/ (book[t] = "closed" /\ Reached(t, r))
          BY <4>1, <4>3 DEF PagesInv, SmoothOK, r
        <5> QED
          BY <1>3, <1>6, <2>2, <2>11, <4>1, <4>3, <5>1
      <4> QED
        BY <1>1, <1>3, <2>4, <2>5, <3>1, <4>1, <4>2, <4>3 DEF SmoothOK
    <3> QED
      BY <2>5, <2>8, <3>2, <3>3, <3>4, <3>5, <3>6 DEF PagesInv
  <2>12. CASE res[1] = "done" /\ rec.list = 1
    <3>1. rec' = [next EXCEPT !.list = 2]
      BY <1>2, <2>12
    <3>2. /\ rec' \in Attempts /\ rec'.pc = "reading" /\ rec'.list = 2 /\ rec'.read = next.read
          /\ rec'.over = rec.over /\ rec'.before = rec.before /\ rec'.smooth = next.smooth
      BY <2>4, <3>1 DEF Attempts
    <3>3. rec'.read[1] = res[2] /\ rec'.read[2] = Unread
      BY <1>4, <2>4, <2>12, <3>2
    <3>4. PagesTyped'
      BY <1>1, <2>6, <3>2 DEF PagesInv, PagesTyped
    <3>5. ReadingOK'
      BY <3>2, <3>3, UnreadIs DEF ReadingOK
    <3>6. AttemptOK'
      BY <1>1, <2>9, <2>10, <3>2 DEF AttemptOK
    <3>7. ProofOK'
      BY <1>1, <1>6, <1>7, <2>1, <2>12, <3>2, <3>3 DEF ProofOK
    <3>8. SmoothOK'
      <4> SUFFICES ASSUME next.smooth PROVE SmoothOK'
        BY <3>2 DEF SmoothOK
      <4>1. ~Moving /\ rec.smooth /\ whole
        BY <2>4 DEF PagesInv, SmoothOK
      <4>2. ASSUME res[2].covered, NEW t \in rec.before \cap Matching, t \notin res[2].seen
            PROVE  book[t] = "closed" /\ Reached(t, Unread)
        <5>1. t \in Trades /\ t >= WindowStart /\ book[t] # "none" /\ book[t] # "between"
          BY <1>7, <2>9, <4>1 DEF Exists, Moving
        <5>2. book[t] = "open" => Reached(t, r)
          BY <2>12, <4>1, <4>2 DEF PagesInv, SmoothOK, r
        <5>3. book[t] # "open"
          BY <1>6, <2>2, <2>12, <4>1, <4>2, <5>1, <5>2
        <5> QED
          BY <1>3, <5>1, <5>3, UnreadIs DEF Places, Reached
      <4> QED
        BY <1>1, <2>5, <3>2, <3>3, <4>1, <4>2 DEF SmoothOK
    <3> QED
      BY <2>5, <2>8, <3>4, <3>5, <3>6, <3>7, <3>8 DEF PagesInv
  <2>13. CASE res[1] = "done" /\ rec.list = 2
    <3>1. rec' = [next EXCEPT !.pc = "deciding"]
      BY <1>2, <2>13
    <3>2. /\ rec' \in Attempts /\ rec'.pc = "deciding" /\ rec'.list = 2 /\ rec'.read = next.read
          /\ rec'.over = rec.over /\ rec'.before = rec.before /\ rec'.smooth = next.smooth
      BY <2>4, <2>13, <3>1 DEF Attempts
    <3>3. rec'.read[1] = rec.read[1] /\ rec'.read[2] = res[2]
      BY <2>4, <2>13, <3>2
    <3>4. PagesTyped'
      BY <1>1, <2>6, <3>2 DEF PagesInv, PagesTyped
    <3>5. ReadingOK'
      BY <3>2 DEF ReadingOK
    <3>6. AttemptOK'
      BY <1>1, <2>9, <2>10, <3>2 DEF AttemptOK
    <3>7. ProofOK'
      <4>1. ASSUME rec.over, rec.read[1].proof, Ours \notin rec.read[1].seen
            PROVE  book[Ours] # "open"
        BY <2>13, <4>1 DEF PagesInv, ProofOK
      <4>2. ASSUME res[2].proof, Ours \notin res[2].seen PROVE book[Ours] # "closed"
        BY <1>6, <1>7, <2>1, <2>13, <4>2
      <4>3. book[Ours] \in {"none", "open", "between", "closed"}
        BY <1>3, <1>7 DEF Places
      <4> QED
        BY <1>1, <2>6, <2>7, <3>2, <3>3, <4>1, <4>2, <4>3 DEF ProofOK
    <3>8. SmoothOK'
      <4> SUFFICES ASSUME next.smooth PROVE SmoothOK'
        BY <3>2 DEF SmoothOK
      <4>1. ~Moving /\ rec.smooth /\ whole
        BY <2>4 DEF PagesInv, SmoothOK
      <4>2. ASSUME rec.read[1].covered, NEW t \in rec.before \cap Matching, t \notin rec.read[1].seen
            PROVE  book[t] = "closed" /\ (res[2].covered => t \in res[2].seen)
        <5>1. book[t] = "closed" /\ Reached(t, r)
          BY <2>13, <4>1, <4>2 DEF PagesInv, SmoothOK, r
        <5> QED
          BY <1>6, <1>7, <2>2, <2>13, <4>1, <5>1
      <4> QED
        BY <1>1, <2>5, <3>2, <3>3, <4>1, <4>2 DEF SmoothOK
    <3> QED
      BY <2>5, <2>8, <3>4, <3>5, <3>6, <3>7, <3>8 DEF PagesInv
  <2> QED
    BY <1>2, <1>3, <1>9, <2>11, <2>12, <2>13
<1> QED
  BY <1>8, <1>9

LEMMA ReadPageSteps ==
  ASSUME PagesInv, answer = "none", ReadPage
  PROVE  PagesInv'
<1> DEFINE from == rec.read[rec.list].offset
<1>1. rec.pc = "reading" /\ UNCHANGED <<book, gap, over, age, answer, pagesFaults>>
  BY DEF ReadPage
<1>2. PICK list \in BrokerLists(ListOrder[rec.list]), cap \in Caps :
        \E offset \in IF OffsetHonoured \/ from = 0 THEN {from} ELSE 0..Len(list) :
          Request(list, offset, cap)
  BY DEF ReadPage
<1>3. PICK offset \in IF OffsetHonoured \/ from = 0 THEN {from} ELSE 0..Len(list) :
        Request(list, offset, cap)
  BY <1>2
<1>4. from \in Nat
  BY DEF PagesInv, PagesTyped, Attempts, Reader
<1>5. offset \in Nat /\ (from = 0 => offset = 0)
  BY <1>3, <1>4
<1> QED
  BY <1>1, <1>3, <1>5, RequestSteps

LEMMA PagesSteps == ASSUME PagesInv, [PagesNext]_pagesVars PROVE PagesInv'
<1>1. CASE PagesNext
  <2>1. answer = "none"
    BY <1>1 DEF PagesNext
  <2>2. ASSUME NEW t \in Trades, OpenTrade(t) PROVE PagesInv'
    BY <2>1, <2>2, OpenTradeSteps
  <2>3. ASSUME NEW t \in Trades, CloseTrade(t) PROVE PagesInv'
    BY <2>1, <2>3, CloseTradeSteps
  <2>4. ASSUME NEW t \in Trades, Appear(t) PROVE PagesInv'
    BY <2>1, <2>4, AppearSteps
  <2>5. CASE WindowCloses
    BY <2>1, <2>5, WindowClosesSteps
  <2>6. CASE Tick
    BY <2>1, <2>6, TickSteps
  <2>7. CASE Claim
    BY <2>1, <2>7, ClaimSteps
  <2>8. CASE ReadPage
    BY <2>1, <2>8, ReadPageSteps
  <2>9. CASE Decide
    BY <2>1, <2>9, DecideSteps
  <2>10. CASE AttemptTimesOut
    BY <2>1, <2>10, AttemptTimesOutSteps
  <2>11. CASE Fail
    BY <2>1, <2>11, FailSteps
  <2> QED
    BY <1>1, <2>2, <2>3, <2>4, <2>5, <2>6, <2>7, <2>8, <2>9, <2>10, <2>11
    DEF PagesNext, Broker, Attempt
<1>2. CASE UNCHANGED pagesVars
  BY <1>2, PagesStutters
<1> QED
  BY <1>1, <1>2

LEMMA PagesTypes == PagesInv => PagesTypeOK
<1> SUFFICES ASSUME PagesInv PROVE PagesTypeOK
  OBVIOUS
<1>1. PagesTyped
  BY DEF PagesInv
<1>2. /\ rec.pc \in {"idle", "reading", "deciding"} /\ rec.list \in {1, 2}
      /\ rec.over \in BOOLEAN /\ rec.smooth \in BOOLEAN
      /\ \A k \in {1, 2} : rec.read[k] \in Reader
  BY <1>1 DEF PagesTyped, Attempts
<1>3. \A k \in {1, 2} : rec.read[k].pages \in 0..MaxPages /\ rec.read[k].seen \subseteq Trades
  BY <1>2 DEF Reader
<1>4. {over, absent, rec.over, rec.smooth} \subseteq BOOLEAN
  BY <1>1, <1>2 DEF PagesTyped
<1> QED
  BY <1>1, <1>2, <1>3, <1>4 DEF PagesTypeOK, PagesTyped

\* Every matching trade of before was seen when both lists are covered.
LEMMA FoundIsAloneSteps == ASSUME PagesInv, PagesNext PROVE FoundIsAlone
<1> SUFFICES ASSUME answer' = "found", rec.smooth
             PROVE  Cardinality(Exact) = 1 /\ rec.before \cap Matching \subseteq Exact
  BY DEF FoundIsAlone
<1>1. answer = "none"
  BY DEF PagesNext
<1>2. answer' # answer
  BY <1>1
<1>3. Decide
  BY <1>2 DEF PagesNext, Broker, Attempt, OpenTrade, CloseTrade, Appear, WindowCloses, Tick,
              Claim, ReadPage, AttemptTimesOut, Fail
<1>4. rec.pc = "deciding" /\ Found
  BY <1>1, <1>3 DEF Decide, Absence, Release
<1>5. rec.list = 2
  BY <1>4 DEF PagesInv, AttemptOK
<1>6. Cardinality(Exact) = 1 /\ rec.read[1].covered /\ rec.read[2].covered
  BY <1>4 DEF Found, Covered
<1>7. \A t \in rec.before \cap Matching : t \in rec.read[1].seen \/ t \in rec.read[2].seen
  BY <1>4, <1>5, <1>6 DEF PagesInv, SmoothOK
<1> QED
  BY <1>6, <1>7 DEF Exact, Seen

\* However the broker cuts, orders and moves its pages, the reconciler gives the token back only when
\* the order has no trade, and the trade it links under A2 and A3 has no twin (rest-reconciler.ts).
THEOREM PagesStaySafe == PagesSpec => PagesSafe
<1>1. PagesSpec => []PagesInv
  BY PagesInits, PagesSteps, PTL DEF PagesSpec
<1>2. PagesInv => PagesTypeOK /\ ReleasedHasNoTrade
  BY PagesTypes DEF PagesInv
<1>3. PagesInv /\ [PagesNext]_pagesVars => [FoundIsAlone]_pagesVars
  BY FoundIsAloneSteps
<1>4. PagesSpec => [](PagesTypeOK /\ ReleasedHasNoTrade)
  BY <1>1, <1>2, PTL
<1>5. PagesSpec => [][FoundIsAlone]_pagesVars
  BY <1>1, <1>3, PTL DEF PagesSpec
<1> QED
  BY <1>4, <1>5 DEF PagesSafe

=============================================================================
