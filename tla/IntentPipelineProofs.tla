------------------------- MODULE IntentPipelineProofs -------------------------
(***************************************************************************)
(* What the pipeline promises for every number of intents, worker slots,   *)
(* reconciling processes and faults: each step is a transaction of the     *)
(* store or none, an order is sent at most once, and a token that was given  *)
(* back is never followed by a trade.                                      *)
(*                                                                         *)
(* PInv is the invariant all of it rests on; its parts are the types, what   *)
(* the memory of a process still says of the world, and what a status says   *)
(* of the order.  OrderInv adds the broker's side, which holds while every   *)
(* trade of the account is the trade of an order (NoHandTrades).           *)
(***************************************************************************)
EXTENDS IntentPipeline, IntentStoreProofs, FiniteSetTheorems

-----------------------------------------------------------------------------
(* The invariants                                                           *)

JobRow == [state : {"none", "waiting", "active"}, owner : Workers \cup {NoWorker},
           stalls : 0..MaxStalledCount]

SlotRow == [pc : {"idle", "queued", "submitting", "expire", "late", "paused", "taken", "sent",
                  "answered", "unknown", "done"},
            topic : Topics \cup {"none"}, intent : Intents \cup {NoIntent}, version : Nat,
            result : {"none", "accepted", "rejected", "unknown"}]

AttemptRow == [pc : {"idle", "open", "closed", "decided"}, intent : Intents \cup {NoIntent},
               version : Nat, closing : BOOLEAN, seen : SUBSET Trades,
               result : {"none", "found", "not_found", "ambiguous", "unresolved"},
               found : Trades \cup {NoTrade}, closed : BOOLEAN]

TradeRow == [state : {"open", "closed"}, account : Accounts, terms : Terms]

PipelineTypes ==
  /\ job \in [Topics -> [Intents -> JobRow]]
  /\ addInFlight \subseteq Topics \X Intents
  /\ missing \subseteq Topics \X Intents
  /\ worker \in [Workers -> SlotRow]
  /\ order \in [Intents -> {NoOrder, "inFlight", "opened", "refused"}]
  /\ sends \in [Intents -> Nat]
  /\ DOMAIN brokerTrade = Trades
  /\ rec \in [Replicas -> AttemptRow]
  /\ absent \in [Replicas -> SUBSET Intents]
  /\ faults \in 0..MaxFaults

\* A trade the broker has is of an account and has terms; an order that opened is a trade.
BrokerRows ==
  /\ \A t \in Trades : brokerTrade[t].state = "none" \/ brokerTrade[t] \in TradeRow
  /\ \A i \in Intents : /\ order[i] = "opened" <=> brokerTrade[i].state # "none"
                        /\ order[i] = NoOrder <=> sends[i] = 0

\* What a slot remembers of the intent of its job.
SlotRows ==
  \A w \in Workers :
    /\ worker[w].intent = NoIntent <=> worker[w].pc = "idle"
    /\ worker[w].pc = "answered" =>
         /\ worker[w].result # "none"
         /\ worker[w].result = "accepted" => order[worker[w].intent] = "opened"

\* What an attempt of the reconciliation pass remembers.
AttemptRows ==
  \A r \in Replicas :
    /\ rec[r].pc # "idle" => rec[r].intent \in Intents
    /\ \A t \in rec[r].seen : brokerTrade[t].state # "none"
    /\ rec[r].pc = "decided" =>
         /\ rec[r].result # "none"
         /\ rec[r].result = "found" => /\ rec[r].found \in Trades
                                       /\ brokerTrade[rec[r].found].state # "none"

ShapeInv == PipelineTypes /\ BrokerRows /\ SlotRows /\ AttemptRows

-----------------------------------------------------------------------------
\* A slot that took the intent and has not recorded the outcome.
Past(w, i) == worker[w].intent = i /\ worker[w].pc \in {"taken", "sent", "answered"}

\* One slot at a time is past the take, and the order is sent from there only.
TakenOnce ==
  /\ \A i \in Intents : intent[i].status \in {"absent", "queued"} =>
       sends[i] = 0 /\ \A w \in Workers : ~Past(w, i)
  /\ \A i \in Intents, w, x \in Workers : Past(w, i) /\ Past(x, i) => w = x
  /\ \A i \in Intents : Poised(i) => sends[i] = 0
  /\ \A i \in Intents : sends[i] <= 1

\* The reasons of a plain refusal end an intent nothing was sent for.
PlainIsFinal ==
  \A i \in Intents : intent[i].error \in PlainReasons =>
    intent[i].status = "rejected" /\ sends[i] = 0 /\ ~Poised(i)

\* A demo-only worker leaves a real intent where it found it.
DemoFence ==
  WorkerDemoOnly => \A i \in Intents : ModeOf(i) = "real" =>
    /\ intent[i].status \in {"absent", "queued", "rejected"}
    /\ sends[i] = 0 /\ \A w \in Workers : ~Past(w, i)

SendInv == TakenOnce /\ PlainIsFinal /\ DemoFence

PInv == StepInv /\ ShapeInv /\ SendInv

-----------------------------------------------------------------------------
\* Every trade is the trade of an order: no user trades by hand beside the bot.
NoHandTrades == Trades = Intents

OrderRows ==
  \A i \in Intents : brokerTrade[i].state # "none" =>
    /\ brokerTrade[i].account = AccountOf[i]
    /\ brokerTrade[i].terms.mode = TermsOf[i].mode
    /\ brokerTrade[i].terms.side = TermsOf[i].side

\* A refusal a slot still has to record is of an order that cannot open.
RefusedSlots ==
  \A w \in Workers : worker[w].pc = "answered" /\ worker[w].result = "rejected" =>
    order[worker[w].intent] \in {NoOrder, "refused"}

OneLive ==
  \A i, j \in Intents : i # j /\ AccountOf[i] = AccountOf[j] => ~(Live(i) /\ Live(j))

\* The order was sent or never will be, and the broker has acted on it.
Over(i) == order[i] # "inFlight" /\ ~Poised(i)

WindowIsOver ==
  \A i \in Intents :
    /\ "window" \in elapsed[i] => intent[i].status \notin {"absent", "queued"} /\ Over(i)
    /\ intent[i].status = "manual_review" => Over(i)

\* What an attempt knows, with i its intent: a closing attempt's open list missed no open
\* trade of the order; what it found is the trade of the order unless the intent is over.
AttemptKnows(r, i) ==
  /\ intent[i].status \notin {"absent", "queued"}
  /\ rec[r].closing => Over(i)
  /\ \A t \in rec[r].seen : brokerTrade[t].account = AccountOf[i]
  /\ rec[r].pc = "closed" /\ rec[r].closing /\ brokerTrade[i].state = "open" => i \in rec[r].seen
  /\ rec[r].pc = "decided" =>
       /\ rec[r].result # "found" => rec[r].closing
       /\ rec[r].result = "not_found" => brokerTrade[i].state = "none" \/ trade[i] # NoLink
       /\ rec[r].result = "found" =>
            /\ rec[r].found = i \/ ~Live(i)
            /\ brokerTrade[rec[r].found].terms = TermsOf[i]
            /\ rec[r].closed => brokerTrade[rec[r].found].state = "closed"

AttemptsKnow ==
  \A r \in Replicas : rec[r].pc # "idle" => AttemptKnows(r, rec[r].intent)

OrderInv ==
  /\ OrderRows /\ RefusedSlots /\ OneLive /\ WindowIsOver /\ AttemptsKnow
  /\ ReleasedOrderNeverOpens /\ LinkedToOwnTrade

-----------------------------------------------------------------------------
(* Every step is a transaction of the store, or none                        *)

StoreStep == [StoreNext]_dbVars

\* The CAS is at the version the row has.
LEMMA AtCurrent ==
  ASSUME NEW i \in Intents, NEW from, NEW v, At(i, from, v)
  PROVE  At(i, from, intent[i].version)
BY DEF At

LEMMA QuietStore == ASSUME UNCHANGED dbVars PROVE StoreStep
BY DEF StoreStep

LEMMA DeliveryStore ==
  ASSUME NEW q \in Topics, NEW i \in Intents,
         MarkPublished(q, i) \/ \E from \in {"pending", "published"} :
                                  RecordDeliveryFailure(q, i, from)
  PROVE  StoreStep
BY DEF StoreStep, StoreNext, Delivery

\* The rejections a worker writes, each under its own predicate.
LEMMA RefusalStore ==
  ASSUME NEW i \in Intents, NEW v,
         \/ RejectExpiredIntent(i, v) \/ RejectLateIntent(i, v) \/ RejectPausedIntent(i, v)
         \/ WorkerDemoOnly /\ ModeOf(i) = "real" /\ RejectIntent(i, "queued", v, "demo_only")
  PROVE  StoreStep
<1>1. Refusal(i, intent[i].version)
  BY AtCurrent DEF Refusal, RejectExpiredIntent, RejectLateIntent, RejectPausedIntent,
                   RejectIntent
<1> QED
  BY <1>1 DEF StoreStep, StoreNext

LEMMA SubmissionStore ==
  ASSUME NEW i \in Intents, NEW v, Submission(i, v)
  PROVE  StoreStep
<1>1. Submission(i, intent[i].version)
  <2>1. CASE TakeIntent(i, v)
    BY <2>1, AtCurrent DEF Submission, TakeIntent, MayTake
  <2>2. CASE RejectIntent(i, "submitting", v, "broker_rejected")
    BY <2>2, AtCurrent DEF Submission, RejectIntent
  <2>3. ASSUME NEW reason \in {"broker_unavailable", "trade_mismatch"},
               MarkIntentUnknown(i, v, reason, FALSE)
        PROVE  Submission(i, intent[i].version)
    BY <2>3, AtCurrent DEF Submission, MarkIntentUnknown
  <2>4. CASE MarkIntentUnknown(i, AnyVersion, "stale_submitting", TRUE)
    BY <2>4 DEF Submission
  <2>5. ASSUME NEW t \in Trades, NEW terms \in Terms,
               MarkIntentAccepted(i, v, "submitting", t, terms)
        PROVE  Submission(i, intent[i].version)
    BY <2>5, AtCurrent DEF Submission, MarkIntentAccepted
  <2> QED
    BY <2>1, <2>2, <2>3, <2>4, <2>5 DEF Submission
<1> QED
  BY <1>1 DEF StoreStep, StoreNext

LEMMA ReconciliationStore ==
  ASSUME NEW i \in Intents, NEW v, Reconciliation(i, v)
  PROVE  StoreStep
<1>1. Reconciliation(i, intent[i].version)
  <2>1. CASE StartReconciling(i, v)
    BY <2>1, AtCurrent DEF Reconciliation, StartReconciling
  <2>2. CASE ClaimReconciling(i)
    BY <2>2 DEF Reconciliation
  <2>3. ASSUME NEW t \in Trades, NEW terms \in Terms,
               ConcludeOpen(i, v, t, terms) \/ ConcludeClosed(i, v, t, terms)
        PROVE  Reconciliation(i, intent[i].version)
    BY <2>3, AtCurrent DEF Reconciliation, ConcludeOpen, ConcludeClosed, MarkIntentAccepted
  <2>4. CASE RejectIntent(i, "reconciling", v, "reconciliation_not_found")
    BY <2>4, AtCurrent DEF Reconciliation, RejectIntent
  <2>5. ASSUME NEW reason \in {"reconciliation_ambiguous", "reconciliation_not_found",
                               "trade_mismatch"},
               HaltAccountForManualReview(i, v, reason)
        PROVE  Reconciliation(i, intent[i].version)
    BY <2>5, AtCurrent DEF Reconciliation, HaltAccountForManualReview
  <2> QED
    BY <2>1, <2>2, <2>3, <2>4, <2>5 DEF Reconciliation
<1> QED
  BY <1>1 DEF StoreStep, StoreNext

\* The outcome of a worker: one of the four transactions, with the broker's trade.
LEMMA OutcomeStore ==
  ASSUME ShapeInv, NEW w \in Workers, PersistOutcome(w)
  PROVE  StoreStep
<1> DEFINE i == worker[w].intent
           v == worker[w].version
<1>1. /\ worker[w] \in SlotRow /\ worker[w].pc = "answered"
      /\ worker[w].result \in {"accepted", "rejected", "unknown"}
      /\ worker[w].result = "accepted" => order[i] = "opened"
  BY DEF ShapeInv, PipelineTypes, SlotRows, SlotRow, PersistOutcome
<1>2. i \in Intents
  BY <1>1 DEF ShapeInv, SlotRows, SlotRow
<1>3. CASE UNCHANGED dbVars
  BY <1>3, QuietStore
<1>4. CASE At(i, "submitting", v) /\ worker[w].result = "accepted"
  <2>1. i \in Trades /\ brokerTrade[i].terms \in Terms
    BY <1>1, <1>2, <1>4, PipelineAssumption
    DEF PipelineAssumption, ShapeInv, BrokerRows, TradeRow
  <2>2. \/ MarkIntentUnknown(i, v, "trade_mismatch", FALSE)
        \/ MarkIntentAccepted(i, v, "submitting", i, brokerTrade[i].terms)
    BY <1>4 DEF PersistOutcome
  <2>3. Submission(i, v)
    BY <2>1, <2>2 DEF Submission
  <2> QED
    BY <1>2, <2>3, SubmissionStore
<1>5. CASE At(i, "submitting", v) /\ worker[w].result = "rejected"
  <2>1. RejectIntent(i, "submitting", v, "broker_rejected")
    BY <1>5 DEF PersistOutcome
  <2> QED
    BY <1>2, <2>1, SubmissionStore DEF Submission
<1>6. CASE At(i, "submitting", v) /\ worker[w].result = "unknown"
  <2>1. MarkIntentUnknown(i, v, "broker_unavailable", FALSE)
    BY <1>6 DEF PersistOutcome
  <2> QED
    BY <1>2, <2>1, SubmissionStore DEF Submission
<1>7. CASE ~At(i, "submitting", v)
  BY <1>7, QuietStore DEF PersistOutcome
<1> QED
  BY <1>1, <1>4, <1>5, <1>6, <1>7

\* The outcome of an attempt.
LEMMA PersistStore ==
  ASSUME ShapeInv, NEW r \in Replicas, Persist(r)
  PROVE  StoreStep
<1> DEFINE i == rec[r].intent
           v == rec[r].version
           t == rec[r].found
           terms == brokerTrade[t].terms
<1>1. /\ rec[r] \in AttemptRow /\ rec[r].pc = "decided" /\ i \in Intents
      /\ rec[r].result \in {"found", "not_found", "ambiguous", "unresolved"}
      /\ rec[r].result = "found" => t \in Trades /\ brokerTrade[t].state # "none"
  BY DEF ShapeInv, PipelineTypes, AttemptRows, AttemptRow, Persist
<1>2. CASE At(i, "reconciling", v) /\ rec[r].result = "found"
  <2>1. t \in Trades /\ terms \in Terms
    BY <1>1, <1>2 DEF ShapeInv, BrokerRows, TradeRow
  <2>2. \/ HaltAccountForManualReview(i, v, "trade_mismatch")
        \/ ConcludeClosed(i, v, t, terms)
        \/ ConcludeOpen(i, v, t, terms)
    BY <1>2 DEF Persist
  <2>3. Reconciliation(i, v)
    BY <2>1, <2>2 DEF Reconciliation
  <2> QED
    BY <1>1, <2>3, ReconciliationStore
<1>3. CASE At(i, "reconciling", v) /\ rec[r].result = "not_found"
  <2>1. RejectIntent(i, "reconciling", v, "reconciliation_not_found")
    BY <1>3 DEF Persist
  <2> QED
    BY <1>1, <2>1, ReconciliationStore DEF Reconciliation
<1>4. CASE At(i, "reconciling", v) /\ rec[r].result = "ambiguous"
  <2>1. HaltAccountForManualReview(i, v, "reconciliation_ambiguous")
    BY <1>4 DEF Persist
  <2> QED
    BY <1>1, <2>1, ReconciliationStore DEF Reconciliation
<1>5. CASE At(i, "reconciling", v) /\ rec[r].result = "unresolved"
  <2>1. HaltAccountForManualReview(i, v, "reconciliation_not_found")
    BY <1>5 DEF Persist
  <2> QED
    BY <1>1, <2>1, ReconciliationStore DEF Reconciliation
<1>6. CASE ~At(i, "reconciling", v)
  BY <1>6, QuietStore DEF Persist
<1> QED
  BY <1>1, <1>2, <1>3, <1>4, <1>5, <1>6

\* A slot that is at work has the intent of its job.
LEMMA SlotIntent ==
  ASSUME ShapeInv, NEW w \in Workers, worker[w].pc # "idle"
  PROVE  worker[w].intent \in Intents /\ worker[w].version \in Nat
<1>1. worker[w] \in SlotRow
  BY DEF ShapeInv, PipelineTypes
<1> QED
  BY <1>1 DEF ShapeInv, SlotRows, SlotRow

LEMMA QueuedStore ==
  ASSUME ShapeInv, NEW w \in Workers, HandleQueued(w) \/ HandleRefused(w)
  PROVE  StoreStep
<1> DEFINE i == worker[w].intent
           v == worker[w].version
<1>1. i \in Intents
  BY SlotIntent DEF HandleQueued, HandleRefused
<1>2. \/ UNCHANGED dbVars
      \/ TakeIntent(i, v)
      \/ RejectExpiredIntent(i, v) \/ RejectLateIntent(i, v) \/ RejectPausedIntent(i, v)
      \/ WorkerDemoOnly /\ ModeOf(i) = "real" /\ RejectIntent(i, "queued", v, "demo_only")
  BY DEF HandleQueued, HandleRefused
<1> QED
  BY <1>1, <1>2, QuietStore, SubmissionStore, RefusalStore DEF Submission

LEMMA SlotStore == ASSUME ShapeInv, NEW w \in Workers, Slot(w) PROVE StoreStep
<1>1. CASE HandleQueued(w) \/ HandleRefused(w)
  BY <1>1, QueuedStore
<1>2. CASE HandleSubmitting(w)
  <2>1. worker[w].intent \in Intents
    BY <1>2, SlotIntent DEF HandleSubmitting
  <2>2. \/ UNCHANGED dbVars
        \/ MarkIntentUnknown(worker[w].intent, AnyVersion, "stale_submitting", TRUE)
    BY <1>2 DEF HandleSubmitting
  <2> QED
    BY <2>1, <2>2, QuietStore, SubmissionStore DEF Submission
<1>3. CASE NotSent(w) \/ Send(w) \/ Answer(w) \/ Finish(w)
  BY <1>3, QuietStore DEF NotSent, Send, Answer, Finish
<1>4. CASE PersistOutcome(w)
  BY <1>4, OutcomeStore
<1>5. CASE HandleUnknown(w)
  <2>1. worker[w].intent \in Intents
    BY <1>5, SlotIntent DEF HandleUnknown
  <2>2. UNCHANGED dbVars \/ StartReconciling(worker[w].intent, worker[w].version)
    BY <1>5 DEF HandleUnknown
  <2> QED
    BY <2>1, <2>2, QuietStore, ReconciliationStore DEF Reconciliation
<1> QED
  BY <1>1, <1>2, <1>3, <1>4, <1>5 DEF Slot

\* Settlement, by the trade's row or by the operator.
LEMMA SettlementStore ==
  ASSUME IInv, ShapeInv, NEW i \in Intents,
         SettleClosedTrade(i) \/ OperatorSettles(i) \/ OperatorReleases(i)
  PROVE  StoreStep
<1>1. ASSUME NEW t \in Trades, brokerTrade[t].state # "none",
             NEW from \in {"accepted", "manual_review"},
             SettleIntent(i, AnyVersion, from, t, brokerTrade[t].terms)
      PROVE  StoreStep
  <2>1. brokerTrade[t].terms \in Terms
    BY <1>1 DEF ShapeInv, BrokerRows, TradeRow
  <2>2. Conclusion(i)
    BY <1>1, <2>1 DEF Conclusion
  <2> QED
    BY <2>2 DEF StoreStep, StoreNext
<1>2. CASE SettleClosedTrade(i)
  <2>1. trade[i].id \in Trades
    BY <1>2 DEF IInv, RowsInv, TypeOK, TradeFollowsStatus, SettleClosedTrade
  <2> QED
    BY <1>1, <1>2, <2>1 DEF SettleClosedTrade
<1>3. CASE OperatorSettles(i)
  BY <1>1, <1>3, PipelineAssumption DEF OperatorSettles, PipelineAssumption
<1>4. CASE OperatorReleases(i)
  BY <1>4 DEF OperatorReleases, Conclusion, StoreStep, StoreNext
<1> QED
  BY <1>2, <1>3, <1>4

\* The whole next-state relation.
LEMMA PipelineStore == ASSUME IInv, ShapeInv, [PipelineNext]_vars PROVE StoreStep
<1>1. CASE Api
  BY <1>1 DEF Api, StoreStep, StoreNext
<1>2. ASSUME NEW q \in Topics, NEW i \in Intents,
             \/ Publish(q, i) \/ PublishFails(q, i) \/ LandAdd(q, i) \/ PublisherCrash(q, i)
             \/ FindMissing(q, i) \/ Repend(q, i) \/ LoseJob(q, i) \/ StallJob(q, i)
             \/ \E w \in Workers : TakeJob(w, q, i)
      PROVE  StoreStep
  <2>1. CASE Publish(q, i) \/ PublishFails(q, i) \/ Repend(q, i)
    BY <2>1, QuietStore, DeliveryStore DEF Publish, PublishFails, Repend
  <2>2. CASE ~(Publish(q, i) \/ PublishFails(q, i) \/ Repend(q, i))
    BY <1>2, <2>2, QuietStore
    DEF LandAdd, PublisherCrash, FindMissing, LoseJob, StallJob, TakeJob
  <2> QED
    BY <2>1, <2>2
<1>3. ASSUME NEW w \in Workers, Slot(w) \/ FailJob(w) \/ WorkerCrash(w) PROVE StoreStep
  BY <1>3, SlotStore, QuietStore DEF FailJob, WorkerCrash
<1>4. ASSUME NEW r \in Replicas,
             Attempt(r) \/ ReplicaCrash(r) \/ \E i \in Intents : Claim(r, i)
      PROVE  StoreStep
  <2>1. CASE Persist(r)
    BY <2>1, PersistStore
  <2>2. CASE ReadOpen(r) \/ Decide(r) \/ AttemptFails(r) \/ ReplicaCrash(r)
    BY <2>2, QuietStore DEF ReadOpen, Decide, AttemptFails, ReplicaCrash
  <2>3. ASSUME NEW i \in Intents, Claim(r, i) PROVE StoreStep
    BY <2>3, ReconciliationStore DEF Claim, Reconciliation
  <2> QED
    BY <1>4, <2>1, <2>2, <2>3 DEF Attempt
<1>5. ASSUME NEW i \in Intents,
             \/ Sweep(i) \/ Broker(i) \/ SettleClosedTrade(i)
             \/ OperatorSettles(i) \/ OperatorReleases(i)
             \/ \E timer \in Timers : Pass(i, timer)
      PROVE  StoreStep
  <2>1. CASE Sweep(i)
    BY <2>1, SubmissionStore DEF Sweep, Submission
  <2>2. CASE Broker(i)
    BY <2>2, QuietStore DEF Broker, OpenOrder, RefuseOrder
  <2>3. CASE SettleClosedTrade(i) \/ OperatorSettles(i) \/ OperatorReleases(i)
    BY <2>3, SettlementStore
  <2>4. CASE \E timer \in Timers : Pass(i, timer)
    BY <2>4 DEF Pass, StoreStep, StoreNext
  <2> QED
    BY <1>5, <2>1, <2>2, <2>3, <2>4
<1>6. ASSUME NEW t \in Trades,
             CloseTrade(t) \/ \E a \in Accounts, terms \in Terms : PlatformTrade(t, a, terms)
      PROVE  StoreStep
  BY <1>6, QuietStore DEF CloseTrade, PlatformTrade
<1>7. CASE UNCHANGED vars
  BY <1>7, QuietStore DEF vars
<1> QED
  BY <1>1, <1>2, <1>3, <1>4, <1>5, <1>6, <1>7 DEF PipelineNext

-----------------------------------------------------------------------------
(* The shapes                                                               *)

LEMMA FaultType == ASSUME ShapeInv, Fault \/ UNCHANGED faults PROVE faults' \in 0..MaxFaults
BY PipelineAssumption DEF ShapeInv, PipelineTypes, Fault, PipelineAssumption

\* A step of the publisher or of Redis.
LEMMA QueueShape ==
  ASSUME ShapeInv, UNCHANGED <<worker, brokerVars, passVars>>,
         job' \in [Topics -> [Intents -> JobRow]],
         addInFlight' \subseteq Topics \X Intents, missing' \subseteq Topics \X Intents,
         Fault \/ UNCHANGED faults
  PROVE  ShapeInv'
<1>1. faults' \in 0..MaxFaults
  BY FaultType
<1> QED
  BY <1>1 DEF ShapeInv, PipelineTypes, BrokerRows, SlotRows, AttemptRows, brokerVars, passVars

\* One job of the queue changes.
LEMMA JobType ==
  ASSUME ShapeInv, NEW q \in Topics, NEW i \in Intents, NEW row \in JobRow,
         job' = [job EXCEPT ![q][i] = row]
  PROVE  job' \in [Topics -> [Intents -> JobRow]]
BY DEF ShapeInv, PipelineTypes

LEMMA AddedType ==
  ASSUME ShapeInv, NEW q \in Topics, NEW i \in Intents
  PROVE  Added(q, i) \in [Topics -> [Intents -> JobRow]]
<1>1. job \in [Topics -> [Intents -> JobRow]] /\ job[q][i] \in JobRow
  BY DEF ShapeInv, PipelineTypes
<1>2. [job[q][i] EXCEPT !.state = "waiting"] \in JobRow
  BY <1>1 DEF JobRow
<1> QED
  BY <1>1, <1>2 DEF Added

LEMMA QueueSteps ==
  ASSUME ShapeInv, NEW q \in Topics, NEW i \in Intents,
         \/ Publish(q, i) \/ PublishFails(q, i) \/ LandAdd(q, i) \/ PublisherCrash(q, i)
         \/ FindMissing(q, i) \/ Repend(q, i) \/ LoseJob(q, i) \/ StallJob(q, i)
  PROVE  ShapeInv' /\ UNCHANGED <<worker, brokerVars, passVars>>
<1> DEFINE Jobs == [Topics -> [Intents -> JobRow]]
<1>1. UNCHANGED <<worker, brokerVars, passVars>> /\ (Fault \/ UNCHANGED faults)
  BY DEF Publish, PublishFails, LandAdd, PublisherCrash, FindMissing, Repend, LoseJob, StallJob
<1>2. addInFlight' \subseteq Topics \X Intents /\ missing' \subseteq Topics \X Intents
  BY DEF ShapeInv, PipelineTypes, Publish, PublishFails, LandAdd, PublisherCrash, FindMissing,
         Repend, LoseJob, StallJob
<1>3. job \in Jobs /\ job[q][i] \in JobRow
  BY DEF ShapeInv, PipelineTypes
<1>4. job' \in Jobs
  <2>1. CASE UNCHANGED job
    BY <1>3, <2>1
  <2>2. CASE Publish(q, i) \/ LandAdd(q, i) \/ PublisherCrash(q, i)
    BY <2>2, AddedType DEF Publish, LandAdd, PublisherCrash
  <2>3. CASE LoseJob(q, i)
    <3>1. NoJob \in JobRow
      BY PipelineAssumption DEF NoJob, JobRow, PipelineAssumption
    <3> QED
      BY <2>3, <3>1, JobType DEF LoseJob
  <2>4. CASE StallJob(q, i)
    <3> DEFINE row == IF job[q][i].stalls < MaxStalledCount
                      THEN [state |-> "waiting", owner |-> NoWorker,
                            stalls |-> job[q][i].stalls + 1]
                      ELSE NoJob
    <3>1. row \in JobRow
      BY <1>3, PipelineAssumption DEF NoJob, JobRow, PipelineAssumption
    <3>2. job' = [job EXCEPT ![q][i] = row]
      BY <2>4 DEF StallJob
    <3> HIDE DEF row
    <3> QED
      BY <3>1, <3>2, JobType
  <2> QED
    BY <2>1, <2>2, <2>3, <2>4 DEF PublishFails, FindMissing, Repend
<1> QED
  BY <1>1, <1>2, <1>4, QueueShape

\* One slot changes, and the broker and the pass do not.
LEMMA SlotShape ==
  ASSUME ShapeInv, NEW w \in Workers, worker' \in [Workers -> SlotRow],
         \A x \in Workers : x # w => worker'[x] = worker[x],
         worker'[w].intent = NoIntent <=> worker'[w].pc = "idle",
         worker'[w].pc = "answered" =>
           /\ worker'[w].result # "none"
           /\ worker'[w].result = "accepted" => order[worker'[w].intent] = "opened",
         UNCHANGED <<brokerVars, passVars>>,
         job' \in [Topics -> [Intents -> JobRow]], UNCHANGED <<addInFlight, missing>>,
         Fault \/ UNCHANGED faults
  PROVE  ShapeInv'
<1>1. faults' \in 0..MaxFaults
  BY FaultType
<1>2. PipelineTypes'
  BY <1>1 DEF ShapeInv, PipelineTypes, brokerVars, passVars
<1>3. SlotRows'
  BY DEF ShapeInv, PipelineTypes, SlotRows, brokerVars
<1> QED
  BY <1>2, <1>3 DEF ShapeInv, BrokerRows, AttemptRows, brokerVars, passVars

\* A slot at work goes on with the intent of its job.
Becomes(w, pc, version, result) ==
  /\ worker' \in [Workers -> SlotRow]
  /\ \A x \in Workers : x # w => worker'[x] = worker[x]
  /\ worker'[w].intent = worker[w].intent
  /\ worker'[w].pc = pc /\ worker'[w].version = version /\ worker'[w].result = result

WorkPcs == {"queued", "submitting", "expire", "late", "paused", "taken", "sent", "answered",
            "unknown", "done"}

SlotSet(w, pc, version, result) ==
  worker' = [worker EXCEPT ![w] = [worker[w] EXCEPT !.pc = pc, !.version = version,
                                                    !.result = result]]

LEMMA RowBecomes ==
  ASSUME ShapeInv, NEW w \in Workers, NEW pc \in WorkPcs, NEW version \in Nat,
         NEW result \in {"none", "accepted", "rejected", "unknown"},
         SlotSet(w, pc, version, result)
  PROVE  Becomes(w, pc, version, result)
<1> DEFINE row == [worker[w] EXCEPT !.pc = pc, !.version = version, !.result = result]
<1>1. worker \in [Workers -> SlotRow] /\ worker[w] \in SlotRow
  BY DEF ShapeInv, PipelineTypes
<1>2. /\ row \in SlotRow /\ row.intent = worker[w].intent
      /\ row.pc = pc /\ row.version = version /\ row.result = result
  BY ZenonT(60), <1>1 DEF SlotRow, WorkPcs
<1>3. worker' = [worker EXCEPT ![w] = row]
  BY DEF SlotSet
<1> HIDE DEF row
<1> QED
  BY <1>1, <1>2, <1>3 DEF Becomes

LEMMA GoBecomes ==
  ASSUME ShapeInv, NEW w \in Workers, NEW pc \in WorkPcs, Go(w, pc)
  PROVE  Becomes(w, pc, worker[w].version, worker[w].result)
<1>1. worker \in [Workers -> SlotRow] /\ worker[w] \in SlotRow
  BY DEF ShapeInv, PipelineTypes
<1>2. [worker[w] EXCEPT !.pc = pc] \in SlotRow
  BY <1>1 DEF SlotRow, WorkPcs
<1>3. worker' = [worker EXCEPT ![w] = [worker[w] EXCEPT !.pc = pc]]
  BY DEF Go
<1>4. /\ worker' \in [Workers -> SlotRow]
      /\ \A x \in Workers : x # w => worker'[x] = worker[x]
      /\ worker'[w] = [worker[w] EXCEPT !.pc = pc]
  BY <1>1, <1>2, <1>3
<1>5. /\ worker'[w].intent = worker[w].intent /\ worker'[w].pc = pc
      /\ worker'[w].version = worker[w].version /\ worker'[w].result = worker[w].result
  BY <1>1, <1>4 DEF SlotRow
<1> QED
  BY <1>4, <1>5 DEF Becomes

LEMMA DoneBecomes ==
  ASSUME ShapeInv, NEW w \in Workers, Done(w)
  PROVE  Becomes(w, "done", 0, "none")
<1>1. worker \in [Workers -> SlotRow] /\ worker[w] \in SlotRow
  BY DEF ShapeInv, PipelineTypes
<1>2. SlotSet(w, "done", 0, "none")
  BY <1>1 DEF Done, SlotSet
<1>3. "done" \in WorkPcs /\ 0 \in Nat /\ "none" \in {"none", "accepted", "rejected", "unknown"}
  BY DEF WorkPcs
<1> QED
  BY <1>2, <1>3, RowBecomes

LEMMA GoesOn ==
  ASSUME ShapeInv, NEW w \in Workers, worker[w].pc # "idle",
         NEW pc \in WorkPcs, NEW version, NEW result, Becomes(w, pc, version, result),
         pc = "answered" => /\ result # "none"
                            /\ result = "accepted" => order[worker[w].intent] = "opened",
         UNCHANGED <<queueVars, brokerVars, passVars, faults>>
  PROVE  ShapeInv'
<1>1. worker[w].intent # NoIntent
  BY DEF ShapeInv, SlotRows
<1>2. /\ worker' \in [Workers -> SlotRow]
      /\ \A x \in Workers : x # w => worker'[x] = worker[x]
  BY DEF Becomes
<1>3. worker'[w].intent = NoIntent <=> worker'[w].pc = "idle"
  BY <1>1 DEF Becomes, WorkPcs
<1>4. worker'[w].pc = "answered" =>
        /\ worker'[w].result # "none"
        /\ worker'[w].result = "accepted" => order[worker'[w].intent] = "opened"
  BY DEF Becomes
<1>5. /\ job' \in [Topics -> [Intents -> JobRow]] /\ UNCHANGED <<addInFlight, missing>>
      /\ UNCHANGED <<brokerVars, passVars>> /\ (Fault \/ UNCHANGED faults)
  BY DEF ShapeInv, PipelineTypes, queueVars
<1> QED
  BY <1>2, <1>3, <1>4, <1>5, SlotShape

-----------------------------------------------------------------------------
(* What a slot does, step by step                                           *)

\* The slot's own steps that are neither the take nor the emit, nor its end.
SlotGoes(w) ==
  \E pc \in WorkPcs \ {"sent"}, version \in Nat,
     result \in {"none", "accepted", "rejected", "unknown"} :
    /\ Becomes(w, pc, version, result)
    /\ pc = "taken" => worker[w].pc = "taken"
    /\ pc = "answered" =>
         /\ worker[w].pc \in {"taken", "sent"}
         /\ result # "none"
         /\ result = "accepted" => order[worker[w].intent] = "opened"
         /\ result = "rejected" => \/ worker[w].pc = "taken"
                                   \/ order[worker[w].intent] = "refused"

LEMMA GoIs ==
  ASSUME ShapeInv, NEW w \in Workers, worker[w].pc # "idle",
         NEW pc \in WorkPcs \ {"sent", "taken", "answered"}, Go(w, pc)
  PROVE  SlotGoes(w)
<1>1. Becomes(w, pc, worker[w].version, worker[w].result)
  BY GoBecomes
<1>2. worker[w] \in SlotRow
  BY DEF ShapeInv, PipelineTypes
<1> QED
  BY <1>1, <1>2 DEF SlotGoes, SlotRow

LEMMA DoneIs == ASSUME ShapeInv, NEW w \in Workers, Done(w) PROVE SlotGoes(w)
<1>1. Becomes(w, "done", 0, "none")
  BY DoneBecomes
<1>2. /\ "done" \in WorkPcs \ {"sent"} /\ 0 \in Nat
      /\ "none" \in {"none", "accepted", "rejected", "unknown"}
  BY DEF WorkPcs
<1> QED
  BY <1>1, <1>2 DEF SlotGoes

\* The take: a queued intent that this process may trade.
SlotTakes(w) ==
  LET i == worker[w].intent
  IN  /\ worker[w].pc = "queued"
      /\ MayTake(i, worker[w].version)
      /\ TakeIntent(i, worker[w].version)
      /\ ~(WorkerDemoOnly /\ ModeOf(i) = "real")
      /\ Becomes(w, "taken", worker[w].version + 1, worker[w].result)

LEMMA QueuedIs ==
  ASSUME ShapeInv, NEW w \in Workers, HandleQueued(w) \/ HandleRefused(w)
  PROVE  SlotTakes(w) \/ SlotGoes(w)
<1>1. /\ worker \in [Workers -> SlotRow] /\ worker[w] \in SlotRow /\ worker[w].pc # "idle"
      /\ worker[w].pc \notin {"taken", "sent"}
  BY DEF ShapeInv, PipelineTypes, HandleQueued, HandleRefused
<1>2. CASE HandleRefused(w)
  <2>1. Done(w) \/ Go(w, "late") \/ Go(w, "paused")
    BY <1>2 DEF HandleRefused
  <2>2. "late" \in WorkPcs \ {"sent", "taken", "answered"}
        /\ "paused" \in WorkPcs \ {"sent", "taken", "answered"}
    BY DEF WorkPcs
  <2> QED
    BY <1>1, <2>1, <2>2, DoneIs, GoIs
<1>3. CASE HandleQueued(w) /\ (Done(w) \/ Go(w, "expire"))
  <2>1. "expire" \in WorkPcs \ {"sent", "taken", "answered"}
    BY DEF WorkPcs
  <2> QED
    BY <1>1, <1>3, <2>1, DoneIs, GoIs
<1>4. CASE HandleQueued(w) /\ ~(Done(w) \/ Go(w, "expire"))
  <2>1. /\ worker[w].pc = "queued"
        /\ MayTake(worker[w].intent, worker[w].version)
        /\ TakeIntent(worker[w].intent, worker[w].version)
        /\ ~(WorkerDemoOnly /\ ModeOf(worker[w].intent) = "real")
        /\ worker' = [worker EXCEPT ![w].pc = "taken", ![w].version = worker[w].version + 1]
    BY <1>4 DEF HandleQueued
  <2>2. SlotSet(w, "taken", worker[w].version + 1, worker[w].result)
    BY <1>1, <2>1 DEF SlotRow, SlotSet
  <2>3. /\ "taken" \in WorkPcs /\ worker[w].version + 1 \in Nat
        /\ worker[w].result \in {"none", "accepted", "rejected", "unknown"}
    BY <1>1 DEF WorkPcs, SlotRow
  <2>4. Becomes(w, "taken", worker[w].version + 1, worker[w].result)
    BY <2>2, <2>3, RowBecomes
  <2> QED
    BY <2>1, <2>4 DEF SlotTakes
<1> QED
  BY <1>2, <1>3, <1>4

\* The executor without a send, and the answer of the broker or its absence.
LEMMA AnswerIs ==
  ASSUME ShapeInv, NEW w \in Workers, NotSent(w) \/ Answer(w)
  PROVE  SlotGoes(w)
<1>1. /\ worker \in [Workers -> SlotRow] /\ worker[w] \in SlotRow
      /\ worker[w].version \in Nat /\ "answered" \in WorkPcs /\ "answered" # "sent"
  BY DEF ShapeInv, PipelineTypes, SlotRow, WorkPcs
<1>2. PICK result \in {"accepted", "rejected", "unknown"} :
        /\ worker' = [worker EXCEPT ![w].pc = "answered", ![w].result = result]
        /\ worker[w].pc \in {"taken", "sent"}
        /\ result = "accepted" => order[worker[w].intent] = "opened"
        /\ result = "rejected" => worker[w].pc = "taken" \/ order[worker[w].intent] = "refused"
  BY DEF NotSent, Answer
<1>3. SlotSet(w, "answered", worker[w].version, result)
  BY <1>1, <1>2 DEF SlotRow, SlotSet
<1>4. Becomes(w, "answered", worker[w].version, result)
  BY <1>1, <1>3, RowBecomes
<1> QED
  BY <1>1, <1>2, <1>4 DEF SlotGoes

\* The one emit.
SlotSends(w) ==
  LET i == worker[w].intent
  IN  /\ worker[w].pc = "taken"
      /\ order' = [order EXCEPT ![i] = "inFlight"]
      /\ sends' = [sends EXCEPT ![i] = @ + 1]
      /\ Becomes(w, "sent", worker[w].version, worker[w].result)

LEMMA SendIs == ASSUME ShapeInv, NEW w \in Workers, Send(w) PROVE SlotSends(w)
BY GoBecomes DEF Send, SlotSends, WorkPcs

\* The end of a job, by its slot's return, a refused statement or the death of the process.
SlotEnds(w) == worker' = [worker EXCEPT ![w] = Idle]

\* The start of a job: what the slot reads of the intent.
SlotStarts(w, q, i) ==
  /\ worker[w] = Idle
  /\ worker' \in [Workers -> SlotRow]
  /\ \A x \in Workers : x # w => worker'[x] = worker[x]
  /\ worker'[w].intent = i /\ worker'[w].result = "none"
  /\ worker'[w].pc \in {"queued", "submitting", "unknown", "done"}

LEMMA TakeJobIs ==
  ASSUME IInv, ShapeInv, NEW w \in Workers, NEW q \in Topics, NEW i \in Intents,
         TakeJob(w, q, i)
  PROVE  SlotStarts(w, q, i)
<1> DEFINE status == intent[i].status
           pc == CASE q = "trading-intents" /\ status \in {"queued", "submitting"} -> status
                   [] q = "trading-reconciliation" /\ status = "unknown" -> status
                   [] OTHER -> "done"
           row == [pc |-> pc, topic |-> q, intent |-> i, version |-> intent[i].version,
                   result |-> "none"]
<1>1. pc \in {"queued", "submitting", "unknown", "done"}
  OBVIOUS
<1>2. intent[i].version \in Nat
  <2>1. intent[i] \in IntentRow
    BY DEF IInv, TypeOK
  <2> QED
    BY <2>1 DEF IntentRow
<1>3. worker' = [worker EXCEPT ![w] = row] /\ worker[w] = Idle
  BY DEF TakeJob
<1> HIDE DEF pc
<1>4. /\ row \in SlotRow /\ row.intent = i /\ row.result = "none" /\ row.pc = pc
  BY <1>1, <1>2 DEF SlotRow
<1> HIDE DEF row
<1>5. worker \in [Workers -> SlotRow]
  BY DEF ShapeInv, PipelineTypes
<1> QED
  BY <1>1, <1>3, <1>4, <1>5 DEF SlotStarts

LEMMA IdleRow == Idle \in SlotRow /\ Idle.intent = NoIntent /\ Idle.pc = "idle"
BY DEF Idle, SlotRow

LEMMA EndedType ==
  ASSUME ShapeInv, NEW w \in Workers, worker[w].pc # "idle"
  PROVE  Ended(w) \in [Topics -> [Intents -> JobRow]]
<1> DEFINE q == worker[w].topic
           i == worker[w].intent
<1>1. job \in [Topics -> [Intents -> JobRow]] /\ worker[w] \in SlotRow /\ i \in Intents
  BY SlotIntent DEF ShapeInv, PipelineTypes
<1>2. NoJob \in JobRow
  BY PipelineAssumption DEF NoJob, JobRow, PipelineAssumption
<1>3. CASE q \in Topics
  BY <1>1, <1>2, <1>3 DEF Ended
<1>4. CASE q \notin Topics
  BY <1>1, <1>4 DEF Ended
<1> QED
  BY <1>3, <1>4

\* A slot's own steps.
LEMMA SlotIs ==
  ASSUME ShapeInv, NEW w \in Workers, Slot(w)
  PROVE  /\ SlotGoes(w) \/ SlotTakes(w) \/ SlotSends(w) \/ SlotEnds(w)
         /\ SlotTakes(w) \/ SlotGoes(w) => UNCHANGED <<brokerVars>>
<1>1. CASE HandleQueued(w) \/ HandleRefused(w)
  BY <1>1, QueuedIs DEF HandleQueued, HandleRefused
<1>2. CASE NotSent(w) \/ Answer(w)
  BY <1>2, AnswerIs DEF NotSent, Answer
<1>3. CASE Send(w)
  <2>1. SlotSends(w)
    BY <1>3, SendIs
  <2>2. ~SlotGoes(w) /\ ~SlotTakes(w)
    BY <2>1 DEF SlotSends, SlotGoes, SlotTakes, Becomes
  <2> QED
    BY <2>1, <2>2
<1>4. CASE HandleSubmitting(w) \/ PersistOutcome(w) \/ HandleUnknown(w)
  BY <1>4, DoneIs DEF HandleSubmitting, PersistOutcome, HandleUnknown
<1>5. CASE Finish(w)
  BY <1>5 DEF Finish, SlotEnds
<1> QED
  BY <1>1, <1>2, <1>3, <1>4, <1>5 DEF Slot

LEMMA EndShape ==
  ASSUME ShapeInv, NEW w \in Workers, SlotEnds(w), UNCHANGED <<brokerVars, passVars>>,
         job' \in [Topics -> [Intents -> JobRow]], UNCHANGED <<addInFlight, missing>>,
         Fault \/ UNCHANGED faults
  PROVE  ShapeInv'
<1>1. /\ worker' \in [Workers -> SlotRow]
      /\ \A x \in Workers : x # w => worker'[x] = worker[x]
      /\ worker'[w] = Idle
  BY IdleRow DEF ShapeInv, PipelineTypes, SlotEnds
<1>2. worker'[w].intent = NoIntent <=> worker'[w].pc = "idle"
  BY <1>1, IdleRow
<1>3. worker'[w].pc = "answered" =>
        /\ worker'[w].result # "none"
        /\ worker'[w].result = "accepted" => order[worker'[w].intent] = "opened"
  BY <1>1, IdleRow
<1> QED
  BY <1>1, <1>2, <1>3, SlotShape

\* The emit: no other slot has an answer for this order, and no trade is its.
LEMMA SendShape ==
  ASSUME ShapeInv, SendInv, NEW w \in Workers, SlotSends(w),
         UNCHANGED <<queueVars, brokerTrade, passVars, faults>>
  PROVE  ShapeInv'
<1> DEFINE i == worker[w].intent
<1>1. /\ i \in Intents /\ i # NoIntent /\ order[i] = NoOrder /\ sends[i] = 0
      /\ brokerTrade[i].state = "none"
  <2>1. i \in Intents
    BY SlotIntent DEF SlotSends
  <2>2. i # NoIntent /\ Poised(i)
    BY DEF ShapeInv, SlotRows, SlotSends, Poised
  <2>3. sends[i] = 0
    BY <2>1, <2>2 DEF SendInv, TakenOnce
  <2> QED
    BY <2>1, <2>2, <2>3 DEF ShapeInv, BrokerRows, NoOrder
<1>2. /\ order' = [order EXCEPT ![i] = "inFlight"] /\ sends' = [sends EXCEPT ![i] = @ + 1]
      /\ worker' \in [Workers -> SlotRow]
      /\ \A x \in Workers : x # w => worker'[x] = worker[x]
      /\ worker'[w].intent = i /\ worker'[w].pc = "sent"
  BY DEF SlotSends, Becomes
<1>3. PipelineTypes'
  BY <1>1, <1>2 DEF ShapeInv, PipelineTypes, queueVars, passVars
<1>4. BrokerRows'
  BY <1>1, <1>2 DEF ShapeInv, PipelineTypes, BrokerRows, NoOrder
<1>5. SlotRows'
  <2>1. \A x \in Workers : worker[x].pc = "answered" /\ worker[x].result = "accepted" =>
          worker[x].intent # i
    BY <1>1 DEF ShapeInv, SlotRows, NoOrder
  <2>2. \A x \in Workers : worker[x].pc = "answered" /\ worker[x].result = "accepted" =>
          order'[worker[x].intent] = "opened"
    <3>1. \A x \in Workers : worker[x].pc = "answered" => worker[x].intent \in Intents
      BY SlotIntent
    <3> QED
      BY <1>2, <2>1, <3>1 DEF ShapeInv, PipelineTypes, SlotRows
  <2> QED
    BY <1>1, <1>2, <2>2 DEF ShapeInv, SlotRows
<1>6. AttemptRows'
  BY DEF ShapeInv, AttemptRows, passVars
<1> QED
  BY <1>3, <1>4, <1>5, <1>6 DEF ShapeInv

LEMMA GoesShape ==
  ASSUME ShapeInv, NEW w \in Workers, worker[w].pc # "idle", SlotGoes(w) \/ SlotTakes(w),
         UNCHANGED <<queueVars, brokerVars, passVars, faults>>
  PROVE  ShapeInv'
<1>1. CASE SlotGoes(w)
  BY <1>1, GoesOn DEF SlotGoes
<1>2. CASE SlotTakes(w)
  <2>1. "taken" \in WorkPcs
    BY DEF WorkPcs
  <2> QED
    BY <1>2, <2>1, GoesOn DEF SlotTakes
<1> QED
  BY <1>1, <1>2

LEMMA SlotSteps ==
  ASSUME ShapeInv, SendInv, NEW w \in Workers, Slot(w) \/ FailJob(w) \/ WorkerCrash(w)
  PROVE  ShapeInv' /\ UNCHANGED <<brokerTrade, passVars>>
<1>1. worker[w].pc # "idle" /\ UNCHANGED <<addInFlight, missing, brokerTrade, passVars>>
      /\ (Fault \/ UNCHANGED faults)
  BY DEF Slot, HandleQueued, HandleRefused, HandleSubmitting, NotSent, Send, Answer,
         PersistOutcome, HandleUnknown, Finish, FailJob, WorkerCrash, queueVars, brokerVars
<1>2. CASE Finish(w) \/ FailJob(w) \/ WorkerCrash(w)
  <2>1. /\ SlotEnds(w) /\ UNCHANGED brokerVars
        /\ UNCHANGED job \/ job' = Ended(w)
    BY <1>2 DEF Finish, FailJob, WorkerCrash, SlotEnds, queueVars
  <2>2. job' \in [Topics -> [Intents -> JobRow]]
    BY <1>1, <2>1, EndedType DEF ShapeInv, PipelineTypes
  <2> QED
    BY <1>1, <2>1, <2>2, EndShape
<1>3. CASE Send(w)
  <2>1. UNCHANGED <<queueVars, brokerTrade, passVars, faults>>
    BY <1>3 DEF Send
  <2> QED
    BY <1>3, <2>1, SendIs, SendShape
<1>4. CASE \/ HandleQueued(w) \/ HandleRefused(w) \/ HandleSubmitting(w) \/ NotSent(w)
           \/ Answer(w) \/ PersistOutcome(w) \/ HandleUnknown(w)
  <2>1. UNCHANGED <<queueVars, brokerVars, passVars, faults>>
    BY <1>4 DEF HandleQueued, HandleRefused, HandleSubmitting, NotSent, Answer,
                PersistOutcome, HandleUnknown
  <2>2. SlotGoes(w) \/ SlotTakes(w)
    BY <1>4, QueuedIs, AnswerIs, DoneIs DEF HandleSubmitting, PersistOutcome, HandleUnknown
  <2>3. ShapeInv'
    BY <1>1, <2>1, <2>2, GoesShape
  <2> QED
    BY <1>1, <2>3
<1> QED
  BY <1>2, <1>3, <1>4 DEF Slot

LEMMA TakeJobShape ==
  ASSUME IInv, ShapeInv, NEW w \in Workers, NEW q \in Topics, NEW i \in Intents,
         TakeJob(w, q, i)
  PROVE  ShapeInv'
<1>1. SlotStarts(w, q, i) /\ i # NoIntent
  BY TakeJobIs, PipelineAssumption DEF PipelineAssumption
<1>2. job' \in [Topics -> [Intents -> JobRow]]
  <2>1. job \in [Topics -> [Intents -> JobRow]] /\ job[q][i] \in JobRow
    BY DEF ShapeInv, PipelineTypes
  <2> DEFINE row == [job[q][i] EXCEPT !.state = "active", !.owner = w]
  <2>2. row \in JobRow
    BY <2>1 DEF JobRow
  <2>3. job' = [job EXCEPT ![q][i] = row]
    BY <2>1 DEF TakeJob
  <2> HIDE DEF row
  <2> QED
    BY <2>2, <2>3, JobType
<1>3. /\ worker' \in [Workers -> SlotRow]
      /\ \A x \in Workers : x # w => worker'[x] = worker[x]
      /\ worker'[w].intent = NoIntent <=> worker'[w].pc = "idle"
      /\ worker'[w].pc # "answered"
  BY <1>1 DEF SlotStarts
<1>4. /\ UNCHANGED <<brokerVars, passVars>> /\ UNCHANGED <<addInFlight, missing>>
      /\ Fault \/ UNCHANGED faults
  BY DEF TakeJob
<1> QED
  BY <1>2, <1>3, <1>4, SlotShape

-----------------------------------------------------------------------------
(* What an attempt does, step by step                                       *)

\* The replica's attempt goes on with its intent, its version and its window.
AttemptGoes(r, pc) ==
  /\ rec' \in [Replicas -> AttemptRow]
  /\ \A p \in Replicas : p # r => rec'[p] = rec[p]
  /\ rec'[r].intent = rec[r].intent /\ rec'[r].version = rec[r].version
  /\ rec'[r].closing = rec[r].closing
  /\ rec'[r].pc = pc

\* It ends, or starts.
AttemptRests(r) ==
  /\ rec' \in [Replicas -> AttemptRow]
  /\ \A p \in Replicas : p # r => rec'[p] = rec[p]
  /\ rec'[r] = Resting

AttemptStarts(r, i) ==
  /\ rec' \in [Replicas -> AttemptRow]
  /\ \A p \in Replicas : p # r => rec'[p] = rec[p]
  /\ rec'[r].intent = i /\ rec'[r].pc = "open" /\ rec'[r].seen = {}
  /\ rec'[r].closing = ("window" \in elapsed[i])

LEMMA RestingRow == Resting \in AttemptRow /\ Resting.pc = "idle" /\ Resting.seen = {}
BY DEF Resting, AttemptRow

LEMMA RestIs == ASSUME ShapeInv, NEW r \in Replicas, Rest(r) PROVE AttemptRests(r)
BY RestingRow DEF ShapeInv, PipelineTypes, Rest, AttemptRests

LEMMA ClaimIs ==
  ASSUME IInv, ShapeInv, NEW r \in Replicas, NEW i \in Intents, Claim(r, i)
  PROVE  AttemptStarts(r, i)
<1> DEFINE row == [Resting EXCEPT !.pc = "open", !.intent = i,
                                  !.version = intent[i].version + 1,
                                  !.closing = "window" \in elapsed[i]]
<1>1. intent[i].version + 1 \in Nat
  <2>1. intent[i] \in IntentRow
    BY DEF IInv, TypeOK
  <2> QED
    BY <2>1 DEF IntentRow
<1>2. ("window" \in elapsed[i]) \in BOOLEAN
  OBVIOUS
<1>3. /\ row \in AttemptRow /\ row.intent = i /\ row.pc = "open" /\ row.seen = {}
      /\ row.closing = ("window" \in elapsed[i])
  BY <1>1, <1>2 DEF Resting, AttemptRow
<1>4. rec' = [rec EXCEPT ![r] = row] /\ rec \in [Replicas -> AttemptRow]
  BY DEF Claim, ShapeInv, PipelineTypes
<1> HIDE DEF row
<1> QED
  BY <1>3, <1>4 DEF AttemptStarts

LEMMA ReadOpenIs ==
  ASSUME ShapeInv, NEW r \in Replicas, ReadOpen(r)
  PROVE  AttemptGoes(r, "closed") /\ rec'[r].seen = ListOf(rec[r].intent, "open")
<1> DEFINE list == ListOf(rec[r].intent, "open")
           row == [rec[r] EXCEPT !.pc = "closed", !.seen = list]
<1>1. rec \in [Replicas -> AttemptRow] /\ rec[r] \in AttemptRow /\ list \in SUBSET Trades
  BY DEF ShapeInv, PipelineTypes, ListOf
<1> HIDE DEF list
<1>2. /\ row \in AttemptRow /\ row.intent = rec[r].intent /\ row.version = rec[r].version
      /\ row.closing = rec[r].closing /\ row.pc = "closed" /\ row.seen = list
  BY <1>1 DEF AttemptRow
<1>3. rec' = [rec EXCEPT ![r] = row]
  BY <1>1 DEF ReadOpen, list
<1> HIDE DEF row
<1>4. AttemptGoes(r, "closed") /\ rec'[r].seen = list
  BY <1>1, <1>2, <1>3 DEF AttemptGoes
<1> QED
  BY <1>4 DEF list

\* The attempt with its conclusion.
Concludes(r, result, t) ==
  /\ AttemptGoes(r, "decided")
  /\ rec'[r].result = result /\ rec'[r].found = t /\ rec'[r].seen = {}
  /\ rec'[r].closed <=> t # NoTrade /\ brokerTrade[t].state = "closed"

LEMMA ConcludeIs ==
  ASSUME ShapeInv, NEW r \in Replicas, NEW t \in Trades \cup {NoTrade},
         NEW result \in {"found", "not_found", "ambiguous", "unresolved"},
         Conclude(r, result, t)
  PROVE  Concludes(r, result, t)
<1> DEFINE closed == t # NoTrade /\ brokerTrade[t].state = "closed"
           row == [rec[r] EXCEPT !.pc = "decided", !.result = result, !.found = t,
                                 !.closed = closed, !.seen = {}]
<1>1. rec \in [Replicas -> AttemptRow] /\ rec[r] \in AttemptRow /\ closed \in BOOLEAN
  BY DEF ShapeInv, PipelineTypes
<1>2. rec' = [rec EXCEPT ![r] = row]
  BY <1>1 DEF Conclude
<1> HIDE DEF closed
<1>3. /\ row \in AttemptRow /\ row.intent = rec[r].intent /\ row.version = rec[r].version
      /\ row.closing = rec[r].closing /\ row.pc = "decided" /\ row.seen = {}
      /\ row.result = result /\ row.found = t /\ row.closed = closed
  BY <1>1 DEF AttemptRow
<1> HIDE DEF row
<1>4. /\ AttemptGoes(r, "decided") /\ rec'[r].result = result /\ rec'[r].found = t
      /\ rec'[r].seen = {} /\ rec'[r].closed = closed
  BY <1>1, <1>2, <1>3 DEF AttemptGoes
<1> QED
  BY <1>4 DEF Concludes, closed

\* One attempt changes, and the broker, the queue and the slots do not.
LEMMA AttemptShape ==
  ASSUME ShapeInv, NEW r \in Replicas, rec' \in [Replicas -> AttemptRow],
         \A p \in Replicas : p # r => rec'[p] = rec[p],
         rec'[r].pc # "idle" => rec'[r].intent \in Intents,
         \A t \in rec'[r].seen : brokerTrade[t].state # "none",
         rec'[r].pc = "decided" =>
           /\ rec'[r].result # "none"
           /\ rec'[r].result = "found" => /\ rec'[r].found \in Trades
                                          /\ brokerTrade[rec'[r].found].state # "none",
         absent' \in [Replicas -> SUBSET Intents],
         UNCHANGED <<queueVars, worker, brokerVars>>, Fault \/ UNCHANGED faults
  PROVE  ShapeInv'
<1>1. faults' \in 0..MaxFaults
  BY FaultType
<1>2. PipelineTypes'
  BY <1>1 DEF ShapeInv, PipelineTypes, queueVars, brokerVars
<1>3. BrokerRows' /\ SlotRows'
  BY DEF ShapeInv, BrokerRows, SlotRows, brokerVars
<1>4. AttemptRows'
  <2> SUFFICES ASSUME NEW p \in Replicas
               PROVE  /\ rec'[p].pc # "idle" => rec'[p].intent \in Intents
                      /\ \A t \in rec'[p].seen : brokerTrade[t].state # "none"
                      /\ rec'[p].pc = "decided" =>
                           /\ rec'[p].result # "none"
                           /\ rec'[p].result = "found" =>
                                /\ rec'[p].found \in Trades
                                /\ brokerTrade[rec'[p].found].state # "none"
    BY DEF AttemptRows, brokerVars
  <2>1. CASE p = r
    BY <2>1
  <2>2. CASE p # r
    BY <2>2 DEF ShapeInv, AttemptRows
  <2> QED
    BY <2>1, <2>2
<1> QED
  BY <1>2, <1>3, <1>4 DEF ShapeInv

LEMMA RestsShape ==
  ASSUME ShapeInv, NEW r \in Replicas, AttemptRests(r), absent' \in [Replicas -> SUBSET Intents],
         UNCHANGED <<queueVars, worker, brokerVars>>, Fault \/ UNCHANGED faults
  PROVE  ShapeInv'
<1>1. /\ rec' \in [Replicas -> AttemptRow]
      /\ \A p \in Replicas : p # r => rec'[p] = rec[p]
      /\ rec'[r].pc = "idle" /\ rec'[r].seen = {}
  BY RestingRow DEF AttemptRests
<1> QED
  BY <1>1, AttemptShape

\* decide, with the two lists read and what they cover: the attempt rests (no decision yet, or
\* the first proof of absence) or concludes.
Decides(r, seen, covered, proof) ==
  LET i == rec[r].intent
      d == Decision(i, seen, rec[r].closing, covered, proof)
  IN  \/ AttemptRests(r)
      \/ d = "found" /\ \E t \in Exact(i, seen) : Concludes(r, "found", t)
      \/ d = "absent" /\ Concludes(r, "not_found", NoTrade)
      \/ d \in {"ambiguous", "unresolved"} /\ Concludes(r, d, NoTrade)

Both(r) == rec[r].seen \cup ListOf(rec[r].intent, "closed")

LEMMA BothAreTrades ==
  ASSUME ShapeInv, NEW r \in Replicas
  PROVE  Both(r) \subseteq Trades /\ \A t \in Both(r) : brokerTrade[t].state # "none"
<1>1. rec[r] \in AttemptRow
  BY DEF ShapeInv, PipelineTypes
<1>2. rec[r].seen \subseteq Trades
  BY <1>1 DEF AttemptRow
<1> QED
  BY <1>2 DEF ShapeInv, AttemptRows, Both, ListOf

LEMMA DecideIs ==
  ASSUME ShapeInv, NEW r \in Replicas, Decide(r)
  PROVE  /\ \E covered, proof \in BOOLEAN, seen \in SUBSET Both(r) :
              /\ covered => seen = Both(r)
              /\ proof => covered
              /\ Decides(r, seen, covered, proof)
         /\ absent' \in [Replicas -> SUBSET Intents]
         /\ UNCHANGED <<dbVars, queueVars, worker, brokerVars, faults>>
<1> DEFINE i == rec[r].intent
<1>1. /\ rec[r].pc = "closed" /\ rec[r] \in AttemptRow /\ i \in Intents
      /\ absent \in [Replicas -> SUBSET Intents]
  BY DEF ShapeInv, PipelineTypes, AttemptRows, Decide
<1>2. PICK covered \in BOOLEAN, proof \in BOOLEAN, seen \in SUBSET Both(r) :
        /\ covered => seen = Both(r)
        /\ proof => covered
        /\ LET d == Decision(i, seen, rec[r].closing, covered, proof)
           IN  CASE d = "unavailable" ->
                      Rest(r) /\ absent' = [absent EXCEPT ![r] = @ \ {i}]
                 [] d = "absent" /\ i \notin absent[r] ->
                      Rest(r) /\ absent' = [absent EXCEPT ![r] = @ \cup {i}]
                 [] d = "absent" /\ i \in absent[r] ->
                      /\ Conclude(r, "not_found", NoTrade)
                      /\ absent' = [absent EXCEPT ![r] = @ \ {i}]
                 [] d = "found" ->
                      /\ \E t \in Exact(i, seen) : Conclude(r, "found", t)
                      /\ absent' = [absent EXCEPT ![r] = @ \ {i}]
                 [] OTHER ->
                      /\ Conclude(r, d, NoTrade)
                      /\ absent' = [absent EXCEPT ![r] = @ \ {i}]
  BY DEF Decide, Both
<1> DEFINE d == Decision(i, seen, rec[r].closing, covered, proof)
<1>3. d \in {"unavailable", "absent", "found", "ambiguous", "unresolved"}
  BY DEF Decision
<1>4. \A t \in Exact(i, seen) : t \in Trades
  BY BothAreTrades DEF Exact, SameTrade
<1> HIDE DEF d
<1>5. \/ Rest(r)
      \/ d = "found" /\ \E t \in Exact(i, seen) : Conclude(r, "found", t)
      \/ d = "absent" /\ Conclude(r, "not_found", NoTrade)
      \/ d \in {"ambiguous", "unresolved"} /\ Conclude(r, d, NoTrade)
  BY <1>2, <1>3 DEF d
<1>6. Decides(r, seen, covered, proof)
  <2>1. CASE Rest(r)
    BY <2>1, RestIs DEF Decides
  <2>2. CASE d = "found" /\ \E t \in Exact(i, seen) : Conclude(r, "found", t)
    <3>1. PICK t \in Exact(i, seen) : Conclude(r, "found", t)
      BY <2>2
    <3>2. t \in Trades \cup {NoTrade} /\ "found" \in {"found", "not_found", "ambiguous", "unresolved"}
      BY <1>4
    <3>3. Concludes(r, "found", t)
      BY <3>1, <3>2, ConcludeIs
    <3> QED
      BY <2>2, <3>3 DEF Decides, d
  <2>3. CASE d = "absent" /\ Conclude(r, "not_found", NoTrade)
    BY <2>3, ConcludeIs DEF Decides, d
  <2>4. CASE d \in {"ambiguous", "unresolved"} /\ Conclude(r, d, NoTrade)
    BY <2>4, ConcludeIs DEF Decides, d
  <2> QED
    BY <1>5, <2>1, <2>2, <2>3, <2>4
<1>7. /\ [absent EXCEPT ![r] = @ \ {i}] \in [Replicas -> SUBSET Intents]
      /\ [absent EXCEPT ![r] = @ \cup {i}] \in [Replicas -> SUBSET Intents]
  BY <1>1
<1>8. absent' \in [Replicas -> SUBSET Intents]
  BY <1>2, <1>7
<1>9. UNCHANGED <<dbVars, queueVars, worker, brokerVars, faults>>
  BY DEF Decide
<1> QED
  BY <1>2, <1>6, <1>8, <1>9

LEMMA DecideShape == ASSUME ShapeInv, NEW r \in Replicas, Decide(r) PROVE ShapeInv'
<1>1. PICK covered \in BOOLEAN, proof \in BOOLEAN, seen \in SUBSET Both(r) :
        Decides(r, seen, covered, proof)
  BY DecideIs
<1>2. absent' \in [Replicas -> SUBSET Intents] /\ UNCHANGED <<queueVars, worker, brokerVars>>
      /\ (Fault \/ UNCHANGED faults)
  BY DecideIs
<1>3. rec[r].intent \in Intents
  BY DEF ShapeInv, AttemptRows, Decide
<1>4. CASE AttemptRests(r)
  BY <1>2, <1>4, RestsShape
<1>5. ASSUME NEW t, NEW result \in {"found", "not_found", "ambiguous", "unresolved"},
             result = "found" => t \in Trades /\ brokerTrade[t].state # "none",
             Concludes(r, result, t)
      PROVE  ShapeInv'
  <2>1. /\ rec' \in [Replicas -> AttemptRow]
        /\ \A p \in Replicas : p # r => rec'[p] = rec[p]
        /\ rec'[r].intent \in Intents /\ rec'[r].seen = {}
        /\ rec'[r].result = result /\ rec'[r].found = t
    BY <1>3, <1>5 DEF Concludes, AttemptGoes
  <2>2. rec'[r].pc = "decided" =>
          /\ rec'[r].result # "none"
          /\ rec'[r].result = "found" => /\ rec'[r].found \in Trades
                                         /\ brokerTrade[rec'[r].found].state # "none"
    BY <1>5, <2>1
  <2> QED
    BY <1>2, <2>1, <2>2, AttemptShape
<1>6. \A t \in Exact(rec[r].intent, seen) : t \in Trades /\ brokerTrade[t].state # "none"
  BY BothAreTrades DEF Exact, SameTrade
<1> QED
  BY <1>1, <1>4, <1>5, <1>6 DEF Decides

\* The steps of the pass.
LEMMA PassSteps ==
  ASSUME IInv, ShapeInv, NEW r \in Replicas,
         Attempt(r) \/ ReplicaCrash(r) \/ \E i \in Intents : Claim(r, i)
  PROVE  ShapeInv' /\ UNCHANGED <<queueVars, worker, brokerVars>>
<1>1. /\ UNCHANGED <<queueVars, worker, brokerVars>>
      /\ Fault \/ UNCHANGED faults
  <2>1. CASE Persist(r) \/ ReplicaCrash(r) \/ AttemptFails(r) \/ ReadOpen(r)
    BY <2>1 DEF Persist, ReplicaCrash, AttemptFails, ReadOpen
  <2>2. CASE Decide(r)
    BY <2>2, DecideIs
  <2>3. CASE \E i \in Intents : Claim(r, i)
    BY <2>3, Zenon DEF Claim
  <2> QED
    BY <2>1, <2>2, <2>3 DEF Attempt
<1>2. absent \in [Replicas -> SUBSET Intents]
  BY DEF ShapeInv, PipelineTypes
<1>3. CASE AttemptFails(r) \/ Persist(r) \/ ReplicaCrash(r)
  <2>1. AttemptRests(r)
    BY <1>3, RestIs DEF AttemptFails, Persist, ReplicaCrash
  <2>2. absent' \in [Replicas -> SUBSET Intents]
    BY <1>2, <1>3 DEF AttemptFails, Persist, ReplicaCrash
  <2> QED
    BY <1>1, <2>1, <2>2, RestsShape
<1>4. CASE ReadOpen(r)
  <2>1. AttemptGoes(r, "closed") /\ rec'[r].seen = ListOf(rec[r].intent, "open")
    BY <1>4, ReadOpenIs
  <2>2. absent' \in [Replicas -> SUBSET Intents] /\ rec[r].intent \in Intents
    BY <1>2, <1>4 DEF ReadOpen, ShapeInv, AttemptRows
  <2>3. \A t \in rec'[r].seen : brokerTrade[t].state # "none"
    BY <2>1 DEF ListOf
  <2>4. /\ rec' \in [Replicas -> AttemptRow]
        /\ \A p \in Replicas : p # r => rec'[p] = rec[p]
        /\ rec'[r].intent \in Intents /\ rec'[r].pc = "closed"
    BY <2>1, <2>2 DEF AttemptGoes
  <2>5. ShapeInv'
    BY <1>1, <2>2, <2>3, <2>4, AttemptShape
  <2> QED
    BY <1>1, <2>5
<1>5. CASE Decide(r)
  BY <1>1, <1>5, DecideShape
<1>6. ASSUME NEW i \in Intents, Claim(r, i) PROVE ShapeInv'
  <2>1. AttemptStarts(r, i) /\ absent' = absent
    <3>1. absent' = absent
      BY <1>6, Zenon DEF Claim
    <3> QED
      BY <1>6, <3>1, ClaimIs
  <2>2. /\ rec' \in [Replicas -> AttemptRow]
        /\ \A p \in Replicas : p # r => rec'[p] = rec[p]
        /\ rec'[r].intent \in Intents /\ rec'[r].pc = "open" /\ rec'[r].seen = {}
    BY <2>1 DEF AttemptStarts
  <2> QED
    BY <1>1, <1>2, <2>1, <2>2, AttemptShape
<1> QED
  BY <1>1, <1>3, <1>4, <1>5, <1>6 DEF Attempt

-----------------------------------------------------------------------------
(* The broker's own steps, and the steps of the store alone                 *)

\* A trade the broker has stays: it is opened once, and closed once.
TradesStay == \A t \in Trades : brokerTrade[t].state # "none" =>
                /\ brokerTrade'[t].state # "none"
                /\ brokerTrade'[t].account = brokerTrade[t].account
                /\ brokerTrade'[t].terms = brokerTrade[t].terms
                /\ brokerTrade[t].state = "closed" => brokerTrade'[t].state = "closed"

BrokerStep ==
  \/ \E i \in Intents : Broker(i)
  \/ \E t \in Trades : CloseTrade(t) \/ \E a \in Accounts, terms \in Terms : PlatformTrade(t, a, terms)

LEMMA BrokerKeeps ==
  ASSUME ShapeInv, BrokerStep
  PROVE  /\ TradesStay /\ BrokerRows' /\ order' \in [Intents -> {NoOrder, "inFlight", "opened", "refused"}]
         /\ DOMAIN brokerTrade' = Trades
         /\ \A i \in Intents : order[i] = "opened" => order'[i] = "opened"
         /\ UNCHANGED <<dbVars, queueVars, worker, sends, passVars, faults>>
<1>1. /\ DOMAIN brokerTrade = Trades /\ BrokerRows /\ Intents \subseteq Trades
      /\ order \in [Intents -> {NoOrder, "inFlight", "opened", "refused"}]
      /\ \A i \in Intents : AccountOf[i] \in Accounts
  BY PipelineAssumption, StoreAssumption
  DEF ShapeInv, PipelineTypes, PipelineAssumption, StoreAssumption
<1>2. ASSUME NEW i \in Intents, OpenOrder(i)
      PROVE  /\ TradesStay /\ BrokerRows' /\ order' = [order EXCEPT ![i] = "opened"]
             /\ DOMAIN brokerTrade' = Trades
             /\ UNCHANGED <<dbVars, queueVars, worker, sends, passVars, faults>>
  <2>1. PICK terms \in Terms :
          brokerTrade' = [brokerTrade EXCEPT ![i] =
                            [state |-> "open", account |-> AccountOf[i], terms |-> terms]]
    BY <1>2 DEF OpenOrder
  <2> DEFINE row == [state |-> "open", account |-> AccountOf[i], terms |-> terms]
  <2>2. row \in TradeRow /\ row.state # "none"
    BY <1>1 DEF TradeRow
  <2>3. /\ brokerTrade' = [brokerTrade EXCEPT ![i] = row] /\ brokerTrade[i].state = "none"
        /\ order' = [order EXCEPT ![i] = "opened"] /\ order[i] = "inFlight"
        /\ UNCHANGED <<dbVars, queueVars, worker, sends, passVars, faults>>
    BY <1>1, <1>2, <2>1 DEF OpenOrder, BrokerRows
  <2> HIDE DEF row
  <2>4. DOMAIN brokerTrade' = Trades /\ brokerTrade'[i] = row
        /\ \A t \in Trades : t # i => brokerTrade'[t] = brokerTrade[t]
    BY <1>1, <2>3
  <2>5. TradesStay
    BY <2>3, <2>4 DEF TradesStay
  <2>6. BrokerRows'
    <3>1. \A t \in Trades : brokerTrade'[t].state = "none" \/ brokerTrade'[t] \in TradeRow
      BY <1>1, <2>2, <2>4 DEF BrokerRows
    <3>2. order'[i] = "opened" /\ \A j \in Intents : j # i => order'[j] = order[j]
      BY <1>1, <2>3
    <3>3. \A j \in Intents : order'[j] = "opened" <=> brokerTrade'[j].state # "none"
      BY <1>1, <2>2, <2>4, <3>2 DEF BrokerRows
    <3>4. sends' = sends
      BY <2>3
    <3>5. \A j \in Intents : order'[j] = NoOrder <=> sends[j] = 0
      BY <1>1, <2>3, <3>2 DEF BrokerRows, NoOrder
    <3> QED
      BY <3>1, <3>3, <3>4, <3>5 DEF BrokerRows
  <2> QED
    BY <2>3, <2>4, <2>5, <2>6
<1>3. ASSUME NEW i \in Intents, RefuseOrder(i)
      PROVE  /\ TradesStay /\ BrokerRows' /\ order' = [order EXCEPT ![i] = "refused"]
             /\ order[i] = "inFlight" /\ DOMAIN brokerTrade' = Trades
             /\ UNCHANGED <<dbVars, queueVars, worker, sends, passVars, faults>>
  BY <1>1, <1>3 DEF RefuseOrder, TradesStay, BrokerRows, NoOrder
<1>4. ASSUME NEW t \in Trades, CloseTrade(t)
      PROVE  /\ TradesStay /\ BrokerRows' /\ DOMAIN brokerTrade' = Trades /\ order' = order
             /\ UNCHANGED <<dbVars, queueVars, worker, sends, passVars, faults>>
  <2> DEFINE row == [brokerTrade[t] EXCEPT !.state = "closed"]
  <2>1. brokerTrade[t] \in TradeRow
    BY <1>1, <1>4 DEF BrokerRows, CloseTrade
  <2>2. /\ row \in TradeRow /\ row.state = "closed" /\ row.account = brokerTrade[t].account
        /\ row.terms = brokerTrade[t].terms
    BY <2>1 DEF TradeRow
  <2>3. /\ brokerTrade' = [brokerTrade EXCEPT ![t] = row] /\ brokerTrade[t].state # "none"
        /\ UNCHANGED <<dbVars, queueVars, worker, order, sends, passVars, faults>>
    BY <1>4 DEF CloseTrade
  <2> HIDE DEF row
  <2> QED
    <3>1. /\ DOMAIN brokerTrade' = Trades /\ brokerTrade'[t] = row
          /\ \A x \in Trades : x # t => brokerTrade'[x] = brokerTrade[x]
      BY <1>1, <2>3
    <3> QED
      BY <1>1, <2>2, <2>3, <3>1 DEF TradesStay, BrokerRows
<1>5. ASSUME NEW t \in Trades, NEW a \in Accounts, NEW terms \in Terms, PlatformTrade(t, a, terms)
      PROVE  /\ TradesStay /\ BrokerRows' /\ DOMAIN brokerTrade' = Trades /\ order' = order
             /\ UNCHANGED <<dbVars, queueVars, worker, sends, passVars, faults>>
  <2> DEFINE row == [state |-> "open", account |-> a, terms |-> terms]
  <2>1. row \in TradeRow
    BY DEF TradeRow
  <2>2. /\ t \notin Intents /\ brokerTrade[t].state = "none"
        /\ brokerTrade' = [brokerTrade EXCEPT ![t] = row]
        /\ UNCHANGED <<dbVars, queueVars, worker, order, sends, passVars, faults>>
    BY <1>5 DEF PlatformTrade, NotTraded
  <2> HIDE DEF row
  <2> QED
    BY <1>1, <2>1, <2>2 DEF TradesStay, BrokerRows
<1>6. CASE \E i \in Intents : OpenOrder(i)
  BY <1>1, <1>2, <1>6
<1>7. CASE \E i \in Intents : RefuseOrder(i)
  BY <1>1, <1>3, <1>7
<1>8. CASE \E t \in Trades : CloseTrade(t)
  BY <1>1, <1>4, <1>8
<1>9. CASE \E t \in Trades, a \in Accounts, terms \in Terms : PlatformTrade(t, a, terms)
  BY <1>1, <1>5, <1>9
<1> QED
  BY <1>6, <1>7, <1>8, <1>9 DEF BrokerStep, Broker

LEMMA BrokerSteps ==
  ASSUME ShapeInv, BrokerStep
  PROVE  ShapeInv' /\ UNCHANGED <<dbVars, queueVars, worker, sends, passVars>>
<1>1. /\ TradesStay /\ BrokerRows' /\ DOMAIN brokerTrade' = Trades
      /\ order' \in [Intents -> {NoOrder, "inFlight", "opened", "refused"}]
      /\ \A i \in Intents : order[i] = "opened" => order'[i] = "opened"
      /\ UNCHANGED <<dbVars, queueVars, worker, sends, passVars, faults>>
  BY BrokerKeeps
<1>2. PipelineTypes'
  BY <1>1 DEF ShapeInv, PipelineTypes, queueVars, passVars
<1>3. SlotRows'
  <2>1. \A w \in Workers : worker[w].pc = "answered" => worker[w].intent \in Intents
    BY SlotIntent
  <2> QED
    BY <1>1, <2>1 DEF ShapeInv, SlotRows
<1>4. AttemptRows'
  <2>1. \A r \in Replicas : rec[r].seen \subseteq Trades
    BY DEF ShapeInv, PipelineTypes, AttemptRow
  <2> QED
    BY <1>1, <2>1 DEF ShapeInv, AttemptRows, TradesStay, passVars
<1> QED
  BY <1>1, <1>2, <1>3, <1>4 DEF ShapeInv

\* A step of the store that no slot and no attempt takes.
StoreOnly ==
  \/ Api
  \/ \E i \in Intents : \/ Sweep(i) \/ SettleClosedTrade(i)
                        \/ OperatorSettles(i) \/ OperatorReleases(i)
                        \/ \E timer \in Timers : Pass(i, timer)
  \/ UNCHANGED vars

LEMMA StoreOnlySteps ==
  ASSUME ShapeInv, StoreOnly
  PROVE  ShapeInv' /\ UNCHANGED <<queueVars, worker, brokerVars, passVars>>
<1>1. UNCHANGED <<queueVars, worker, brokerVars, passVars, faults>>
  <2>1. CASE Api
    BY <2>1, Zenon DEF Api
  <2>2. CASE \E i \in Intents : \/ Sweep(i) \/ SettleClosedTrade(i)
                                \/ OperatorSettles(i) \/ OperatorReleases(i)
                                \/ \E timer \in Timers : Pass(i, timer)
    BY <2>2, Zenon DEF Sweep, SettleClosedTrade, OperatorSettles, OperatorReleases, Pass
  <2>3. CASE UNCHANGED vars
    BY <2>3 DEF vars
  <2> QED
    BY <2>1, <2>2, <2>3 DEF StoreOnly
<1>2. /\ job' \in [Topics -> [Intents -> JobRow]]
      /\ addInFlight' \subseteq Topics \X Intents /\ missing' \subseteq Topics \X Intents
  BY <1>1 DEF ShapeInv, PipelineTypes, queueVars
<1> QED
  BY <1>1, <1>2, QueueShape

LEMMA InitShape == PipelineInit => ShapeInv
<1> SUFFICES ASSUME PipelineInit PROVE ShapeInv
  OBVIOUS
<1>1. NoJob \in JobRow /\ Idle \in SlotRow /\ Resting \in AttemptRow
  BY PipelineAssumption, IdleRow, RestingRow DEF NoJob, JobRow, PipelineAssumption
<1>2. PipelineTypes
  BY <1>1, PipelineAssumption DEF PipelineInit, PipelineTypes, NoOrder, PipelineAssumption
<1>3. BrokerRows
  BY PipelineAssumption DEF PipelineInit, BrokerRows, NoOrder, NotTraded, PipelineAssumption
<1>4. SlotRows
  BY IdleRow DEF PipelineInit, SlotRows
<1>5. AttemptRows
  BY RestingRow DEF PipelineInit, AttemptRows
<1> QED
  BY <1>2, <1>3, <1>4, <1>5 DEF ShapeInv

-----------------------------------------------------------------------------
(* Only a slot takes an intent                                              *)

\* No intent becomes submitting.
NoTake == \A j \in Intents : intent'[j].status = "submitting" => intent[j].status = "submitting"

LEMMA SameRowsTakeNothing == ASSUME UNCHANGED intent PROVE NoTake
BY DEF NoTake

LEMMA MoveTakesNothing ==
  ASSUME TypeOK, NEW i \in Intents, NEW edges, NEW to, to # "submitting", NEW held, NEW error,
         MoveBy(i, edges, to, held, error)
  PROVE  NoTake
<1>1. intent \in [Intents -> IntentRow]
  BY DEF TypeOK
<1>2. intent' = [intent EXCEPT ![i] = [status |-> to, version |-> @.version + edges,
                                       held |-> held, error |-> error]]
  BY DEF MoveBy
<1> QED
  BY <1>1, <1>2 DEF NoTake

LEMMA RejectTakesNothing ==
  ASSUME TypeOK, NEW i \in Intents, NEW from, NEW v, NEW reason, RejectIntent(i, from, v, reason)
  PROVE  NoTake
BY MoveTakesNothing DEF RejectIntent, Move

\* Every transaction but the take.
LEMMA OthersTakeNothing ==
  ASSUME TypeOK, NEW i \in Intents, NEW v, NEW from, NEW t, NEW terms,
         \/ \E reason, aged : MarkIntentUnknown(i, v, reason, aged)
         \/ MarkIntentAccepted(i, v, from, t, terms)
         \/ SettleIntent(i, v, from, t, terms) \/ ConcludeClosed(i, v, t, terms)
         \/ StartReconciling(i, v) \/ ClaimReconciling(i)
         \/ \E reason : HaltAccountForManualReview(i, v, reason)
  PROVE  NoTake
<1>1. CASE ClaimReconciling(i)
  BY <1>1 DEF ClaimReconciling, NoTake, TypeOK, IntentRow
<1>2. CASE ~ClaimReconciling(i)
  BY <1>2, MoveTakesNothing DEF MarkIntentUnknown, MarkIntentAccepted, SettleIntent, ConcludeClosed,
     StartReconciling, HaltAccountForManualReview, Move
<1> QED
  BY <1>1, <1>2

LEMMA FailureTakesNothing ==
  ASSUME TypeOK, NEW q, NEW i \in Intents, NEW from, RecordDeliveryFailure(q, i, from)
  PROVE  NoTake
<1>1. UNCHANGED intent \/ Move(i, "rejected", 0, "publish_failed")
  BY DEF RecordDeliveryFailure
<1> QED
  BY <1>1, MoveTakesNothing, SameRowsTakeNothing DEF Move

LEMMA QueueTakesNothing ==
  ASSUME TypeOK, NEW q \in Topics, NEW i \in Intents,
         \/ Publish(q, i) \/ PublishFails(q, i) \/ LandAdd(q, i) \/ PublisherCrash(q, i)
         \/ FindMissing(q, i) \/ Repend(q, i) \/ LoseJob(q, i) \/ StallJob(q, i)
         \/ \E w \in Workers : TakeJob(w, q, i)
  PROVE  NoTake
<1>1. CASE PublishFails(q, i) \/ Repend(q, i)
  <2>1. UNCHANGED dbVars \/ \E from : RecordDeliveryFailure(q, i, from)
    BY <1>1 DEF PublishFails, Repend
  <2> QED
    BY <2>1, FailureTakesNothing, SameRowsTakeNothing DEF dbVars
<1>2. CASE Publish(q, i)
  BY <1>2, SameRowsTakeNothing DEF Publish, MarkPublished
<1>3. CASE ~(PublishFails(q, i) \/ Repend(q, i) \/ Publish(q, i))
  <2>1. UNCHANGED dbVars
    BY <1>3, Zenon DEF LandAdd, PublisherCrash, FindMissing, LoseJob, StallJob, TakeJob
  <2> QED
    BY <2>1, SameRowsTakeNothing DEF dbVars
<1> QED
  BY <1>1, <1>2, <1>3

LEMMA StoreOnlyTakesNothing == ASSUME IInv, ShapeInv, StoreOnly PROVE NoTake
<1>1. TypeOK
  BY DEF IInv
<1>2. CASE Api
  <2>1. CASE Edit
    <3>1. UNCHANGED intent
      BY <2>1 DEF Edit, SetTrading, AdjustTokens, SetTradingMode, SwitchTradingModeOnDeposit,
         BlockUser, RevokeAccount, CreateTradingSession, StopSession
    <3> QED
      BY <3>1, SameRowsTakeNothing
  <2>2. ASSUME NEW i \in Intents, Creation(i) PROVE NoTake
    BY <1>1, <2>2 DEF Creation, BeginCreate, CreateIntent, AbortCreate, NoTake, TypeOK
  <2> QED
    BY <1>2, <2>1, <2>2 DEF Api
<1>3. ASSUME NEW i \in Intents,
             \/ Sweep(i) \/ SettleClosedTrade(i) \/ OperatorSettles(i) \/ OperatorReleases(i)
             \/ \E timer \in Timers : Pass(i, timer)
      PROVE  NoTake
  <2>1. CASE Sweep(i)
    BY <1>1, <2>1, OthersTakeNothing DEF Sweep
  <2>2. CASE SettleClosedTrade(i)
    <3>1. SettleIntent(i, AnyVersion, "accepted", trade[i].id, brokerTrade[trade[i].id].terms)
      BY <2>2 DEF SettleClosedTrade
    <3> QED
      BY <1>1, <3>1, OthersTakeNothing
  <2>3. CASE OperatorSettles(i)
    BY <1>1, <2>3, OthersTakeNothing DEF OperatorSettles
  <2>4. CASE OperatorReleases(i)
    BY <1>1, <2>4, RejectTakesNothing DEF OperatorReleases
  <2>5. CASE \E timer \in Timers : Pass(i, timer)
    BY <2>5, SameRowsTakeNothing DEF Pass, Elapse
  <2> QED
    BY <1>3, <2>1, <2>2, <2>3, <2>4, <2>5
<1>4. CASE UNCHANGED vars
  BY <1>4, SameRowsTakeNothing DEF vars, dbVars
<1> QED
  BY <1>2, <1>3, <1>4 DEF StoreOnly

LEMMA PassTakesNothing ==
  ASSUME IInv, ShapeInv, NEW r \in Replicas,
         Attempt(r) \/ ReplicaCrash(r) \/ \E i \in Intents : Claim(r, i)
  PROVE  NoTake
<1>1. TypeOK
  BY DEF IInv
<1>2. CASE Persist(r)
  <2> DEFINE i == rec[r].intent
             v == rec[r].version
             t == rec[r].found
             terms == brokerTrade[t].terms
  <2>1. i \in Intents /\ rec[r].result \in {"found", "not_found", "ambiguous", "unresolved"}
    BY <1>2 DEF Persist, ShapeInv, PipelineTypes, AttemptRow, AttemptRows
  <2>2. \/ UNCHANGED dbVars
        \/ \E reason : HaltAccountForManualReview(i, v, reason) \/ RejectIntent(i, "reconciling", v, reason)
        \/ ConcludeClosed(i, v, t, terms)
        \/ MarkIntentAccepted(i, v, "reconciling", t, terms)
    BY <1>2, <2>1 DEF Persist, ConcludeOpen
  <2> QED
    BY <1>1, <2>1, <2>2, RejectTakesNothing, OthersTakeNothing, SameRowsTakeNothing DEF dbVars
<1>3. CASE ReadOpen(r) \/ Decide(r) \/ AttemptFails(r) \/ ReplicaCrash(r)
  <2>1. UNCHANGED dbVars
    BY <1>3, DecideIs DEF ReadOpen, AttemptFails, ReplicaCrash
  <2> QED
    BY <2>1, SameRowsTakeNothing DEF dbVars
<1>4. ASSUME NEW i \in Intents, Claim(r, i) PROVE NoTake
  <2>1. ClaimReconciling(i)
    BY <1>4, Zenon DEF Claim
  <2> QED
    BY <1>1, <2>1, OthersTakeNothing
<1> QED
  BY <1>2, <1>3, <1>4 DEF Attempt

LEMMA SlotTakesOrNot ==
  ASSUME IInv, ShapeInv, NEW w \in Workers, Slot(w) \/ FailJob(w) \/ WorkerCrash(w)
  PROVE  SlotTakes(w) \/ NoTake
<1> DEFINE i == worker[w].intent
           v == worker[w].version
<1>1. TypeOK
  BY DEF IInv
<1>2. CASE NotSent(w) \/ Send(w) \/ Answer(w) \/ Finish(w) \/ FailJob(w) \/ WorkerCrash(w)
  <2>1. UNCHANGED dbVars
    BY <1>2 DEF NotSent, Send, Answer, Finish, FailJob, WorkerCrash
  <2> QED
    BY <2>1, SameRowsTakeNothing DEF dbVars
<1>3. CASE HandleQueued(w) \/ HandleRefused(w)
  <2>1. i \in Intents
    BY <1>3, SlotIntent DEF HandleQueued, HandleRefused
  <2>2. CASE \/ UNCHANGED dbVars
             \/ \E reason : RejectIntent(i, "queued", v, reason)
    BY <1>1, <2>1, <2>2, RejectTakesNothing, SameRowsTakeNothing DEF dbVars
  <2>3. CASE HandleRefused(w)
    BY <2>2, <2>3 DEF HandleRefused, RejectExpiredIntent, RejectLateIntent, RejectPausedIntent
  <2>4. CASE /\ HandleQueued(w)
             /\ ~(UNCHANGED dbVars \/ \E reason : RejectIntent(i, "queued", v, reason))
    <3>1. /\ ~(WorkerDemoOnly /\ ModeOf(i) = "real")
          /\ MayTake(i, v) /\ TakeIntent(i, v) /\ worker[w].pc = "queued"
          /\ worker' = [worker EXCEPT ![w].pc = "taken", ![w].version = v + 1]
      BY <2>4 DEF HandleQueued
    <3>2. SlotTakes(w)
      <4>1. worker \in [Workers -> SlotRow] /\ worker[w] \in SlotRow
        BY DEF ShapeInv, PipelineTypes
      <4>2. SlotSet(w, "taken", v + 1, worker[w].result)
        BY <3>1, <4>1 DEF SlotRow, SlotSet
      <4>3. /\ "taken" \in WorkPcs /\ v + 1 \in Nat
            /\ worker[w].result \in {"none", "accepted", "rejected", "unknown"}
        BY <4>1 DEF WorkPcs, SlotRow
      <4>4. Becomes(w, "taken", v + 1, worker[w].result)
        BY <4>2, <4>3, RowBecomes
      <4> QED
        BY <3>1, <4>4 DEF SlotTakes
    <3> QED
      BY <3>2
  <2> QED
    BY <1>3, <2>2, <2>3, <2>4
<1>4. CASE HandleSubmitting(w)
  <2>1. i \in Intents
    BY <1>4, SlotIntent DEF HandleSubmitting
  <2>2. UNCHANGED dbVars \/ MarkIntentUnknown(i, AnyVersion, "stale_submitting", TRUE)
    BY <1>4 DEF HandleSubmitting
  <2> QED
    BY <1>1, <2>1, <2>2, OthersTakeNothing, SameRowsTakeNothing DEF dbVars
<1>5. CASE PersistOutcome(w)
  <2>1. i \in Intents /\ worker[w].result \in {"accepted", "rejected", "unknown"}
    BY <1>5, SlotIntent DEF PersistOutcome, ShapeInv, PipelineTypes, SlotRows, SlotRow
  <2>2. \/ UNCHANGED dbVars
        \/ \E reason : MarkIntentUnknown(i, v, reason, FALSE) \/ RejectIntent(i, "submitting", v, reason)
        \/ MarkIntentAccepted(i, v, "submitting", i, brokerTrade[i].terms)
    BY <1>5, <2>1 DEF PersistOutcome
  <2> QED
    BY <1>1, <2>1, <2>2, RejectTakesNothing, OthersTakeNothing, SameRowsTakeNothing DEF dbVars
<1>6. CASE HandleUnknown(w)
  <2>1. i \in Intents
    BY <1>6, SlotIntent DEF HandleUnknown
  <2>2. UNCHANGED dbVars \/ StartReconciling(i, v)
    BY <1>6 DEF HandleUnknown
  <2> QED
    BY <1>1, <2>1, <2>2, OthersTakeNothing, SameRowsTakeNothing DEF dbVars
<1> QED
  BY <1>2, <1>3, <1>4, <1>5, <1>6 DEF Slot

-----------------------------------------------------------------------------
(* What is sent                                                             *)

\* A step that sends nothing, takes nothing and brings no slot past the take.
LEMMA QuietSends ==
  ASSUME StepInv, RowStep, SendInv, NoTake, UNCHANGED sends,
         \A i \in Intents, w \in Workers : Past(w, i)' => Past(w, i),
         \A i \in Intents : Poised(i)' => Poised(i)
  PROVE  SendInv'
<1>1. \A i \in Intents :
        \/ intent'[i].status = intent[i].status
        \/ <<intent[i].status, intent'[i].status>> \in Transitions
        \/ intent[i].status = "reconciling" /\ intent'[i].status = "settled"
  BY DEF RowStep, RowsStay, RowMoves
<1>2. \A i \in Intents : intent'[i].error \in PlainReasons =>
        \/ intent[i].error = intent'[i].error
        \/ intent[i].status = "queued" /\ intent'[i].status = "rejected"
  BY DEF RowStep, RowsStay, RowMoves
<1>3. TakenOnce'
  <2>1. \A i \in Intents : intent'[i].status \in {"absent", "queued"} =>
          intent[i].status \in {"absent", "queued"}
    BY <1>1 DEF Transitions
  <2> QED
    BY <2>1 DEF SendInv, TakenOnce
<1>4. PlainIsFinal'
  <2> SUFFICES ASSUME NEW i \in Intents, intent'[i].error \in PlainReasons
               PROVE  intent'[i].status = "rejected" /\ sends[i] = 0 /\ ~Poised(i)'
    BY DEF PlainIsFinal
  <2>1. CASE intent[i].error = intent'[i].error
    BY <1>1, <2>1 DEF SendInv, PlainIsFinal, Transitions
  <2>2. CASE intent[i].status = "queued" /\ intent'[i].status = "rejected"
    BY <2>2 DEF SendInv, TakenOnce, Poised, Past
  <2> QED
    BY <1>2, <2>1, <2>2
<1>5. DemoFence'
  <2> SUFFICES ASSUME WorkerDemoOnly, NEW i \in Intents, ModeOf(i) = "real"
               PROVE  /\ intent'[i].status \in {"absent", "queued", "rejected"}
                      /\ sends[i] = 0 /\ \A w \in Workers : ~Past(w, i)'
    BY DEF DemoFence, ModeOf
  <2>1. /\ intent[i].status \in {"absent", "queued", "rejected"}
        /\ sends[i] = 0 /\ \A w \in Workers : ~Past(w, i)
    BY DEF SendInv, DemoFence
  <2>2. intent'[i].status # "submitting"
    BY <2>1 DEF NoTake
  <2>3. intent'[i].status \in {"absent", "queued", "rejected"}
    BY <1>1, <2>1, <2>2 DEF Transitions
  <2> QED
    BY <2>1, <2>3
<1> QED
  BY <1>3, <1>4, <1>5 DEF SendInv

\* The slots as they are.
LEMMA IdleSends ==
  ASSUME StepInv, RowStep, SendInv, NoTake, UNCHANGED <<sends, worker>>
  PROVE  SendInv'
<1>1. \A i \in Intents, w \in Workers : Past(w, i)' => Past(w, i)
  BY DEF Past
<1>2. \A i \in Intents : Poised(i)' => Poised(i)
  BY DEF Poised
<1> QED
  BY <1>1, <1>2, QuietSends

\* One slot starts a job, ends it, or goes on with it.
LEMMA QuietSlot ==
  ASSUME StepInv, RowStep, ShapeInv, SendInv, NoTake, UNCHANGED sends, NEW w \in Workers,
         SlotGoes(w) \/ SlotEnds(w) \/ \E q \in Topics, i \in Intents : SlotStarts(w, q, i)
  PROVE  SendInv'
<1>1. \A x \in Workers : x # w => worker'[x] = worker[x]
  BY DEF SlotGoes, Becomes, SlotEnds, SlotStarts, ShapeInv, PipelineTypes
<1>2. \A i \in Intents : Past(w, i)' => Past(w, i)
  <2>1. CASE SlotGoes(w)
    BY <2>1 DEF SlotGoes, Becomes, Past
  <2>2. CASE SlotEnds(w)
    BY <2>2, IdleRow DEF SlotEnds, Past, ShapeInv, PipelineTypes
  <2>3. CASE \E q \in Topics, i \in Intents : SlotStarts(w, q, i)
    BY <2>3 DEF SlotStarts, Past
  <2> QED
    BY <2>1, <2>2, <2>3
<1>3. worker'[w].pc = "taken" => worker[w].pc = "taken" /\ worker'[w].intent = worker[w].intent
  <2>1. CASE SlotGoes(w)
    BY <2>1 DEF SlotGoes, Becomes
  <2>2. CASE SlotEnds(w)
    BY <2>2, IdleRow DEF SlotEnds, ShapeInv, PipelineTypes
  <2>3. CASE \E q \in Topics, i \in Intents : SlotStarts(w, q, i)
    BY <2>3 DEF SlotStarts
  <2> QED
    BY <2>1, <2>2, <2>3
<1>4. \A i \in Intents, x \in Workers : Past(x, i)' => Past(x, i)
  BY <1>1, <1>2 DEF Past
<1>5. \A i \in Intents : Poised(i)' => Poised(i)
  BY <1>1, <1>3 DEF Poised
<1> QED
  BY <1>4, <1>5, QuietSends

\* The take: no slot was past it, and nothing was sent.
LEMMA TakeSends ==
  ASSUME StepInv, ShapeInv, SendInv, NEW w \in Workers, SlotTakes(w), UNCHANGED sends
  PROVE  SendInv'
<1> DEFINE i == worker[w].intent
<1>1. i \in Intents /\ intent[i].status = "queued"
  BY SlotIntent DEF SlotTakes, MayTake, At
<1>2. sends[i] = 0 /\ (\A x \in Workers : ~Past(x, i)) /\ intent[i].error \notin PlainReasons
  BY <1>1 DEF SendInv, TakenOnce, PlainIsFinal
<1>3. /\ intent'[i].status = "submitting" /\ intent'[i].error = intent[i].error
      /\ \A j \in Intents : j # i => intent'[j] = intent[j]
  BY <1>1 DEF SlotTakes, TakeIntent, Move, MoveBy, StepInv, IInv, TypeOK
<1>4. /\ \A x \in Workers : x # w => worker'[x] = worker[x]
      /\ worker'[w].intent = i /\ worker'[w].pc = "taken"
  BY DEF SlotTakes, Becomes
<1>5. \A j \in Intents, x \in Workers : Past(x, j)' => Past(x, j) \/ (x = w /\ j = i)
  BY <1>4 DEF Past
<1>6. \A j \in Intents : j # i => (Poised(j)' => Poised(j))
  BY <1>4 DEF Poised
<1>7. TakenOnce'
  <2>1. \A j \in Intents : intent'[j].status \in {"absent", "queued"} =>
          j # i /\ intent[j].status \in {"absent", "queued"}
    BY <1>3
  <2>2. \A j \in Intents : Poised(j)' => sends'[j] = 0
    BY <1>2, <1>6 DEF SendInv, TakenOnce
  <2>3. \A j \in Intents, x, y \in Workers : Past(x, j)' /\ Past(y, j)' => x = y
    BY <1>2, <1>5 DEF SendInv, TakenOnce
  <2>4. \A j \in Intents : intent'[j].status \in {"absent", "queued"} =>
          sends'[j] = 0 /\ \A x \in Workers : ~Past(x, j)'
    BY <1>5, <2>1 DEF SendInv, TakenOnce
  <2> QED
    BY <2>2, <2>3, <2>4 DEF SendInv, TakenOnce
<1>8. PlainIsFinal'
  BY <1>2, <1>3, <1>6 DEF SendInv, PlainIsFinal
<1>9. DemoFence'
  <2>1. ~(WorkerDemoOnly /\ ModeOf(i) = "real")
    BY DEF SlotTakes
  <2> QED
    BY <1>3, <1>5, <2>1 DEF SendInv, DemoFence, ModeOf
<1> QED
  BY <1>7, <1>8, <1>9 DEF SendInv

\* The emit: the only slot past the take, and the first time.
LEMMA EmitSends ==
  ASSUME StepInv, ShapeInv, SendInv, NEW w \in Workers, SlotSends(w), UNCHANGED dbVars
  PROVE  SendInv'
<1> DEFINE i == worker[w].intent
<1>1. i \in Intents /\ Past(w, i) /\ Poised(i)
  BY SlotIntent DEF SlotSends, Past, Poised
<1>2. /\ sends[i] = 0 /\ intent[i].error \notin PlainReasons
      /\ intent[i].status \notin {"absent", "queued"}
      /\ ~(WorkerDemoOnly /\ ModeOf(i) = "real")
  BY <1>1 DEF SendInv, TakenOnce, PlainIsFinal, DemoFence
<1>3. sends \in [Intents -> Nat] /\ sends' = [sends EXCEPT ![i] = @ + 1]
  BY DEF ShapeInv, PipelineTypes, SlotSends
<1>4. sends'[i] = 1 /\ \A j \in Intents : j # i => sends'[j] = sends[j]
  BY <1>1, <1>2, <1>3
<1>5. /\ \A x \in Workers : x # w => worker'[x] = worker[x]
      /\ worker'[w].intent = i /\ worker'[w].pc = "sent"
  BY DEF SlotSends, Becomes
<1>6. \A j \in Intents, x \in Workers : Past(x, j)' => Past(x, j)
  BY <1>1, <1>5 DEF Past
<1>7. \A j \in Intents : Poised(j)' => Poised(j) /\ j # i
  <2>1. ASSUME NEW x \in Workers, worker'[x].intent = i, worker'[x].pc = "taken" PROVE FALSE
    <3>1. x # w /\ Past(x, i)
      BY <1>5, <2>1 DEF Past
    <3> QED
      BY <1>1, <3>1 DEF SendInv, TakenOnce
  <2> SUFFICES ASSUME NEW j \in Intents, Poised(j)'
               PROVE  Poised(j) /\ j # i
    OBVIOUS
  <2>2. PICK x \in Workers : worker'[x].intent = j /\ worker'[x].pc = "taken"
    BY DEF Poised
  <2>3. x # w
    BY <1>5, <2>2
  <2> QED
    BY <1>5, <2>1, <2>2, <2>3 DEF Poised
<1>8. UNCHANGED intent
  BY DEF dbVars
<1>9. TakenOnce'
  BY <1>2, <1>4, <1>6, <1>7, <1>8 DEF SendInv, TakenOnce
<1>10. PlainIsFinal'
  BY <1>2, <1>4, <1>7, <1>8 DEF SendInv, PlainIsFinal
<1>11. DemoFence'
  BY <1>2, <1>4, <1>6, <1>8 DEF SendInv, DemoFence, ModeOf
<1> QED
  BY <1>9, <1>10, <1>11 DEF SendInv

LEMMA SlotSendInv ==
  ASSUME StepInv, RowStep, ShapeInv, SendInv, NEW w \in Workers,
         Slot(w) \/ FailJob(w) \/ WorkerCrash(w)
  PROVE  SendInv'
<1>1. SlotTakes(w) \/ NoTake
  BY SlotTakesOrNot DEF StepInv
<1>2. CASE Send(w)
  BY <1>2, SendIs, EmitSends DEF Send
<1>3. CASE SlotTakes(w) /\ ~Send(w)
  <2>1. UNCHANGED sends
    BY <1>3 DEF Slot, HandleQueued, HandleRefused, HandleSubmitting, NotSent, Answer,
       PersistOutcome, HandleUnknown, Finish, FailJob, WorkerCrash, brokerVars
  <2> QED
    BY <1>3, <2>1, TakeSends
<1>4. CASE NoTake /\ (Finish(w) \/ FailJob(w) \/ WorkerCrash(w))
  <2>1. SlotEnds(w) /\ UNCHANGED sends
    BY <1>4 DEF Finish, FailJob, WorkerCrash, SlotEnds, brokerVars
  <2> QED
    BY <1>4, <2>1, QuietSlot
<1>5. CASE /\ NoTake /\ ~SlotTakes(w)
           /\ \/ HandleQueued(w) \/ HandleRefused(w) \/ HandleSubmitting(w) \/ NotSent(w)
              \/ Answer(w) \/ PersistOutcome(w) \/ HandleUnknown(w)
  <2>1. UNCHANGED sends
    BY <1>5 DEF HandleQueued, HandleRefused, HandleSubmitting, NotSent, Answer,
                PersistOutcome, HandleUnknown, brokerVars
  <2>2. SlotGoes(w)
    BY <1>5, QueuedIs, AnswerIs, DoneIs DEF HandleSubmitting, PersistOutcome, HandleUnknown
  <2> QED
    BY <1>5, <2>1, <2>2, QuietSlot
<1> QED
  BY <1>1, <1>2, <1>3, <1>4, <1>5 DEF Slot

-----------------------------------------------------------------------------
(* The invariant of the pipeline                                            *)

\* Who takes a step.
LEMMA StepsOf ==
  ASSUME [PipelineNext]_vars
  PROVE  \/ StoreOnly \/ BrokerStep
         \/ \E q \in Topics, i \in Intents :
              \/ Publish(q, i) \/ PublishFails(q, i) \/ LandAdd(q, i) \/ PublisherCrash(q, i)
              \/ FindMissing(q, i) \/ Repend(q, i) \/ LoseJob(q, i) \/ StallJob(q, i)
         \/ \E w \in Workers, q \in Topics, i \in Intents : TakeJob(w, q, i)
         \/ \E w \in Workers : Slot(w) \/ FailJob(w) \/ WorkerCrash(w)
         \/ \E r \in Replicas : Attempt(r) \/ ReplicaCrash(r) \/ \E i \in Intents : Claim(r, i)
BY DEF PipelineNext, StoreOnly, BrokerStep

LEMMA InitPInv == PipelineInit => PInv
<1> SUFFICES ASSUME PipelineInit PROVE PInv
  OBVIOUS
<1>1. StepInv
  <2>1. StoreInit
    BY DEF PipelineInit
  <2>2. IInv
    BY <2>1, InitHolds
  <2>3. AbsentIsNew
    BY <2>1 DEF StoreInit, AbsentIsNew
  <2> QED
    BY <2>2, <2>3 DEF StepInv
<1>2. ShapeInv
  BY InitShape
<1>3. SendInv
  <2>1. /\ \A i \in Intents : sends[i] = 0 /\ intent[i].error = "none"
        /\ \A i \in Intents : intent[i].status = "absent"
        /\ \A w \in Workers : worker[w].pc = "idle"
    BY IdleRow DEF PipelineInit, StoreInit
  <2> QED
    BY <2>1 DEF SendInv, TakenOnce, PlainIsFinal, DemoFence, PlainReasons, Past, Poised
<1> QED
  BY <1>1, <1>2, <1>3 DEF PInv

LEMMA PInvStep == PInv /\ [PipelineNext]_vars => PInv'
<1> SUFFICES ASSUME PInv, [PipelineNext]_vars PROVE PInv'
  OBVIOUS
<1>1. StepInv /\ IInv /\ AbsentIsNew /\ ShapeInv /\ SendInv
  BY DEF PInv, StepInv
<1>2. [StoreNext]_dbVars
  BY <1>1, PipelineStore DEF StoreStep
<1>3. RowStep
  BY <1>1, <1>2, RowsStep
<1>4. StepInv'
  BY <1>1, <1>2, <1>3, StepHolds, AbsentStep DEF StepInv
<1>5. ShapeInv' /\ SendInv'
  <2>1. CASE StoreOnly
    <3>1. ShapeInv' /\ UNCHANGED <<sends, worker>>
      BY <1>1, <2>1, StoreOnlySteps DEF brokerVars
    <3> QED
      BY <1>1, <1>3, <2>1, <3>1, StoreOnlyTakesNothing, IdleSends
  <2>2. CASE BrokerStep
    <3>1. ShapeInv' /\ UNCHANGED <<sends, worker>> /\ UNCHANGED intent
      BY <1>1, <2>2, BrokerSteps DEF dbVars
    <3> QED
      BY <1>1, <1>3, <3>1, SameRowsTakeNothing, IdleSends
  <2>3. ASSUME NEW q \in Topics, NEW i \in Intents,
               \/ Publish(q, i) \/ PublishFails(q, i) \/ LandAdd(q, i) \/ PublisherCrash(q, i)
               \/ FindMissing(q, i) \/ Repend(q, i) \/ LoseJob(q, i) \/ StallJob(q, i)
        PROVE  ShapeInv' /\ SendInv'
    <3>1. ShapeInv' /\ UNCHANGED <<sends, worker>>
      BY <1>1, <2>3, QueueSteps DEF brokerVars
    <3>2. NoTake
      BY <1>1, <2>3, QueueTakesNothing DEF IInv
    <3> QED
      BY <1>1, <1>3, <3>1, <3>2, IdleSends
  <2>4. ASSUME NEW w \in Workers, NEW q \in Topics, NEW i \in Intents, TakeJob(w, q, i)
        PROVE  ShapeInv' /\ SendInv'
    <3>1. ShapeInv' /\ SlotStarts(w, q, i)
      BY <1>1, <2>4, TakeJobShape, TakeJobIs
    <3>2. NoTake
      BY <1>1, <2>4, QueueTakesNothing DEF IInv
    <3>3. UNCHANGED sends
      BY <2>4, Zenon DEF TakeJob, brokerVars
    <3> QED
      BY <1>1, <1>3, <3>1, <3>2, <3>3, QuietSlot
  <2>5. ASSUME NEW w \in Workers, Slot(w) \/ FailJob(w) \/ WorkerCrash(w)
        PROVE  ShapeInv' /\ SendInv'
    BY <1>1, <1>3, <2>5, SlotSteps, SlotSendInv
  <2>6. ASSUME NEW r \in Replicas,
               Attempt(r) \/ ReplicaCrash(r) \/ \E i \in Intents : Claim(r, i)
        PROVE  ShapeInv' /\ SendInv'
    <3>1. ShapeInv' /\ UNCHANGED <<sends, worker>>
      BY <1>1, <2>6, PassSteps DEF brokerVars
    <3>2. NoTake
      BY <1>1, <2>6, PassTakesNothing
    <3> QED
      BY <1>1, <1>3, <3>1, <3>2, IdleSends
  <2> QED
    BY <2>1, <2>2, <2>3, <2>4, <2>5, <2>6, StepsOf
<1> QED
  BY <1>1, <1>4, <1>5 DEF PInv

\* What every reachable state of the pipeline satisfies: the rows of the store, what the
\* processes remember, and what a status says of the order (processor.ts, publisher.ts,
\* reconciliation.ts).
THEOREM PipelineInvariant == PipelineSpec => []PInv
<1>1. PipelineInit => PInv
  BY InitPInv
<1>2. PInv /\ [PipelineNext]_vars => PInv'
  BY PInvStep
<1> QED
  BY <1>1, <1>2, PTL DEF PipelineSpec

\* Each step of the workers, the publisher, the passes, the broker and the operator is one
\* transaction of packages/db or leaves the database alone, so what is proved of the store
\* holds of the whole pipeline.
THEOREM PipelineImplementsStore == PipelineSpec => ImplementsStore
<1>1. PipelineInit => StoreInit
  BY DEF PipelineInit
<1>2. PInv /\ [PipelineNext]_vars => [StoreNext]_dbVars
  BY PipelineStore DEF PInv, StepInv, StoreStep
<1> QED
  BY <1>1, <1>2, PipelineInvariant, PTL DEF PipelineSpec, ImplementsStore, StoreSpec

\* An order is emitted at most once, and only of an intent that was taken; what was refused
\* before the take was not sent (processor.ts:179), whatever Redis loses or delivers again.
THEOREM OrdersAreSentOnce == PipelineSpec => []SendsAreSafe
<1>1. PInv => SendsAreSafe
  <2> SUFFICES ASSUME PInv PROVE SendsAreSafe
    OBVIOUS
  <2>1. ShapeInv /\ SendInv
    BY DEF PInv
  <2>2. PipelineTypeOK
    BY <2>1 DEF ShapeInv, PipelineTypes, PipelineTypeOK, BrokerRows, TradeRow, SlotRows, SlotRow,
                AttemptRow, JobRow
  <2>3. SentAtMostOnce
    BY <2>1 DEF SendInv, TakenOnce, SentAtMostOnce
  <2>4. PlainRefusalSentNothing
    BY <2>1 DEF SendInv, PlainIsFinal, PlainReasons, PlainRefusalSentNothing
  <2> QED
    BY <2>2, <2>3, <2>4 DEF SendsAreSafe
<1> QED
  BY <1>1, PipelineInvariant, PTL

\* A worker deployed DEMO_ONLY sends no real order, whatever the backend queued for it: the
\* intent is refused, or stays queued.
THEOREM DemoWorkersSendNoReal == PipelineSpec => []DemoOnlySendsNoReal
<1>1. PInv => DemoOnlySendsNoReal
  BY DEF PInv, SendInv, DemoFence, DemoOnlySendsNoReal
<1> QED
  BY <1>1, PipelineInvariant, PTL

-----------------------------------------------------------------------------
(* What a step does to the orders                                           *)

\* The broker keeps what it has and opens only an order in flight; an order is in flight only
\* once a slot poised to send it has, and a slot becomes poised by the take alone.
WorldStep ==
  /\ TradesStay
  /\ \A i \in Intents :
       /\ order'[i] = "inFlight" => order[i] = "inFlight" \/ Poised(i)
       /\ brokerTrade[i].state = "none" /\ brokerTrade'[i].state # "none" =>
            /\ order[i] = "inFlight"
            /\ brokerTrade'[i].account = AccountOf[i]
            /\ brokerTrade'[i].terms.mode = TermsOf[i].mode
            /\ brokerTrade'[i].terms.side = TermsOf[i].side
       /\ Poised(i)' => \/ Poised(i)
                        \/ intent[i].status = "queued" /\ intent'[i].status = "submitting"

LEMMA StillWorld == ASSUME UNCHANGED <<worker, brokerVars>> PROVE WorldStep
BY DEF WorldStep, TradesStay, Poised, brokerVars

LEMMA BrokerWorld == ASSUME ShapeInv, BrokerStep PROVE WorldStep
<1>1. TradesStay /\ UNCHANGED worker
  BY BrokerKeeps
<1>2. \A i \in Intents : Poised(i)' => Poised(i)
  BY <1>1 DEF Poised
<1>3. DOMAIN brokerTrade = Trades /\ order \in [Intents -> {NoOrder, "inFlight", "opened", "refused"}]
      /\ Intents \subseteq Trades
  BY PipelineAssumption DEF ShapeInv, PipelineTypes, PipelineAssumption
<1> DEFINE Opens(i) ==
             /\ order'[i] = "inFlight" => order[i] = "inFlight"
             /\ brokerTrade[i].state = "none" /\ brokerTrade'[i].state # "none" =>
                  /\ order[i] = "inFlight"
                  /\ brokerTrade'[i].account = AccountOf[i]
                  /\ brokerTrade'[i].terms.mode = TermsOf[i].mode
                  /\ brokerTrade'[i].terms.side = TermsOf[i].side
<1>4. ASSUME NEW i \in Intents PROVE Opens(i)
  <2>1. ASSUME NEW j \in Intents, OpenOrder(j) PROVE Opens(i)
    <3>1. PICK terms \in Terms :
            /\ terms.mode = TermsOf[j].mode /\ terms.side = TermsOf[j].side
            /\ brokerTrade' = [brokerTrade EXCEPT ![j] =
                                 [state |-> "open", account |-> AccountOf[j], terms |-> terms]]
      BY <2>1 DEF OpenOrder
    <3>2. order' = [order EXCEPT ![j] = "opened"] /\ order[j] = "inFlight"
      BY <2>1 DEF OpenOrder
    <3> QED
      BY <1>3, <3>1, <3>2
  <2>2. ASSUME NEW j \in Intents, RefuseOrder(j) PROVE Opens(i)
    BY <1>3, <2>2 DEF RefuseOrder
  <2>3. ASSUME NEW t \in Trades, CloseTrade(t) PROVE Opens(i)
    BY <1>3, <2>3 DEF CloseTrade
  <2>4. ASSUME NEW t \in Trades, NEW a \in Accounts, NEW terms \in Terms, PlatformTrade(t, a, terms)
        PROVE  Opens(i)
    BY <1>3, <2>4 DEF PlatformTrade
  <2> QED
    BY <2>1, <2>2, <2>3, <2>4 DEF BrokerStep, Broker
<1> QED
  BY <1>1, <1>2, <1>4 DEF WorldStep

\* A slot that starts, ends or goes on is poised only if it was.
LEMMA QuietWorld ==
  ASSUME ShapeInv, NEW w \in Workers, UNCHANGED brokerVars,
         SlotGoes(w) \/ SlotEnds(w) \/ \E q \in Topics, i \in Intents : SlotStarts(w, q, i)
  PROVE  WorldStep
<1>1. \A x \in Workers : x # w => worker'[x] = worker[x]
  BY DEF SlotGoes, Becomes, SlotEnds, SlotStarts, ShapeInv, PipelineTypes
<1>2. worker'[w].pc = "taken" => worker[w].pc = "taken" /\ worker'[w].intent = worker[w].intent
  <2>1. CASE SlotGoes(w)
    BY <2>1 DEF SlotGoes, Becomes
  <2>2. CASE SlotEnds(w)
    BY <2>2, IdleRow DEF SlotEnds, ShapeInv, PipelineTypes
  <2>3. CASE \E q \in Topics, i \in Intents : SlotStarts(w, q, i)
    BY <2>3 DEF SlotStarts
  <2> QED
    BY <2>1, <2>2, <2>3
<1>3. \A i \in Intents : Poised(i)' => Poised(i)
  BY <1>1, <1>2 DEF Poised
<1> QED
  BY <1>3 DEF WorldStep, TradesStay, brokerVars

LEMMA SlotWorld ==
  ASSUME IInv, ShapeInv, NEW w \in Workers, Slot(w) \/ FailJob(w) \/ WorkerCrash(w)
  PROVE  WorldStep
<1>1. CASE Send(w)
  <2>1. SlotSends(w) /\ UNCHANGED brokerTrade
    BY <1>1, SendIs DEF Send
  <2>2. worker[w].intent \in Intents /\ Poised(worker[w].intent)
    BY <2>1, SlotIntent DEF SlotSends, Poised
  <2>3. /\ \A x \in Workers : x # w => worker'[x] = worker[x]
        /\ worker'[w].pc = "sent"
        /\ order' = [order EXCEPT ![worker[w].intent] = "inFlight"]
    BY <2>1 DEF SlotSends, Becomes
  <2>4. \A i \in Intents : Poised(i)' => Poised(i)
    BY <2>3 DEF Poised
  <2>5. \A i \in Intents : order'[i] = "inFlight" => order[i] = "inFlight" \/ Poised(i)
    BY <2>2, <2>3 DEF ShapeInv, PipelineTypes
  <2> QED
    BY <2>1, <2>4, <2>5 DEF WorldStep, TradesStay
<1>2. CASE SlotTakes(w) /\ UNCHANGED brokerVars
  <2>1. /\ \A x \in Workers : x # w => worker'[x] = worker[x]
        /\ worker'[w].intent = worker[w].intent
        /\ intent[worker[w].intent].status = "queued"
    BY <1>2 DEF SlotTakes, Becomes, MayTake, At
  <2>2. intent'[worker[w].intent].status = "submitting"
    <3>1. worker[w].intent \in Intents
      BY <1>2, SlotIntent DEF SlotTakes
    <3> QED
      BY <1>2, <3>1 DEF SlotTakes, TakeIntent, Move, MoveBy, IInv, TypeOK
  <2>3. \A i \in Intents : Poised(i)' =>
          Poised(i) \/ (intent[i].status = "queued" /\ intent'[i].status = "submitting")
    BY <2>1, <2>2 DEF Poised
  <2> QED
    BY <1>2, <2>3 DEF WorldStep, TradesStay, brokerVars
<1>3. CASE Finish(w) \/ FailJob(w) \/ WorkerCrash(w)
  <2>1. SlotEnds(w) /\ UNCHANGED brokerVars
    BY <1>3 DEF Finish, FailJob, WorkerCrash, SlotEnds
  <2> QED
    BY <2>1, QuietWorld
<1>4. CASE \/ HandleQueued(w) \/ HandleRefused(w) \/ HandleSubmitting(w) \/ NotSent(w)
           \/ Answer(w) \/ PersistOutcome(w) \/ HandleUnknown(w)
  <2>1. UNCHANGED brokerVars
    BY <1>4 DEF HandleQueued, HandleRefused, HandleSubmitting, NotSent, Answer,
                PersistOutcome, HandleUnknown
  <2>2. SlotGoes(w) \/ SlotTakes(w)
    BY <1>4, QueuedIs, AnswerIs, DoneIs DEF HandleSubmitting, PersistOutcome, HandleUnknown
  <2> QED
    BY <1>2, <2>1, <2>2, QuietWorld
<1> QED
  BY <1>1, <1>2, <1>3, <1>4 DEF Slot

LEMMA WorldSteps == ASSUME PInv, [PipelineNext]_vars PROVE WorldStep
<1>1. IInv /\ ShapeInv
  BY DEF PInv, StepInv
<1>2. CASE StoreOnly
  BY <1>1, <1>2, StoreOnlySteps, StillWorld
<1>3. CASE BrokerStep
  BY <1>1, <1>3, BrokerWorld
<1>4. ASSUME NEW q \in Topics, NEW i \in Intents,
             \/ Publish(q, i) \/ PublishFails(q, i) \/ LandAdd(q, i) \/ PublisherCrash(q, i)
             \/ FindMissing(q, i) \/ Repend(q, i) \/ LoseJob(q, i) \/ StallJob(q, i)
      PROVE  WorldStep
  BY <1>1, <1>4, QueueSteps, StillWorld
<1>5. ASSUME NEW w \in Workers, NEW q \in Topics, NEW i \in Intents, TakeJob(w, q, i)
      PROVE  WorldStep
  <2>1. UNCHANGED brokerVars
    BY <1>5, Zenon DEF TakeJob
  <2> QED
    BY <1>1, <1>5, <2>1, TakeJobIs, QuietWorld
<1>6. ASSUME NEW w \in Workers, Slot(w) \/ FailJob(w) \/ WorkerCrash(w) PROVE WorldStep
  BY <1>1, <1>6, SlotWorld
<1>7. ASSUME NEW r \in Replicas,
             Attempt(r) \/ ReplicaCrash(r) \/ \E i \in Intents : Claim(r, i)
      PROVE  WorldStep
  BY <1>1, <1>7, PassSteps, StillWorld
<1> QED
  BY <1>2, <1>3, <1>4, <1>5, <1>6, <1>7, StepsOf

-----------------------------------------------------------------------------
(* What a conclusion rests on                                               *)

\* An intent ends rejected from queued or with an order that cannot open, it is parked for the
\* operator or its window closes once the broker has acted, and it is linked to its own trade
\* and settled by it closed.
Concluded(i) ==
  /\ intent'[i].status = "rejected" =>
       \/ intent[i].status \in {"rejected", "queued"}
       \/ brokerTrade[i].state = "none" /\ Over(i)
  /\ intent'[i].status = "manual_review" => intent[i].status = "manual_review" \/ Over(i)
  /\ intent'[i].status = "settled" => intent[i].status = "settled" \/ brokerTrade[i].state = "closed"
  /\ trade'[i] = trade[i] \/ trade'[i].id = i
  /\ "window" \in elapsed'[i] =>
       \/ "window" \in elapsed[i]
       \/ intent[i].status \notin {"absent", "queued"} /\ Over(i)

StoreSafe == \A i \in Intents : Concluded(i)

LEMMA SameRowsSafe ==
  ASSUME TypeOK, UNCHANGED <<intent, trade>>,
         \A i \in Intents : "window" \in elapsed'[i] =>
           \/ "window" \in elapsed[i]
           \/ intent[i].status \notin {"absent", "queued"} /\ Over(i)
  PROVE  StoreSafe
BY DEF StoreSafe, Concluded

LEMMA QuietSafe == ASSUME TypeOK, UNCHANGED dbVars PROVE StoreSafe
BY DEF StoreSafe, Concluded, dbVars

LEMMA MoveSafe ==
  ASSUME TypeOK, NEW i \in Intents, NEW edges, NEW to, NEW held, NEW error,
         MoveBy(i, edges, to, held, error),
         to = "rejected" => \/ intent[i].status = "queued"
                            \/ brokerTrade[i].state = "none" /\ Over(i),
         to = "manual_review" => Over(i),
         to = "settled" => brokerTrade[i].state = "closed",
         \A j \in Intents : trade'[j] = trade[j] \/ trade'[j].id = j
  PROVE  StoreSafe
<1>1. intent \in [Intents -> IntentRow] /\ elapsed \in [Intents -> SUBSET Timers]
  BY DEF TypeOK
<1>2. /\ intent' = [intent EXCEPT ![i] = [status |-> to, version |-> @.version + edges,
                                          held |-> held, error |-> error]]
      /\ elapsed' = [elapsed EXCEPT ![i] = (@ \cap Readable(to)) \cup Unclaimed(to)]
  BY DEF MoveBy
<1>3. intent'[i].status = to /\ \A j \in Intents : j # i => intent'[j] = intent[j]
  BY <1>1, <1>2
<1>4. \A j \in Intents : "window" \in elapsed'[j] => "window" \in elapsed[j]
  BY <1>1, <1>2 DEF Unclaimed
<1> QED
  BY <1>3, <1>4 DEF StoreSafe, Concluded

LEMMA RejectSafe ==
  ASSUME TypeOK, NEW i \in Intents, NEW from, NEW v, NEW reason, RejectIntent(i, from, v, reason),
         from = "queued" \/ (brokerTrade[i].state = "none" /\ Over(i))
  PROVE  StoreSafe
BY MoveSafe DEF RejectIntent, Move, At

\* The moves that conclude nothing.
LEMMA PlainSafe ==
  ASSUME TypeOK, NEW i \in Intents, NEW v,
         \/ TakeIntent(i, v) \/ StartReconciling(i, v)
         \/ \E reason, aged : MarkIntentUnknown(i, v, reason, aged)
  PROVE  StoreSafe
<1>1. UNCHANGED trade /\ \E to, held, error : /\ MoveBy(i, 1, to, held, error)
                                              /\ to \in {"submitting", "reconciling", "unknown"}
  BY DEF TakeIntent, StartReconciling, MarkIntentUnknown, Move
<1> QED
  BY <1>1, MoveSafe

LEMMA LinkSafe ==
  ASSUME TypeOK, NEW i \in Intents, NEW v, NEW from, NEW terms,
         \/ MarkIntentAccepted(i, v, from, i, terms)
         \/ /\ brokerTrade[i].state = "closed"
            /\ SettleIntent(i, v, from, i, terms) \/ ConcludeClosed(i, v, i, terms)
  PROVE  StoreSafe
<1>1. trade \in [Intents -> [id : Trades \cup {NoTrade}, status : {"none", "open", "closed"}]]
  BY DEF TypeOK
<1>2. \A j \in Intents : trade'[j] = trade[j] \/ trade'[j].id = j
  BY <1>1 DEF MarkIntentAccepted, SettleIntent, ConcludeClosed
<1>3. \E edges, to, held, error :
        /\ MoveBy(i, edges, to, held, error)
        /\ to \in {"accepted", "settled"}
        /\ to = "settled" => brokerTrade[i].state = "closed"
  BY DEF MarkIntentAccepted, SettleIntent, ConcludeClosed, Move
<1> QED
  BY <1>2, <1>3, MoveSafe

LEMMA HaltSafe ==
  ASSUME TypeOK, NEW i \in Intents, NEW v, NEW reason, HaltAccountForManualReview(i, v, reason),
         Over(i)
  PROVE  StoreSafe
BY MoveSafe DEF HaltAccountForManualReview, Move

LEMMA ClaimSafe == ASSUME TypeOK, NEW i \in Intents, ClaimReconciling(i) PROVE StoreSafe
<1>1. intent \in [Intents -> IntentRow] /\ elapsed \in [Intents -> SUBSET Timers]
  BY DEF TypeOK
<1>2. /\ intent' = [intent EXCEPT ![i].version = @ + 1] /\ UNCHANGED trade
      /\ elapsed' = [elapsed EXCEPT ![i] = @ \ {"lease"}]
  BY DEF ClaimReconciling
<1>3. \A j \in Intents : intent'[j].status = intent[j].status
  BY <1>1, <1>2 DEF IntentRow
<1>4. \A j \in Intents : "window" \in elapsed'[j] => "window" \in elapsed[j]
  BY <1>1, <1>2
<1> QED
  BY <1>2, <1>3, <1>4 DEF StoreSafe, Concluded

\* An order the broker opened is not in flight, and no slot is about to send it.
LEMMA OpenedIsOver ==
  ASSUME PInv, NEW i \in Intents, brokerTrade[i].state # "none"
  PROVE  Over(i)
<1>1. order[i] = "opened" /\ sends[i] # 0
  BY DEF PInv, ShapeInv, BrokerRows, NoOrder
<1>2. ~Poised(i)
  BY <1>1 DEF PInv, SendInv, TakenOnce
<1> QED
  BY <1>1, <1>2 DEF Over

LEMMA QueueSafe ==
  ASSUME TypeOK, NEW q \in Topics, NEW i \in Intents,
         \/ Publish(q, i) \/ PublishFails(q, i) \/ LandAdd(q, i) \/ PublisherCrash(q, i)
         \/ FindMissing(q, i) \/ Repend(q, i) \/ LoseJob(q, i) \/ StallJob(q, i)
         \/ \E w \in Workers : TakeJob(w, q, i)
  PROVE  StoreSafe
<1>1. ASSUME NEW from, RecordDeliveryFailure(q, i, from) PROVE StoreSafe
  <2>1. UNCHANGED trade
    BY <1>1 DEF RecordDeliveryFailure
  <2>2. CASE UNCHANGED <<intent, elapsed>>
    BY <2>1, <2>2, SameRowsSafe
  <2>3. CASE Move(i, "rejected", 0, "publish_failed") /\ intent[i].status = "queued"
    BY <2>1, <2>3, MoveSafe DEF Move
  <2> QED
    BY <1>1, <2>2, <2>3 DEF RecordDeliveryFailure
<1>2. CASE PublishFails(q, i) \/ Repend(q, i)
  <2>1. UNCHANGED dbVars \/ \E from : RecordDeliveryFailure(q, i, from)
    BY <1>2 DEF PublishFails, Repend
  <2> QED
    BY <1>1, <2>1, QuietSafe
<1>3. CASE Publish(q, i)
  <2>1. UNCHANGED <<intent, trade, elapsed>>
    BY <1>3 DEF Publish, MarkPublished
  <2> QED
    BY <2>1, SameRowsSafe
<1>4. CASE ~(PublishFails(q, i) \/ Repend(q, i) \/ Publish(q, i))
  <2>1. UNCHANGED dbVars
    BY <1>4, Zenon DEF LandAdd, PublisherCrash, FindMissing, LoseJob, StallJob, TakeJob
  <2> QED
    BY <2>1, QuietSafe
<1> QED
  BY <1>2, <1>3, <1>4

LEMMA StoreOnlySafe == ASSUME PInv, OrderInv, StoreOnly PROVE StoreSafe
<1>1. TypeOK /\ TradeFollowsStatus /\ LinkedToOwnTrade /\ WindowIsOver /\ Intents \subseteq Trades
  BY PipelineAssumption DEF PInv, StepInv, IInv, RowsInv, OrderInv, PipelineAssumption
<1>2. CASE Api
  <2>1. CASE Edit
    <3>1. UNCHANGED <<intent, trade, elapsed>>
      BY <2>1 DEF Edit, SetTrading, AdjustTokens, SetTradingMode, SwitchTradingModeOnDeposit,
         BlockUser, RevokeAccount, CreateTradingSession, StopSession
    <3> QED
      BY <1>1, <3>1, SameRowsSafe
  <2>2. ASSUME NEW i \in Intents, Creation(i) PROVE StoreSafe
    <3>1. UNCHANGED <<trade, elapsed>> /\ intent \in [Intents -> IntentRow]
      BY <1>1, <2>2 DEF Creation, BeginCreate, CreateIntent, AbortCreate, TypeOK
    <3>2. \A j \in Intents : intent'[j] = intent[j] \/ intent'[j].status = "queued"
      BY <2>2, <3>1 DEF Creation, BeginCreate, CreateIntent, AbortCreate
    <3> QED
      BY <3>1, <3>2 DEF StoreSafe, Concluded
  <2> QED
    BY <1>2, <2>1, <2>2 DEF Api
<1>3. ASSUME NEW i \in Intents,
             \/ Sweep(i) \/ SettleClosedTrade(i) \/ OperatorSettles(i) \/ OperatorReleases(i)
             \/ \E timer \in Timers : Pass(i, timer)
      PROVE  StoreSafe
  <2>1. CASE Sweep(i)
    BY <1>1, <2>1, PlainSafe DEF Sweep
  <2>2. CASE SettleClosedTrade(i)
    <3>1. /\ SettleIntent(i, AnyVersion, "accepted", trade[i].id, brokerTrade[trade[i].id].terms)
          /\ brokerTrade[trade[i].id].state = "closed" /\ trade[i].status = "open"
      BY <2>2 DEF SettleClosedTrade
    <3>2. trade[i].id = i
      BY <1>1, <3>1 DEF LinkedToOwnTrade, TradeFollowsStatus
    <3>3. SettleIntent(i, AnyVersion, "accepted", i, brokerTrade[i].terms) /\ brokerTrade[i].state = "closed"
      BY <3>1, <3>2
    <3> QED
      BY <1>1, <3>3, LinkSafe
  <2>3. CASE OperatorSettles(i)
    BY <1>1, <2>3, LinkSafe DEF OperatorSettles
  <2>4. CASE OperatorReleases(i)
    <3>1. RejectIntent(i, "manual_review", AnyVersion, "broker_rejected") /\ brokerTrade[i].state = "none"
      BY <2>4 DEF OperatorReleases
    <3>2. Over(i)
      BY <1>1, <3>1 DEF WindowIsOver, RejectIntent, At
    <3> QED
      BY <1>1, <3>1, <3>2, RejectSafe
  <2>5. ASSUME NEW timer \in Timers, Pass(i, timer) PROVE StoreSafe
    <3>1. /\ timer \in Readable(intent[i].status) /\ elapsed' = [elapsed EXCEPT ![i] = @ \cup {timer}]
          /\ timer = "window" => WindowOver(i)
          /\ UNCHANGED <<intent, trade>>
      BY <2>5 DEF Pass, Elapse
    <3>2. timer = "window" => Over(i) /\ intent[i].status \notin {"absent", "queued"}
      BY <3>1 DEF WindowOver, Over, Poised, Readable
    <3>3. \A j \in Intents : "window" \in elapsed'[j] =>
            "window" \in elapsed[j] \/ (timer = "window" /\ j = i)
      BY <1>1, <3>1 DEF TypeOK
    <3> QED
      BY <1>1, <3>1, <3>2, <3>3, SameRowsSafe
  <2> QED
    BY <1>3, <2>1, <2>2, <2>3, <2>4, <2>5
<1>4. CASE UNCHANGED vars
  BY <1>1, <1>4, QuietSafe DEF vars
<1> QED
  BY <1>2, <1>3, <1>4 DEF StoreOnly

LEMMA SlotSafe ==
  ASSUME PInv, OrderInv, NEW w \in Workers, Slot(w) \/ FailJob(w) \/ WorkerCrash(w)
  PROVE  StoreSafe
<1> DEFINE i == worker[w].intent
           v == worker[w].version
<1>1. TypeOK /\ ShapeInv /\ SendInv /\ RefusedSlots
  BY DEF PInv, StepInv, IInv, OrderInv
<1>2. CASE NotSent(w) \/ Send(w) \/ Answer(w) \/ Finish(w) \/ FailJob(w) \/ WorkerCrash(w)
  <2>1. UNCHANGED dbVars
    BY <1>2 DEF NotSent, Send, Answer, Finish, FailJob, WorkerCrash
  <2> QED
    BY <1>1, <2>1, QuietSafe
<1>3. CASE HandleQueued(w) \/ HandleRefused(w)
  <2>1. i \in Intents
    BY <1>1, <1>3, SlotIntent DEF HandleQueued, HandleRefused
  <2>2. \/ UNCHANGED dbVars \/ TakeIntent(i, v)
        \/ \E reason : RejectIntent(i, "queued", v, reason)
    BY <1>3 DEF HandleQueued, HandleRefused, RejectExpiredIntent, RejectLateIntent,
                RejectPausedIntent
  <2> QED
    BY <1>1, <2>1, <2>2, QuietSafe, PlainSafe, RejectSafe
<1>4. CASE HandleSubmitting(w)
  <2>1. i \in Intents
    BY <1>1, <1>4, SlotIntent DEF HandleSubmitting
  <2>2. UNCHANGED dbVars \/ MarkIntentUnknown(i, AnyVersion, "stale_submitting", TRUE)
    BY <1>4 DEF HandleSubmitting
  <2> QED
    BY <1>1, <2>1, <2>2, QuietSafe, PlainSafe
<1>5. CASE PersistOutcome(w)
  <2>1. /\ i \in Intents /\ worker[w].result \in {"accepted", "rejected", "unknown"}
        /\ worker[w].pc = "answered"
    BY <1>1, <1>5, SlotIntent DEF PersistOutcome, ShapeInv, PipelineTypes, SlotRows, SlotRow
  <2>2. \/ UNCHANGED dbVars
        \/ \E reason : MarkIntentUnknown(i, v, reason, FALSE)
        \/ worker[w].result = "rejected" /\ RejectIntent(i, "submitting", v, "broker_rejected")
        \/ MarkIntentAccepted(i, v, "submitting", i, brokerTrade[i].terms)
    BY <1>5, <2>1 DEF PersistOutcome
  <2>3. worker[w].result = "rejected" => brokerTrade[i].state = "none" /\ Over(i)
    <3> SUFFICES ASSUME worker[w].result = "rejected" PROVE brokerTrade[i].state = "none" /\ Over(i)
      OBVIOUS
    <3>1. order[i] \in {NoOrder, "refused"}
      BY <1>1, <2>1 DEF RefusedSlots
    <3>2. order[i] # "opened" /\ order[i] # "inFlight"
      BY <3>1 DEF NoOrder
    <3>3. ~Poised(i)
      <4>1. Past(w, i)
        BY <2>1 DEF Past
      <4>2. ASSUME NEW x \in Workers, worker[x].intent = i, worker[x].pc = "taken" PROVE FALSE
        <5>1. Past(x, i)
          BY <4>2 DEF Past
        <5>2. x = w
          BY <1>1, <2>1, <4>1, <5>1 DEF SendInv, TakenOnce
        <5> QED
          BY <2>1, <4>2, <5>2
      <4> QED
        BY <4>2 DEF Poised
    <3> QED
      BY <1>1, <2>1, <3>2, <3>3 DEF ShapeInv, BrokerRows, Over
  <2> QED
    BY <1>1, <2>1, <2>2, <2>3, QuietSafe, PlainSafe, RejectSafe, LinkSafe
<1>6. CASE HandleUnknown(w)
  <2>1. i \in Intents
    BY <1>1, <1>6, SlotIntent DEF HandleUnknown
  <2>2. UNCHANGED dbVars \/ StartReconciling(i, v)
    BY <1>6 DEF HandleUnknown
  <2> QED
    BY <1>1, <2>1, <2>2, QuietSafe, PlainSafe
<1> QED
  BY <1>2, <1>3, <1>4, <1>5, <1>6 DEF Slot

\* The conclusion of an attempt: what it found is the intent's own trade, and what it did not
\* find does not exist, since the intent is still unconcluded.
LEMMA PersistSafe == ASSUME PInv, OrderInv, NEW r \in Replicas, Persist(r) PROVE StoreSafe
<1> DEFINE i == rec[r].intent
           v == rec[r].version
           t == rec[r].found
           terms == brokerTrade[t].terms
<1>1. /\ TypeOK /\ ShapeInv /\ TradeFollowsStatus
      /\ i \in Intents /\ AttemptKnows(r, i) /\ rec[r].pc = "decided"
      /\ rec[r].result \in {"found", "not_found", "ambiguous", "unresolved"}
  BY DEF PInv, StepInv, IInv, RowsInv, OrderInv, AttemptsKnow, Persist, ShapeInv, PipelineTypes,
         AttemptRow, AttemptRows
<1>2. CASE ~At(i, "reconciling", v)
  BY <1>1, <1>2, QuietSafe DEF Persist
<1>3. CASE At(i, "reconciling", v)
  <2>1. Live(i) /\ trade[i] = NoLink
    BY <1>1, <1>3 DEF At, Live, Terminal, TradeFollowsStatus, TypeOK, NoLink
  <2>2. CASE rec[r].result = "found"
    <3>1. /\ t = i /\ brokerTrade[i].state # "none"
          /\ rec[r].closed => brokerTrade[i].state = "closed"
      BY <1>1, <2>1, <2>2 DEF AttemptKnows, ShapeInv, AttemptRows
    <3>2. \/ HaltAccountForManualReview(i, v, "trade_mismatch")
          \/ rec[r].closed /\ ConcludeClosed(i, v, i, terms)
          \/ MarkIntentAccepted(i, v, "reconciling", i, terms)
      BY <1>3, <2>2, <3>1 DEF Persist, ConcludeOpen
    <3>3. Over(i)
      BY <1>1, <3>1, OpenedIsOver
    <3> QED
      BY <1>1, <3>1, <3>2, <3>3, HaltSafe, LinkSafe
  <2>3. CASE rec[r].result = "not_found"
    <3>1. RejectIntent(i, "reconciling", v, "reconciliation_not_found")
      BY <1>3, <2>3 DEF Persist
    <3>2. brokerTrade[i].state = "none" /\ Over(i)
      BY <1>1, <2>1, <2>3 DEF AttemptKnows
    <3> QED
      BY <1>1, <3>1, <3>2, RejectSafe
  <2>4. CASE rec[r].result \in {"ambiguous", "unresolved"}
    <3>1. \E reason : HaltAccountForManualReview(i, v, reason)
      BY <1>3, <2>4 DEF Persist
    <3>2. Over(i)
      BY <1>1, <2>4 DEF AttemptKnows
    <3> QED
      BY <1>1, <3>1, <3>2, HaltSafe
  <2> QED
    BY <1>1, <2>2, <2>3, <2>4
<1> QED
  BY <1>2, <1>3

LEMMA SafeSteps == ASSUME PInv, OrderInv, [PipelineNext]_vars PROVE StoreSafe
<1>1. TypeOK /\ IInv /\ ShapeInv
  BY DEF PInv, StepInv, IInv
<1>2. CASE StoreOnly
  BY <1>2, StoreOnlySafe
<1>3. CASE BrokerStep
  BY <1>1, <1>3, BrokerSteps, QuietSafe
<1>4. CASE \E q \in Topics, i \in Intents :
             \/ Publish(q, i) \/ PublishFails(q, i) \/ LandAdd(q, i) \/ PublisherCrash(q, i)
             \/ FindMissing(q, i) \/ Repend(q, i) \/ LoseJob(q, i) \/ StallJob(q, i)
             \/ \E w \in Workers : TakeJob(w, q, i)
  BY <1>1, <1>4, QueueSafe
<1>5. ASSUME NEW w \in Workers, Slot(w) \/ FailJob(w) \/ WorkerCrash(w) PROVE StoreSafe
  BY <1>5, SlotSafe
<1>6. ASSUME NEW r \in Replicas,
             Attempt(r) \/ ReplicaCrash(r) \/ \E i \in Intents : Claim(r, i)
      PROVE  StoreSafe
  <2>1. CASE ReadOpen(r) \/ Decide(r) \/ AttemptFails(r) \/ ReplicaCrash(r)
    <3>1. UNCHANGED dbVars
      BY <1>1, <2>1, DecideIs DEF ReadOpen, AttemptFails, ReplicaCrash
    <3> QED
      BY <1>1, <3>1, QuietSafe
  <2>2. ASSUME NEW i \in Intents, Claim(r, i) PROVE StoreSafe
    <3>1. ClaimReconciling(i)
      BY <2>2, Zenon DEF Claim
    <3> QED
      BY <1>1, <3>1, ClaimSafe
  <2> QED
    BY <1>6, <2>1, <2>2, PersistSafe DEF Attempt
<1> QED
  BY <1>2, <1>3, <1>4, <1>5, <1>6, StepsOf

-----------------------------------------------------------------------------
(* What stays true of an order                                              *)

\* The statuses go on: what was created stays so, what ended stays ended.
GoesForward(i) ==
  /\ intent[i].status \notin {"absent", "queued"} => intent'[i].status \notin {"absent", "queued"}
  /\ intent[i].status # "absent" /\ ~Live(i) => intent'[i].status = intent[i].status
  /\ ~Live(i) /\ intent'[i].status \notin Terminal \cup {"absent"} =>
       \A j \in Intents : j # i /\ AccountOf[j] = AccountOf[i] => ~Live(j) /\ intent'[j] = intent[j]

LEMMA StatusGoesOn == ASSUME RowStep, NEW i \in Intents PROVE GoesForward(i)
<1>1. CASE RowsStay
  BY <1>1 DEF RowsStay, Live, GoesForward
<1>2. ASSUME NEW j \in Intents, RowMoves(j) PROVE GoesForward(i)
  <2>1. CASE i = j
    BY <1>2, <2>1 DEF RowMoves, Transitions, Live, Terminal, GoesForward
  <2>2. CASE i # j
    BY <1>2, <2>2 DEF RowMoves, Live, GoesForward
  <2> QED
    BY <2>1, <2>2
<1> QED
  BY <1>1, <1>2 DEF RowStep

\* The broker acts once on an order: what is over stays over, and opens nothing more.
LEMMA OverStays ==
  ASSUME WorldStep, NEW i \in Intents, intent[i].status \notin {"absent", "queued"}, Over(i)
  PROVE  Over(i)' /\ (brokerTrade[i].state = "none" => brokerTrade'[i].state = "none")
BY DEF WorldStep, Over

\* A link is not undone.
LEMMA LinkStays ==
  ASSUME PInv, PInv', RowStep, NEW i \in Intents, trade[i] # NoLink
  PROVE  trade'[i] # NoLink
<1>1. /\ TypeOK /\ TradeFollowsStatus /\ TypeOK' /\ TradeFollowsStatus'
  BY DEF PInv, StepInv, IInv, RowsInv
<1>2. intent[i].status \in {"accepted", "settled"}
  BY <1>1 DEF TypeOK, TradeFollowsStatus, NoLink
<1>3. intent'[i].status \in {"accepted", "settled"}
  BY <1>2 DEF RowStep, RowsStay, RowMoves, Transitions
<1> QED
  BY <1>1, <1>3 DEF TradeFollowsStatus, NoLink

\* What every step keeps, whoever takes it.
Steady == PInv /\ PInv' /\ OrderInv /\ RowStep /\ WorldStep /\ StoreSafe

LEMMA OrderRowsStep == ASSUME Steady PROVE OrderRows'
<1> SUFFICES ASSUME NEW i \in Intents, brokerTrade'[i].state # "none"
             PROVE  /\ brokerTrade'[i].account = AccountOf[i]
                    /\ brokerTrade'[i].terms.mode = TermsOf[i].mode
                    /\ brokerTrade'[i].terms.side = TermsOf[i].side
  BY DEF OrderRows
<1>1. WorldStep /\ OrderRows /\ i \in Trades
  BY PipelineAssumption DEF Steady, OrderInv, PipelineAssumption
<1>2. CASE brokerTrade[i].state = "none"
  BY <1>1, <1>2 DEF WorldStep
<1>3. CASE brokerTrade[i].state # "none"
  BY <1>1, <1>3 DEF WorldStep, TradesStay, OrderRows
<1> QED
  BY <1>2, <1>3

LEMMA OneLiveStep == ASSUME Steady PROVE OneLive'
<1>1. RowStep /\ OneLive
  BY DEF Steady, OrderInv
<1> SUFFICES ASSUME NEW i \in Intents, NEW j \in Intents, i # j, AccountOf[i] = AccountOf[j],
                    Live(i)', Live(j)'
             PROVE  FALSE
  BY DEF OneLive
<1>2. CASE Live(i) /\ Live(j)
  BY <1>1, <1>2 DEF OneLive
<1>3. GoesForward(i) /\ GoesForward(j)
  BY <1>1, StatusGoesOn
<1>4. CASE ~Live(i)
  <2>1. ~Live(j) /\ intent'[j] = intent[j]
    BY <1>3, <1>4 DEF GoesForward, Live
  <2> QED
    BY <2>1 DEF Live
<1>5. CASE ~Live(j)
  <2>1. ~Live(i) /\ intent'[i] = intent[i]
    BY <1>3, <1>5 DEF GoesForward, Live
  <2> QED
    BY <2>1 DEF Live
<1> QED
  BY <1>2, <1>4, <1>5

LEMMA WindowStep == ASSUME Steady PROVE WindowIsOver'
<1>1. RowStep /\ WorldStep /\ StoreSafe /\ WindowIsOver /\ PInv /\ PInv'
  BY DEF Steady, OrderInv
<1> SUFFICES ASSUME NEW i \in Intents
             PROVE  /\ "window" \in elapsed'[i] =>
                         intent'[i].status \notin {"absent", "queued"} /\ Over(i)'
                    /\ intent'[i].status = "manual_review" => Over(i)'
  BY DEF WindowIsOver
<1>2. ASSUME Over(i), intent[i].status \notin {"absent", "queued"}
      PROVE  Over(i)' /\ intent'[i].status \notin {"absent", "queued"}
  BY <1>1, <1>2, OverStays, StatusGoesOn DEF GoesForward
<1>3. intent[i].status \in {"absent", "queued"} =>
        intent'[i].status \in {"absent", "queued", "submitting", "rejected"}
  BY <1>1 DEF RowStep, RowsStay, RowMoves, Transitions
<1>4. Concluded(i)
  BY <1>1 DEF StoreSafe
<1>5. ASSUME "window" \in elapsed'[i]
      PROVE  intent'[i].status \notin {"absent", "queued"} /\ Over(i)'
  BY <1>1, <1>2, <1>4, <1>5 DEF Concluded, WindowIsOver
<1>6. ASSUME intent'[i].status = "manual_review" PROVE Over(i)'
  <2>1. Over(i)
    BY <1>1, <1>4, <1>6 DEF Concluded, WindowIsOver
  <2>2. intent[i].status \notin {"absent", "queued"}
    BY <1>3, <1>6
  <2> QED
    BY <1>2, <2>1, <2>2
<1> QED
  BY <1>5, <1>6

LEMMA ReleasedStep == ASSUME Steady PROVE ReleasedOrderNeverOpens'
<1>1. /\ RowStep /\ WorldStep /\ StoreSafe /\ ReleasedOrderNeverOpens /\ PInv
      /\ Intents \subseteq Trades
  BY PipelineAssumption DEF Steady, OrderInv, PipelineAssumption
<1> SUFFICES ASSUME NEW i \in Intents, intent'[i].status = "rejected"
             PROVE  brokerTrade'[i].state = "none" /\ Over(i)'
  BY DEF ReleasedOrderNeverOpens, Over
<1>2. \/ intent[i].status \in {"rejected", "queued"}
      \/ brokerTrade[i].state = "none" /\ Over(i)
  BY <1>1 DEF StoreSafe, Concluded
<1>3. brokerTrade[i].state = "none" /\ Over(i)
  <2>1. CASE intent[i].status = "queued"
    <3>1. sends[i] = 0 /\ ~Poised(i)
      BY <1>1, <2>1 DEF PInv, SendInv, TakenOnce, Poised, Past
    <3>2. order[i] = NoOrder /\ brokerTrade[i].state = "none"
      BY <1>1, <3>1 DEF PInv, ShapeInv, BrokerRows, NoOrder
    <3> QED
      BY <3>1, <3>2 DEF Over, NoOrder
  <2>2. CASE intent[i].status = "rejected"
    BY <1>1, <2>2 DEF ReleasedOrderNeverOpens, Over
  <2> QED
    BY <1>2, <2>1, <2>2
<1> QED
  BY <1>1, <1>3 DEF WorldStep, Over

LEMMA LinkedStep == ASSUME Steady PROVE LinkedToOwnTrade'
<1>1. /\ RowStep /\ WorldStep /\ StoreSafe /\ LinkedToOwnTrade /\ PInv
      /\ Intents \subseteq Trades
  BY PipelineAssumption DEF Steady, OrderInv, PipelineAssumption
<1> SUFFICES ASSUME NEW i \in Intents
             PROVE  /\ trade'[i].id \in {NoTrade, i}
                    /\ intent'[i].status = "settled" => brokerTrade'[i].state = "closed"
  BY DEF LinkedToOwnTrade
<1>2. Concluded(i)
  BY <1>1 DEF StoreSafe
<1>3. trade'[i].id \in {NoTrade, i}
  BY <1>1, <1>2 DEF Concluded, LinkedToOwnTrade
<1>4. intent'[i].status = "settled" => brokerTrade[i].state = "closed"
  BY <1>1, <1>2 DEF Concluded, LinkedToOwnTrade
<1>5. brokerTrade[i].state = "closed" => brokerTrade'[i].state = "closed"
  BY <1>1 DEF WorldStep, TradesStay
<1> QED
  BY <1>3, <1>4, <1>5

\* A slot's refusal stands: a slot that answered is the only one past the take.
LEMMA RefusedStep ==
  ASSUME Steady,
         \A w \in Workers : \/ worker'[w] = worker[w] \/ worker'[w].pc # "answered"
                            \/ SlotGoes(w) /\ UNCHANGED order
  PROVE  RefusedSlots'
<1>1. /\ WorldStep /\ RefusedSlots /\ ShapeInv /\ SendInv /\ ShapeInv' /\ Intents \subseteq Trades
  BY PipelineAssumption DEF Steady, OrderInv, PInv, PipelineAssumption
<1> SUFFICES ASSUME NEW w \in Workers, worker'[w].pc = "answered", worker'[w].result = "rejected"
             PROVE  order'[worker'[w].intent] \in {NoOrder, "refused"}
  BY DEF RefusedSlots
<1>2. CASE worker'[w] = worker[w]
  <2>1. PICK i \in Intents : i = worker[w].intent
    BY <1>1, <1>2, SlotIntent
  <2>2. /\ order[i] \in {NoOrder, "refused"} /\ Past(w, i) /\ worker[w].pc = "answered"
    BY <1>1, <1>2, <2>1 DEF RefusedSlots, Past
  <2>3. ~Poised(i)
    <3>1. ASSUME NEW x \in Workers, worker[x].intent = i, worker[x].pc = "taken" PROVE FALSE
      <4>1. Past(x, i)
        BY <3>1 DEF Past
      <4>2. x = w
        BY <1>1, <2>2, <4>1 DEF SendInv, TakenOnce
      <4> QED
        BY <2>2, <3>1, <4>2
    <3> QED
      BY <3>1 DEF Poised
  <2>4. order'[i] # "inFlight" /\ order[i] # "opened" /\ order[i] # "inFlight"
    BY <1>1, <2>2, <2>3 DEF WorldStep, NoOrder
  <2>5. order'[i] # "opened"
    BY <1>1, <2>4 DEF WorldStep, ShapeInv, BrokerRows
  <2>6. order'[i] \in {NoOrder, "inFlight", "opened", "refused"}
    BY <1>1 DEF ShapeInv, PipelineTypes
  <2> QED
    BY <1>2, <2>1, <2>4, <2>5, <2>6
<1>3. CASE SlotGoes(w) /\ UNCHANGED order
  <2>1. /\ worker'[w].intent = worker[w].intent /\ worker[w].pc # "idle"
        /\ worker[w].pc = "taken" \/ order[worker[w].intent] = "refused"
    BY <1>3 DEF SlotGoes, Becomes
  <2>2. PICK i \in Intents : i = worker[w].intent
    BY <1>1, <2>1, SlotIntent
  <2>3. CASE worker[w].pc = "taken"
    <3>1. sends[i] = 0
      BY <1>1, <2>2, <2>3 DEF SendInv, TakenOnce, Poised
    <3>2. order[i] = NoOrder
      BY <1>1, <3>1 DEF ShapeInv, BrokerRows
    <3> QED
      BY <1>3, <2>1, <2>2, <3>2
  <2> QED
    BY <1>3, <2>1, <2>3
<1> QED
  BY <1>2, <1>3

LEMMA RefusedSteps == ASSUME Steady, [PipelineNext]_vars PROVE RefusedSlots'
<1>1. IInv /\ ShapeInv /\ SendInv
  BY DEF Steady, PInv, StepInv
<1>2. CASE UNCHANGED worker
  BY <1>2, RefusedStep
<1>3. ASSUME NEW w \in Workers, NEW q \in Topics, NEW i \in Intents, TakeJob(w, q, i)
      PROVE  RefusedSlots'
  <2>1. SlotStarts(w, q, i)
    BY <1>1, <1>3, TakeJobIs
  <2>2. \A x \in Workers : worker'[x] = worker[x] \/ worker'[x].pc # "answered"
    BY <2>1 DEF SlotStarts
  <2> QED
    BY <2>2, RefusedStep
<1>4. ASSUME NEW w \in Workers, Slot(w) \/ FailJob(w) \/ WorkerCrash(w) PROVE RefusedSlots'
  <2>1. CASE Send(w)
    <3>1. SlotSends(w)
      BY <1>1, <2>1, SendIs
    <3>2. \A x \in Workers : worker'[x] = worker[x] \/ worker'[x].pc # "answered"
      BY <3>1 DEF SlotSends, Becomes
    <3> QED
      BY <3>2, RefusedStep
  <2>2. CASE Finish(w) \/ FailJob(w) \/ WorkerCrash(w)
    <3>1. SlotEnds(w)
      BY <2>2 DEF Finish, FailJob, WorkerCrash, SlotEnds
    <3>2. \A x \in Workers : worker'[x] = worker[x] \/ worker'[x].pc # "answered"
      BY <1>1, <3>1, IdleRow DEF SlotEnds, ShapeInv, PipelineTypes
    <3> QED
      BY <3>2, RefusedStep
  <2>3. CASE \/ HandleQueued(w) \/ HandleRefused(w) \/ HandleSubmitting(w) \/ NotSent(w)
             \/ Answer(w) \/ PersistOutcome(w) \/ HandleUnknown(w)
    <3>1. UNCHANGED order
      BY <2>3 DEF HandleQueued, HandleRefused, HandleSubmitting, NotSent, Answer,
                  PersistOutcome, HandleUnknown, brokerVars
    <3>2. SlotGoes(w) \/ SlotTakes(w)
      BY <1>1, <2>3, QueuedIs, AnswerIs, DoneIs DEF HandleSubmitting, PersistOutcome, HandleUnknown
    <3>3. \A x \in Workers : \/ worker'[x] = worker[x] \/ worker'[x].pc # "answered"
                             \/ SlotGoes(x)
      BY <3>2 DEF SlotGoes, SlotTakes, Becomes
    <3> QED
      BY <3>1, <3>3, RefusedStep
  <2> QED
    BY <1>4, <2>1, <2>2, <2>3 DEF Slot
<1>5. CASE StoreOnly \/ BrokerStep
  BY <1>1, <1>2, <1>5, StoreOnlySteps, BrokerSteps
<1>6. ASSUME NEW q \in Topics, NEW i \in Intents,
             \/ Publish(q, i) \/ PublishFails(q, i) \/ LandAdd(q, i) \/ PublisherCrash(q, i)
             \/ FindMissing(q, i) \/ Repend(q, i) \/ LoseJob(q, i) \/ StallJob(q, i)
      PROVE  RefusedSlots'
  BY <1>1, <1>2, <1>6, QueueSteps
<1>7. ASSUME NEW r \in Replicas,
             Attempt(r) \/ ReplicaCrash(r) \/ \E i \in Intents : Claim(r, i)
      PROVE  RefusedSlots'
  BY <1>1, <1>2, <1>7, PassSteps
<1> QED
  BY <1>3, <1>4, <1>5, <1>6, <1>7, StepsOf

-----------------------------------------------------------------------------
(* What an attempt knows                                                    *)

\* The attempt itself does nothing in the step.
LEMMA AttemptStays ==
  ASSUME Steady, NEW r \in Replicas, NEW i \in Intents, rec'[r] = rec[r], rec[r].pc # "idle",
         rec[r].intent = i
  PROVE  AttemptKnows(r, i)'
<1>1. /\ RowStep /\ WorldStep /\ PInv /\ PInv' /\ ShapeInv /\ AttemptKnows(r, i)
      /\ Intents \subseteq Trades /\ rec[r].seen \subseteq Trades
      /\ rec[r].closing \in BOOLEAN
  BY PipelineAssumption
  DEF Steady, OrderInv, PInv, AttemptsKnow, PipelineAssumption, ShapeInv, PipelineTypes, AttemptRow
<1>2. intent[i].status \notin {"absent", "queued"} /\ intent'[i].status \notin {"absent", "queued"}
  BY <1>1, StatusGoesOn DEF AttemptKnows, GoesForward
<1>3. rec[r].closing =>
        Over(i) /\ Over(i)' /\ (brokerTrade[i].state = "none" => brokerTrade'[i].state = "none")
  BY <1>1, <1>2, OverStays DEF AttemptKnows
<1>4. \A t \in rec[r].seen : brokerTrade'[t].account = AccountOf[i]
  BY <1>1 DEF AttemptKnows, ShapeInv, AttemptRows, WorldStep, TradesStay
<1>5. rec[r].closing /\ brokerTrade'[i].state = "open" => brokerTrade[i].state = "open"
  <2>1. brokerTrade[i].state \in {"none", "open", "closed"}
    BY <1>1 DEF ShapeInv, BrokerRows, TradeRow
  <2>2. brokerTrade[i].state = "closed" => brokerTrade'[i].state = "closed"
    BY <1>1 DEF WorldStep, TradesStay
  <2> QED
    BY <1>3, <2>1, <2>2
<1>6. CASE rec[r].pc = "decided"
  <2>1. rec[r].result # "found" => rec[r].closing
    BY <1>1, <1>6 DEF AttemptKnows
  <2>2. rec[r].result = "not_found" => brokerTrade'[i].state = "none" \/ trade'[i] # NoLink
    BY <1>1, <1>3, <1>6, LinkStays DEF AttemptKnows
  <2>3. CASE rec[r].result = "found"
    <3>1. /\ rec[r].found \in Trades /\ brokerTrade[rec[r].found].state # "none"
          /\ brokerTrade[rec[r].found].terms = TermsOf[i]
          /\ rec[r].closed => brokerTrade[rec[r].found].state = "closed"
          /\ rec[r].found = i \/ ~Live(i)
      BY <1>1, <1>6, <2>3 DEF AttemptKnows, ShapeInv, AttemptRows
    <3>2. /\ brokerTrade'[rec[r].found].terms = TermsOf[i]
          /\ rec[r].closed => brokerTrade'[rec[r].found].state = "closed"
      BY <1>1, <3>1 DEF WorldStep, TradesStay
    <3>3. ~Live(i) => ~Live(i)'
      BY <1>1, <1>2, StatusGoesOn DEF GoesForward, Live
    <3> QED
      BY <1>2, <1>3, <1>4, <1>6, <2>3, <3>1, <3>2, <3>3 DEF AttemptKnows
  <2>4. CASE rec[r].result # "found"
    BY <1>2, <1>3, <1>4, <1>6, <2>1, <2>2, <2>4 DEF AttemptKnows
  <2> QED
    BY <2>3, <2>4
<1>7. CASE rec[r].pc # "decided"
  <2>1. rec[r].pc = "closed" /\ rec[r].closing /\ brokerTrade'[i].state = "open" => i \in rec[r].seen
    BY <1>1, <1>5 DEF AttemptKnows
  <2> QED
    BY <1>2, <1>3, <1>4, <1>7, <2>1 DEF AttemptKnows
<1> QED
  BY <1>6, <1>7

\* Every attempt but one stays as it is.
LEMMA AttemptsStep ==
  ASSUME Steady, NEW r \in Replicas, \A p \in Replicas : p # r => rec'[p] = rec[p],
         \A i \in Intents : rec'[r].pc # "idle" /\ rec'[r].intent = i => AttemptKnows(r, i)'
  PROVE  AttemptsKnow'
<1>1. ASSUME NEW p \in Replicas, NEW i \in Intents, rec'[p].pc # "idle", rec'[p].intent = i
      PROVE  AttemptKnows(p, i)'
  <2>1. CASE p = r
    BY <1>1, <2>1
  <2>2. CASE p # r
    <3>1. rec'[p] = rec[p] /\ rec[p].pc # "idle" /\ rec[p].intent = i
      BY <1>1, <2>2
    <3> QED
      BY <3>1, AttemptStays
  <2> QED
    BY <2>1, <2>2
<1>2. \A p \in Replicas : rec'[p].pc # "idle" => rec'[p].intent \in Intents
  BY DEF Steady, PInv, ShapeInv, AttemptRows
<1> QED
  BY <1>1, <1>2 DEF AttemptsKnow

\* The claim: the intent is reconciling, and its window's end says the broker has acted.
LEMMA ClaimKnows ==
  ASSUME Steady, NEW r \in Replicas, NEW i \in Intents, Claim(r, i)
  PROVE  AttemptKnows(r, i)'
<1>1. IInv /\ ShapeInv /\ RowStep /\ WindowIsOver /\ WorldStep
  BY DEF Steady, PInv, StepInv, OrderInv
<1>2. AttemptStarts(r, i)
  BY <1>1, ClaimIs
<1>3. intent[i].status = "reconciling"
  <2>1. ClaimReconciling(i)
    BY Zenon DEF Claim
  <2> QED
    BY <2>1 DEF ClaimReconciling
<1>4. intent'[i].status \notin {"absent", "queued"}
  BY <1>1, <1>3, StatusGoesOn DEF GoesForward
<1>5. rec'[r].closing => Over(i)'
  BY <1>1, <1>2, <1>3, OverStays DEF AttemptStarts, WindowIsOver
<1> QED
  BY <1>2, <1>4, <1>5 DEF AttemptStarts, AttemptKnows

\* The open list: a trade of the order that is open is of the intent's account.
LEMMA ReadOpenKnows ==
  ASSUME Steady, NEW r \in Replicas, NEW i \in Intents, rec[r].intent = i, ReadOpen(r)
  PROVE  AttemptKnows(r, i)'
<1>1. /\ ShapeInv /\ RowStep /\ WorldStep /\ OrderRows /\ AttemptKnows(r, i) /\ Intents \subseteq Trades
      /\ UNCHANGED <<brokerTrade, worker, order>>
  BY PipelineAssumption
  DEF Steady, PInv, OrderInv, AttemptsKnow, ReadOpen, brokerVars, PipelineAssumption
<1>2. AttemptGoes(r, "closed") /\ rec'[r].seen = ListOf(i, "open")
  BY <1>1, ReadOpenIs
<1>3. intent'[i].status \notin {"absent", "queued"}
  BY <1>1, StatusGoesOn DEF GoesForward, AttemptKnows
<1>4. rec'[r].closing => Over(i)'
  BY <1>1, <1>2, OverStays DEF AttemptKnows, AttemptGoes
<1>5. \A t \in rec'[r].seen : brokerTrade'[t].account = AccountOf[i]
  BY <1>1, <1>2 DEF ListOf
<1>6. brokerTrade'[i].state = "open" => i \in rec'[r].seen
  BY <1>1, <1>2 DEF ListOf, OrderRows
<1> QED
  BY <1>2, <1>3, <1>4, <1>5, <1>6 DEF AttemptGoes, AttemptKnows

\* A candidate of the decision is the trade of a live intent of the account: its order was
\* sent, so the intent was taken, it did not end rejected, and it is not linked yet.
LEMMA CandidateIsLive ==
  ASSUME NoHandTrades, PInv, OrderInv, NEW r \in Replicas, NEW i \in Intents, rec[r].intent = i,
         rec[r].pc = "closed", NEW seen \in SUBSET Both(r), NEW t \in SameTrade(i, seen)
  PROVE  t \in Intents /\ AccountOf[t] = AccountOf[i] /\ Live(t)
<1>1. /\ ShapeInv /\ SendInv /\ TradeFollowsStatus /\ TypeOK /\ OrderRows /\ AttemptKnows(r, i)
      /\ ReleasedOrderNeverOpens /\ LinkedToOwnTrade
  BY DEF PInv, StepInv, IInv, RowsInv, OrderInv, AttemptsKnow
<1>2. t \in Both(r) /\ t \in Intents /\ brokerTrade[t].state # "none"
  BY <1>1, BothAreTrades DEF SameTrade, NoHandTrades
<1>3. AccountOf[t] = AccountOf[i]
  <2>1. brokerTrade[t].account = AccountOf[i]
    BY <1>1, <1>2 DEF Both, ListOf, AttemptKnows
  <2> QED
    BY <1>1, <1>2, <2>1 DEF OrderRows
<1>4. trade[t].id # t
  BY <1>2, <1>3 DEF SameTrade
<1>5. trade[t].status = "none"
  BY <1>1, <1>2, <1>4 DEF LinkedToOwnTrade, TradeFollowsStatus
<1>6. intent[t].status \notin {"accepted", "settled"}
  BY <1>1, <1>2, <1>5 DEF TradeFollowsStatus
<1>7. intent[t].status \notin {"absent", "queued"}
  <2>1. order[t] = "opened"
    BY <1>1, <1>2 DEF ShapeInv, BrokerRows
  <2>2. sends[t] # 0
    BY <1>1, <1>2, <2>1 DEF ShapeInv, BrokerRows, NoOrder
  <2> QED
    BY <1>1, <1>2, <2>2 DEF SendInv, TakenOnce
<1>8. intent[t].status # "rejected"
  BY <1>1, <1>2 DEF ReleasedOrderNeverOpens
<1> QED
  BY <1>2, <1>3, <1>6, <1>7, <1>8 DEF Live, Terminal

\* So there is one candidate at most, and of a live intent it is its own order's trade.
LEMMA OneCandidate ==
  ASSUME NoHandTrades, PInv, OrderInv, NEW r \in Replicas, NEW i \in Intents, rec[r].intent = i,
         rec[r].pc = "closed", NEW seen \in SUBSET Both(r)
  PROVE  /\ ~(Cardinality(Exact(i, seen)) > 1)
         /\ \A t \in Exact(i, seen) : t = i \/ ~Live(i)
<1>1. \A t \in Exact(i, seen) : t \in Intents /\ AccountOf[t] = AccountOf[i] /\ Live(t)
  BY CandidateIsLive DEF Exact
<1>2. OneLive
  BY DEF OrderInv
<1>3. \A s, t \in Exact(i, seen) : s = t
  BY <1>1, <1>2 DEF OneLive
<1>4. CASE Exact(i, seen) = {}
  BY <1>4, FS_EmptySet
<1>5. CASE Exact(i, seen) # {}
  <2>1. PICK t : t \in Exact(i, seen)
    BY <1>5
  <2>2. Exact(i, seen) = {t}
    BY <1>3, <2>1
  <2>3. Cardinality({t}) = 1
    BY FS_Singleton
  <2> QED
    BY <1>1, <1>2, <2>2, <2>3 DEF OneLive
<1> QED
  BY <1>4, <1>5

\* No candidate in two whole lists: the order has no trade, or it is linked already.
LEMMA NoCandidate ==
  ASSUME PInv, OrderInv, NEW r \in Replicas, NEW i \in Intents, rec[r].intent = i,
         rec[r].pc = "closed", rec[r].closing, SameTrade(i, Both(r)) = {}
  PROVE  brokerTrade[i].state = "none" \/ trade[i] # NoLink
<1>1. /\ ShapeInv /\ OrderRows /\ AttemptKnows(r, i) /\ LinkedToOwnTrade
      /\ i \in Trades /\ NoTrade \notin Trades
  BY PipelineAssumption, StoreAssumption
  DEF PInv, OrderInv, AttemptsKnow, PipelineAssumption, StoreAssumption
<1> SUFFICES ASSUME brokerTrade[i].state # "none" PROVE trade[i] # NoLink
  OBVIOUS
<1>2. brokerTrade[i].state \in {"open", "closed"}
  BY <1>1 DEF ShapeInv, BrokerRows, TradeRow
<1>3. /\ brokerTrade[i].account = AccountOf[i]
      /\ brokerTrade[i].terms.mode = TermsOf[i].mode
      /\ brokerTrade[i].terms.side = TermsOf[i].side
  BY <1>1 DEF OrderRows
<1>4. i \in Both(r)
  BY <1>1, <1>2, <1>3 DEF Both, ListOf, AttemptKnows
<1>5. PICK j \in Intents : trade[j].id = i
  BY <1>3, <1>4 DEF SameTrade
<1>6. i = j
  BY <1>1, <1>5 DEF LinkedToOwnTrade
<1> QED
  BY <1>1, <1>5, <1>6 DEF NoLink

LEMMA DecideKnows ==
  ASSUME NoHandTrades, Steady, NEW r \in Replicas, NEW i \in Intents, rec[r].intent = i, Decide(r),
         rec'[r].pc # "idle"
  PROVE  AttemptKnows(r, i)'
<1>1. /\ PInv /\ OrderInv /\ ShapeInv /\ RowStep /\ WorldStep /\ AttemptKnows(r, i)
      /\ rec[r].pc = "closed"
  BY DEF Steady, PInv, OrderInv, AttemptsKnow, Decide
<1>2. UNCHANGED dbVars /\ UNCHANGED <<brokerTrade, order, worker>>
  BY <1>1, DecideIs DEF brokerVars
<1>3. PICK covered \in BOOLEAN, proof \in BOOLEAN, seen \in SUBSET Both(r) :
        /\ covered => seen = Both(r)
        /\ proof => covered
        /\ Decides(r, seen, covered, proof)
  BY <1>1, DecideIs
<1> DEFINE d == Decision(i, seen, rec[r].closing, covered, proof)
<1>4. /\ ~(Cardinality(Exact(i, seen)) > 1)
      /\ \A t \in Exact(i, seen) : t = i \/ ~Live(i)
  BY <1>1, OneCandidate
<1>5. /\ d \in {"ambiguous", "absent", "unresolved"} => rec[r].closing
      /\ d = "absent" => proof /\ SameTrade(i, seen) = {}
  BY <1>4 DEF Decision
<1>6. intent'[i].status \notin {"absent", "queued"}
  BY <1>1, StatusGoesOn DEF GoesForward, AttemptKnows
<1>7. rec[r].closing => Over(i)'
  BY <1>1, OverStays DEF AttemptKnows
<1> HIDE DEF d
<1>8. ASSUME d = "found", NEW t \in Exact(i, seen), Concludes(r, "found", t)
      PROVE  AttemptKnows(r, i)'
  <2>1. /\ rec'[r].closing = rec[r].closing /\ rec'[r].seen = {} /\ rec'[r].pc = "decided"
        /\ rec'[r].result = "found" /\ rec'[r].found = t
        /\ rec'[r].closed => brokerTrade[t].state = "closed"
    BY <1>8 DEF Concludes, AttemptGoes
  <2>2. brokerTrade[t].terms = TermsOf[i] /\ (t = i \/ ~Live(i))
    BY <1>4 DEF Exact
  <2>3. Live(i)' = Live(i)
    BY <1>2 DEF Live, dbVars
  <2> QED
    BY <1>2, <1>6, <1>7, <2>1, <2>2, <2>3 DEF AttemptKnows
<1>9. ASSUME d = "absent", Concludes(r, "not_found", NoTrade) PROVE AttemptKnows(r, i)'
  <2>1. brokerTrade[i].state = "none" \/ trade[i] # NoLink
    BY <1>1, <1>3, <1>5, <1>9, NoCandidate
  <2>2. /\ rec'[r].closing = rec[r].closing /\ rec'[r].seen = {} /\ rec'[r].pc = "decided"
        /\ rec'[r].result = "not_found" /\ rec[r].closing
    BY <1>5, <1>9 DEF Concludes, AttemptGoes
  <2>3. UNCHANGED trade
    BY <1>2 DEF dbVars
  <2> QED
    BY <1>2, <1>6, <1>7, <2>1, <2>2, <2>3 DEF AttemptKnows
<1>10. ASSUME d \in {"ambiguous", "unresolved"}, Concludes(r, d, NoTrade) PROVE AttemptKnows(r, i)'
  <2>1. /\ rec'[r].closing = rec[r].closing /\ rec'[r].seen = {} /\ rec'[r].pc = "decided"
        /\ rec'[r].result \in {"ambiguous", "unresolved"} /\ rec[r].closing
    BY <1>5, <1>10 DEF Concludes, AttemptGoes
  <2> QED
    BY <1>6, <1>7, <2>1 DEF AttemptKnows
<1>11. ~AttemptRests(r)
  BY RestingRow DEF AttemptRests
<1> QED
  BY <1>3, <1>8, <1>9, <1>10, <1>11 DEF Decides, d

LEMMA AttemptsSteps ==
  ASSUME NoHandTrades, Steady, [PipelineNext]_vars
  PROVE  AttemptsKnow'
<1>1. IInv /\ ShapeInv /\ SendInv /\ ShapeInv'
  BY DEF Steady, PInv, StepInv
<1>2. CASE UNCHANGED rec
  BY <1>1, <1>2, AttemptStays DEF AttemptsKnow, ShapeInv, AttemptRows
<1>3. ASSUME NEW r \in Replicas,
             Attempt(r) \/ ReplicaCrash(r) \/ \E i \in Intents : Claim(r, i)
      PROVE  AttemptsKnow'
  <2>1. CASE AttemptFails(r) \/ Persist(r) \/ ReplicaCrash(r)
    <3>1. AttemptRests(r)
      BY <1>1, <2>1, RestIs DEF AttemptFails, Persist, ReplicaCrash
    <3>2. rec'[r].pc = "idle" /\ \A p \in Replicas : p # r => rec'[p] = rec[p]
      BY <3>1, RestingRow DEF AttemptRests
    <3> QED
      BY <3>2, AttemptsStep
  <2>2. CASE ReadOpen(r)
    <3>1. AttemptGoes(r, "closed")
      BY <1>1, <2>2, ReadOpenIs
    <3>2. /\ \A p \in Replicas : p # r => rec'[p] = rec[p]
          /\ rec'[r].intent = rec[r].intent
      BY <3>1 DEF AttemptGoes
    <3>3. \A i \in Intents : rec'[r].pc # "idle" /\ rec'[r].intent = i => AttemptKnows(r, i)'
      BY <2>2, <3>2, ReadOpenKnows
    <3> QED
      BY <3>2, <3>3, AttemptsStep
  <2>3. CASE Decide(r)
    <3>1. \E covered, proof \in BOOLEAN, seen \in SUBSET Both(r) : Decides(r, seen, covered, proof)
      BY <1>1, <2>3, DecideIs
    <3>2. /\ \A p \in Replicas : p # r => rec'[p] = rec[p]
          /\ rec'[r].pc # "idle" => rec'[r].intent = rec[r].intent
      BY <3>1, RestingRow DEF Decides, Concludes, AttemptGoes, AttemptRests
    <3>3. \A i \in Intents : rec'[r].pc # "idle" /\ rec'[r].intent = i => AttemptKnows(r, i)'
      BY <2>3, <3>2, DecideKnows
    <3> QED
      BY <3>2, <3>3, AttemptsStep
  <2>4. ASSUME NEW j \in Intents, Claim(r, j) PROVE AttemptsKnow'
    <3>1. AttemptStarts(r, j)
      BY <1>1, <2>4, ClaimIs
    <3>2. /\ \A p \in Replicas : p # r => rec'[p] = rec[p]
          /\ rec'[r].intent = j
      BY <3>1 DEF AttemptStarts
    <3>3. \A i \in Intents : rec'[r].pc # "idle" /\ rec'[r].intent = i => AttemptKnows(r, i)'
      BY <2>4, <3>2, ClaimKnows
    <3> QED
      BY <3>2, <3>3, AttemptsStep
  <2> QED
    BY <1>3, <2>1, <2>2, <2>3, <2>4 DEF Attempt
<1>4. CASE StoreOnly \/ BrokerStep
  BY <1>1, <1>2, <1>4, StoreOnlySteps, BrokerSteps DEF passVars
<1>5. CASE \E q \in Topics, i \in Intents :
             \/ Publish(q, i) \/ PublishFails(q, i) \/ LandAdd(q, i) \/ PublisherCrash(q, i)
             \/ FindMissing(q, i) \/ Repend(q, i) \/ LoseJob(q, i) \/ StallJob(q, i)
  BY <1>1, <1>2, <1>5, QueueSteps DEF passVars
<1>6. ASSUME NEW w \in Workers, NEW q \in Topics, NEW i \in Intents, TakeJob(w, q, i)
      PROVE  AttemptsKnow'
  <2>1. UNCHANGED passVars
    BY <1>6, Zenon DEF TakeJob
  <2> QED
    BY <1>2, <2>1 DEF passVars
<1>7. ASSUME NEW w \in Workers, Slot(w) \/ FailJob(w) \/ WorkerCrash(w) PROVE AttemptsKnow'
  BY <1>1, <1>2, <1>7, SlotSteps DEF passVars
<1> QED
  BY <1>3, <1>4, <1>5, <1>6, <1>7, StepsOf

-----------------------------------------------------------------------------
(* The order and its intent                                                 *)

LEMMA InitOrderInv == PipelineInit => OrderInv
<1> SUFFICES ASSUME PipelineInit PROVE OrderInv
  OBVIOUS
<1>1. \A i \in Intents :
        /\ intent[i].status = "absent" /\ elapsed[i] = {} /\ trade[i] = NoLink
        /\ order[i] = NoOrder /\ brokerTrade[i] = NotTraded
  BY PipelineAssumption DEF PipelineInit, StoreInit, PipelineAssumption
<1>2. /\ \A w \in Workers : worker[w].pc = "idle"
      /\ \A r \in Replicas : rec[r].pc = "idle"
  BY IdleRow, RestingRow DEF PipelineInit
<1>3. \A i \in Intents : Over(i) /\ ~Live(i)
  BY <1>1, <1>2 DEF Over, Poised, Live, NoOrder
<1>4. OrderRows /\ RefusedSlots /\ AttemptsKnow
  BY <1>1, <1>2 DEF OrderRows, RefusedSlots, AttemptsKnow, NotTraded
<1>5. OneLive /\ WindowIsOver
  BY <1>1, <1>3 DEF OneLive, WindowIsOver
<1>6. ReleasedOrderNeverOpens /\ LinkedToOwnTrade
  BY <1>1 DEF ReleasedOrderNeverOpens, LinkedToOwnTrade, NoLink
<1> QED
  BY <1>4, <1>5, <1>6 DEF OrderInv

LEMMA OrderInvStep ==
  ASSUME NoHandTrades, PInv, OrderInv, [PipelineNext]_vars
  PROVE  OrderInv'
<1>1. PInv'
  BY PInvStep
<1>2. [StoreNext]_dbVars
  BY PipelineStore DEF PInv, StepInv, StoreStep
<1>3. RowStep
  BY <1>2, RowsStep DEF PInv
<1>4. WorldStep /\ StoreSafe
  BY WorldSteps, SafeSteps
<1>5. Steady
  BY <1>1, <1>3, <1>4 DEF Steady
<1>6. OrderRows' /\ OneLive' /\ WindowIsOver' /\ ReleasedOrderNeverOpens' /\ LinkedToOwnTrade'
  BY <1>5, OrderRowsStep, OneLiveStep, WindowStep, ReleasedStep, LinkedStep
<1>7. RefusedSlots' /\ AttemptsKnow'
  BY <1>5, RefusedSteps, AttemptsSteps
<1> QED
  BY <1>6, <1>7 DEF OrderInv

\* While every trade of the account is an order's (NoHandTrades), the broker's side of every
\* order agrees with its intent: what a refusing slot, a status and an attempt of the
\* reconciliation pass (rest-reconciler.ts) take for granted of an order is so.
THEOREM OrdersAreAccountedFor == NoHandTrades => (PipelineSpec => []OrderInv)
<1> SUFFICES ASSUME NoHandTrades PROVE PipelineSpec => []OrderInv
  OBVIOUS
<1>1. PipelineInit => OrderInv
  BY InitOrderInv
<1>2. PInv /\ OrderInv /\ [PipelineNext]_vars => OrderInv'
  BY OrderInvStep
<1> QED
  BY <1>1, <1>2, PipelineInvariant, PTL DEF PipelineSpec

\* A token that was given back is never followed by a trade: an intent a slot, the pass or
\* an operator rejected has no trade at the broker and none can open any more.
THEOREM ReleasedOrdersNeverOpen == NoHandTrades => (PipelineSpec => []ReleasedOrderNeverOpens)
<1> SUFFICES ASSUME NoHandTrades PROVE PipelineSpec => []ReleasedOrderNeverOpens
  OBVIOUS
<1>1. OrderInv => ReleasedOrderNeverOpens
  BY DEF OrderInv
<1>2. PipelineSpec => []OrderInv
  BY OrdersAreAccountedFor
<1> QED
  BY <1>1, <1>2, PTL

\* The reconciliation pass links an intent to the trade of its own order (createRestReconciler,
\* rest-reconciler.ts), and an intent is settled once the broker closed that trade.
THEOREM IntentsLinkToOwnTrades == NoHandTrades => (PipelineSpec => []LinkedToOwnTrade)
<1> SUFFICES ASSUME NoHandTrades PROVE PipelineSpec => []LinkedToOwnTrade
  OBVIOUS
<1>1. OrderInv => LinkedToOwnTrade
  BY DEF OrderInv
<1>2. PipelineSpec => []OrderInv
  BY OrdersAreAccountedFor
<1> QED
  BY <1>1, <1>2, PTL

=============================================================================
