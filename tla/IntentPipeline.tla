--------------------------- MODULE IntentPipeline ---------------------------
(***************************************************************************)
(* The life of an order: IntentStore's transactions composed with the       *)
(* processes that run them.                                                *)
(*                                                                         *)
(*   outbox publisher (backend)  - outbox rows -> BullMQ jobs, may time out  *)
(*   BullMQ (external)           - redelivers a stalled job, may lose one    *)
(*   worker slots                - one job each: read, take, send, record    *)
(*   sweeper                     - submitting for too long -> unknown        *)
(*   reconciliation pass         - one attempt per replica, by lease         *)
(*   broker (external)           - opens or refuses the order, closes trades *)
(*   operator (external)         - concludes manual_review                   *)
(*                                                                         *)
(* Every step between two awaits is an action of its own, so a worker may    *)
(* act on a row, a version or a broker page that is no longer current.       *)
(*                                                                         *)
(* The broker's trade for the order of intent i is named i: Trades contains  *)
(* Intents, and the rest of Trades are trades the user opens by hand.        *)
(***************************************************************************)
EXTENDS IntentStore

CONSTANTS
  Workers,          \* job slots of all worker processes (concurrency > 1 is more slots)
  Replicas,         \* processes that run the reconciliation pass
  NoWorker, NoIntent,
  MaxStalledCount,  \* redeliveries of a stalled job before BullMQ drops it
  MaxFaults         \* bound: crashes, lost jobs, late adds, lapsed locks of a live worker

VARIABLES
  job,          \* BullMQ jobs by topic and id (the id is the intent's)
  addInFlight,  \* add commands whose publisher stopped waiting for them
  missing,      \* rows the publisher's sweep saw without a job
  worker,       \* what each slot is doing and what it remembers
  order,        \* the broker's side of an order
  sends,        \* how many times the order of an intent was emitted
  brokerTrade,  \* the broker's trades
  rec,          \* the attempt each replica is in
  absent,       \* absentSince: absence proved once, by replica
  faults        \* faults so far

queueVars  == <<job, addInFlight, missing>>
brokerVars == <<order, sends, brokerTrade>>
passVars   == <<rec, absent>>
vars == <<dbVars, queueVars, worker, brokerVars, passVars, faults>>

ASSUME PipelineAssumption ==
  /\ Intents \subseteq Trades
  /\ NoWorker \notin Workers
  /\ NoIntent \notin Intents
  /\ MaxStalledCount \in Nat
  /\ MaxFaults \in Nat

-----------------------------------------------------------------------------
NoJob    == [state |-> "none", owner |-> NoWorker, stalls |-> 0]
Idle     == [pc |-> "idle", topic |-> "none", intent |-> NoIntent, version |-> 0,
             result |-> "none"]
NoOrder  == "none"
NotTraded == [state |-> "none", account |-> "none", terms |-> "none"]
Resting  == [pc |-> "idle", intent |-> NoIntent, version |-> 0, closing |-> FALSE,
             seen |-> {}, result |-> "none", found |-> NoTrade, closed |-> FALSE]

PipelineInit ==
  /\ StoreInit
  /\ job = [q \in Topics |-> [i \in Intents |-> NoJob]]
  /\ addInFlight = {}
  /\ missing = {}
  /\ worker = [w \in Workers |-> Idle]
  /\ order = [i \in Intents |-> NoOrder]
  /\ sends = [i \in Intents |-> 0]
  /\ brokerTrade = [t \in Trades |-> NotTraded]
  /\ rec = [r \in Replicas |-> Resting]
  /\ absent = [r \in Replicas |-> {}]
  /\ faults = 0

Fault == faults < MaxFaults /\ faults' = faults + 1

-----------------------------------------------------------------------------
(* The publisher and the queue                                              *)

\* jobs.add: the job id dedupes while a job of the id exists.
Added(q, i) ==
  IF job[q][i].state = "none" THEN [job EXCEPT ![q][i].state = "waiting"] ELSE job

\* publishOne, answered in time: the add and the commit of markPublished.
Publish(q, i) ==
  /\ MarkPublished(q, i)
  /\ job' = Added(q, i)
  /\ UNCHANGED <<addInFlight, missing, worker, brokerVars, passVars, faults>>

\* publishOne, the add refused or past its deadline: a failed delivery, and a
\* timed out command may still reach Redis.
PublishFails(q, i) ==
  /\ RecordDeliveryFailure(q, i, "pending")
  /\ \/ UNCHANGED <<addInFlight, faults>>
     \/ Fault /\ addInFlight' = addInFlight \cup {<<q, i>>}
  /\ UNCHANGED <<job, missing, worker, brokerVars, passVars>>

LandAdd(q, i) ==
  /\ <<q, i>> \in addInFlight
  /\ addInFlight' = addInFlight \ {<<q, i>>}
  /\ job' = Added(q, i)
  /\ UNCHANGED <<dbVars, missing, worker, brokerVars, passVars, faults>>

\* The publisher dies between the add and its commit: the row stays pending.
PublisherCrash(q, i) ==
  /\ outbox[q][i].status = "pending"
  /\ Fault
  /\ job' = Added(q, i)
  /\ UNCHANGED <<dbVars, addInFlight, missing, worker, brokerVars, passVars>>

\* Mutant: the sweep of published rows knows one status for both topics.
StaleTarget_QueuedOnly(q) == "queued"

\* STALE_TARGETS: the status that says the topic's job has not been consumed.
StaleTarget(q) == IF q = "trading-intents" THEN "queued" ELSE "unknown"

\* sweep: listStalePublished, then has() answers no.
FindMissing(q, i) ==
  /\ outbox[q][i].status = "published"
  /\ intent[i].status = StaleTarget(q)
  /\ job[q][i].state = "none"
  /\ missing' = missing \cup {<<q, i>>}
  /\ UNCHANGED <<dbVars, job, addInFlight, worker, brokerVars, passVars, faults>>

\* sweep, later: the row is claimed if it is still published; a lost job counts as
\* a failed delivery.
Repend(q, i) ==
  /\ <<q, i>> \in missing
  /\ missing' = missing \ {<<q, i>>}
  /\ IF outbox[q][i].status = "published"
     THEN RecordDeliveryFailure(q, i, "published")
     ELSE UNCHANGED dbVars
  /\ UNCHANGED <<job, addInFlight, worker, brokerVars, passVars, faults>>

\* Redis loses a job nobody holds.
LoseJob(q, i) ==
  /\ job[q][i].state = "waiting"
  /\ Fault
  /\ job' = [job EXCEPT ![q][i] = NoJob]
  /\ UNCHANGED <<dbVars, addInFlight, missing, worker, brokerVars, passVars>>

\* A job whose lock was not renewed: redelivered maxStalledCount times, then
\* failed and removed.  The lock of a live worker lapses too (a stalled process).
StallJob(q, i) ==
  LET j == job[q][i]
      Held == worker[j.owner].topic = q /\ worker[j.owner].intent = i
  IN  /\ j.state = "active"
      /\ IF Held THEN Fault ELSE UNCHANGED faults
      /\ job' = [job EXCEPT ![q][i] =
                   IF j.stalls < MaxStalledCount
                   THEN [state |-> "waiting", owner |-> NoWorker, stalls |-> j.stalls + 1]
                   ELSE NoJob]
      /\ UNCHANGED <<dbVars, addInFlight, missing, worker, brokerVars, passVars>>

-----------------------------------------------------------------------------
(* The worker: processIntentJob and processReconciliationJob                *)

Go(w, pc) == worker' = [worker EXCEPT ![w].pc = pc]
Done(w)   == worker' = [worker EXCEPT ![w].pc = "done", ![w].version = 0, ![w].result = "none"]

\* A slot takes a job and reads the intent; every other status is a no-op.
TakeJob(w, q, i) ==
  /\ worker[w] = Idle
  /\ job[q][i].state = "waiting"
  /\ job' = [job EXCEPT ![q][i].state = "active", ![q][i].owner = w]
  /\ LET status == intent[i].status
         pc == CASE q = "trading-intents" /\ status \in {"queued", "submitting"} -> status
                 [] q = "trading-reconciliation" /\ status = "unknown" -> status
                 [] OTHER -> "done"
     IN  worker' = [worker EXCEPT ![w] = [pc |-> pc, topic |-> q, intent |-> i,
                                          version |-> intent[i].version, result |-> "none"]]
  /\ UNCHANGED <<dbVars, addInFlight, missing, brokerVars, passVars, faults>>

\* Mutant: no fence before the take.
HandleQueued_NoFence(w) ==
  LET i == worker[w].intent
      v == worker[w].version
  IN  /\ worker[w].pc = "queued"
      /\ IF MayTake(i, v)
         THEN /\ TakeIntent(i, v)
              /\ worker' = [worker EXCEPT ![w].pc = "taken", ![w].version = v + 1]
         ELSE UNCHANGED dbVars /\ Go(w, "expire")
      /\ UNCHANGED <<queueVars, brokerVars, passVars, faults>>

\* handleQueued: the fence of a demo-only process, else the take.
HandleQueued(w) ==
  LET i == worker[w].intent
      v == worker[w].version
  IN  /\ worker[w].pc = "queued"
      /\ IF WorkerDemoOnly /\ ModeOf(i) = "real"
         THEN /\ IF At(i, "queued", v)
                 THEN RejectIntent(i, "queued", v, "demo_only")
                 ELSE UNCHANGED dbVars
              /\ Done(w)
         ELSE IF MayTake(i, v)
              THEN /\ TakeIntent(i, v)
                   /\ worker' = [worker EXCEPT ![w].pc = "taken", ![w].version = v + 1]
              ELSE UNCHANGED dbVars /\ Go(w, "expire")
      /\ UNCHANGED <<queueVars, brokerVars, passVars, faults>>

\* The refused take: three transactions in turn, each judging its own predicate.
HandleRefused(w) ==
  LET i == worker[w].intent
      v == worker[w].version
      Current == At(i, "queued", v)
  IN  /\ \/ /\ worker[w].pc = "expire"
            /\ IF Current /\ "maxAge" \in elapsed[i]
               THEN RejectExpiredIntent(i, v) /\ Done(w)
               ELSE UNCHANGED dbVars /\ Go(w, "late")
         \/ /\ worker[w].pc = "late"
            /\ IF Current /\ "deadline" \in elapsed[i]
               THEN RejectLateIntent(i, v) /\ Done(w)
               ELSE UNCHANGED dbVars /\ Go(w, "paused")
         \/ /\ worker[w].pc = "paused"
            /\ IF Current THEN RejectPausedIntent(i, v) ELSE UNCHANGED dbVars
            /\ Done(w)
      /\ UNCHANGED <<queueVars, brokerVars, passVars, faults>>

\* Mutant: a redelivered job of a submitting intent sends the order again.
HandleSubmitting_Resends(w) ==
  /\ worker[w].pc = "submitting"
  /\ Go(w, "taken")
  /\ UNCHANGED <<dbVars, queueVars, brokerVars, passVars, faults>>

\* handleSubmitting: a redelivered job whose first worker may be gone.
HandleSubmitting(w) ==
  LET i == worker[w].intent
  IN  /\ worker[w].pc = "submitting"
      /\ IF At(i, "submitting", AnyVersion) /\ "staleSubmitting" \in elapsed[i]
         THEN MarkIntentUnknown(i, AnyVersion, "stale_submitting", TRUE)
         ELSE UNCHANGED dbVars
      /\ Done(w)
      /\ UNCHANGED <<queueVars, brokerVars, passVars, faults>>

\* The executor, before anything is emitted: the token is refused, or the attempt
\* is aborted or throws, and the outcome is unknown although nothing was sent.
NotSent(w) ==
  /\ worker[w].pc = "taken"
  /\ \E result \in {"rejected", "unknown"} :
       worker' = [worker EXCEPT ![w].pc = "answered", ![w].result = result]
  /\ UNCHANGED <<dbVars, queueVars, brokerVars, passVars, faults>>

\* The one emit, over the socket or over REST.
Send(w) ==
  LET i == worker[w].intent
  IN  /\ worker[w].pc = "taken"
      /\ order' = [order EXCEPT ![i] = "inFlight"]
      /\ sends' = [sends EXCEPT ![i] = @ + 1]
      /\ Go(w, "sent")
      /\ UNCHANGED <<dbVars, queueVars, brokerTrade, passVars, faults>>

\* The answer, or its absence: a lost socket, a 5xx, the deadline of
\* submitWithDeadline.
Answer(w) ==
  LET i == worker[w].intent
  IN  /\ worker[w].pc = "sent"
      /\ \E result \in {"accepted", "rejected", "unknown"} :
           /\ result = "accepted" => order[i] = "opened"
           /\ result = "rejected" => order[i] = "refused"
           /\ worker' = [worker EXCEPT ![w].pc = "answered", ![w].result = result]
      /\ UNCHANGED <<dbVars, queueVars, brokerVars, passVars, faults>>

\* persistOutcome: one CAS at the version of the take; a lost one drops the answer.
\* A trade that is not the expected one rolls the acceptance back (a stutter, and a
\* mismatch stays one) and a fresh transaction marks the intent unknown.
PersistOutcome(w) ==
  LET i == worker[w].intent
      v == worker[w].version
      terms == brokerTrade[i].terms
      Current == At(i, "submitting", v)
      Outcome == CASE worker[w].result = "accepted" ->
                        IF Mismatch(i, i, terms)
                        THEN MarkIntentUnknown(i, v, "trade_mismatch", FALSE)
                        ELSE MarkIntentAccepted(i, v, "submitting", i, terms)
                   [] worker[w].result = "rejected" ->
                        RejectIntent(i, "submitting", v, "broker_rejected")
                   [] worker[w].result = "unknown" ->
                        MarkIntentUnknown(i, v, "broker_unavailable", FALSE)
  IN  /\ worker[w].pc = "answered"
      /\ IF Current THEN Outcome ELSE UNCHANGED dbVars
      /\ Done(w)
      /\ UNCHANGED <<queueVars, brokerVars, passVars, faults>>

\* processReconciliationJob
HandleUnknown(w) ==
  LET i == worker[w].intent
      v == worker[w].version
  IN  /\ worker[w].pc = "unknown"
      /\ IF At(i, "unknown", v) THEN StartReconciling(i, v) ELSE UNCHANGED dbVars
      /\ Done(w)
      /\ UNCHANGED <<queueVars, brokerVars, passVars, faults>>

\* The job ends; a slot whose lock lapsed no longer owns it.
Ended(w) ==
  LET q == worker[w].topic
      i == worker[w].intent
  IN  IF job[q][i].state = "active" /\ job[q][i].owner = w
      THEN [job EXCEPT ![q][i] = NoJob] ELSE job

Finish(w) ==
  /\ worker[w].pc = "done"
  /\ job' = Ended(w)
  /\ worker' = [worker EXCEPT ![w] = Idle]
  /\ UNCHANGED <<dbVars, addInFlight, missing, brokerVars, passVars, faults>>

\* The database refuses a statement: the job fails and is dead-lettered, whatever
\* the executor has already done.
FailJob(w) ==
  /\ worker[w].pc \notin {"idle", "done"}
  /\ Fault
  /\ job' = Ended(w)
  /\ worker' = [worker EXCEPT ![w] = Idle]
  /\ UNCHANGED <<dbVars, addInFlight, missing, brokerVars, passVars>>

\* The process dies: its job stays active until BullMQ finds it stalled.
WorkerCrash(w) ==
  /\ worker[w].pc # "idle"
  /\ Fault
  /\ worker' = [worker EXCEPT ![w] = Idle]
  /\ UNCHANGED <<dbVars, queueVars, brokerVars, passVars>>

\* Mutant: the sweep does not wait for the stale threshold.
Sweep_Unaged(i) ==
  /\ MarkIntentUnknown(i, AnyVersion, "stale_submitting", FALSE)
  /\ UNCHANGED <<queueVars, worker, brokerVars, passVars, faults>>

\* sweepStaleSubmitting
Sweep(i) ==
  /\ MarkIntentUnknown(i, AnyVersion, "stale_submitting", TRUE)
  /\ UNCHANGED <<queueVars, worker, brokerVars, passVars, faults>>

-----------------------------------------------------------------------------
(* The broker                                                               *)

\* The order opens a trade.  The broker keeps the mode, the asset and the direction
\* and may change the amount (the one key a near match allows for).
OpenOrder(i) ==
  /\ order[i] = "inFlight"
  /\ order' = [order EXCEPT ![i] = "opened"]
  /\ \E terms \in Terms :
       /\ terms.mode = TermsOf[i].mode
       /\ terms.side = TermsOf[i].side
       /\ brokerTrade' = [brokerTrade EXCEPT ![i] =
                            [state |-> "open", account |-> AccountOf[i], terms |-> terms]]
  /\ UNCHANGED <<dbVars, queueVars, worker, sends, passVars, faults>>

\* The order is refused, or never reaches the broker.
RefuseOrder(i) ==
  /\ order[i] = "inFlight"
  /\ order' = [order EXCEPT ![i] = "refused"]
  /\ UNCHANGED <<dbVars, queueVars, worker, sends, brokerTrade, passVars, faults>>

CloseTrade(t) ==
  /\ brokerTrade[t].state = "open"
  /\ brokerTrade' = [brokerTrade EXCEPT ![t].state = "closed"]
  /\ UNCHANGED <<dbVars, queueVars, worker, order, sends, passVars, faults>>

\* The user opens a trade by hand on the broker's own platform.
PlatformTrade(t, a, terms) ==
  /\ t \notin Intents
  /\ brokerTrade[t] = NotTraded
  /\ brokerTrade' = [brokerTrade EXCEPT ![t] =
                       [state |-> "open", account |-> a, terms |-> terms]]
  /\ UNCHANGED <<dbVars, queueVars, worker, order, sends, passVars, faults>>

-----------------------------------------------------------------------------
(* The reconciliation pass                                                  *)

\* The first write of an attempt, before the broker is asked.  closing is the
\* attempt's claimedAt >= windowEnd.
Claim(r, i) ==
  /\ rec[r] = Resting
  /\ ClaimReconciling(i)
  /\ rec' = [rec EXCEPT ![r] = [Resting EXCEPT !.pc = "open", !.intent = i,
                                  !.version = intent[i].version + 1,
                                  !.closing = "window" \in elapsed[i]]]
  /\ UNCHANGED <<queueVars, worker, brokerVars, absent, faults>>

ListOf(i, state) ==
  {t \in Trades : brokerTrade[t].state = state /\ brokerTrade[t].account = AccountOf[i]}

\* listTrades(open); the closed list is a later request.
ReadOpen(r) ==
  /\ rec[r].pc = "open"
  /\ rec' = [rec EXCEPT ![r].pc = "closed", ![r].seen = ListOf(rec[r].intent, "open")]
  /\ UNCHANGED <<dbVars, queueVars, worker, brokerVars, absent, faults>>

\* decide, over the trades the two lists showed.  covered: the pages reached past
\* the window; proof: both were first pages, so what they lack is absent.
SameTrade(i, seen) ==
  {t \in seen : /\ brokerTrade[t].terms.mode = TermsOf[i].mode
                /\ brokerTrade[t].terms.side = TermsOf[i].side
                /\ ~\E j \in Intents : AccountOf[j] = AccountOf[i] /\ trade[j].id = t}

Exact(i, seen) == {t \in SameTrade(i, seen) : brokerTrade[t].terms = TermsOf[i]}

\* Mutant: the end of the window is not awaited.
Decision_Early(i, seen, closing, covered, proof) ==
  LET exact == Exact(i, seen)
  IN  IF Cardinality(exact) > 1 THEN "ambiguous"
      ELSE IF exact # {} /\ covered THEN "found"
      ELSE IF SameTrade(i, seen) # {} THEN "ambiguous"
      ELSE IF ModeOf(i) = "demo" /\ proof THEN "absent" ELSE "unresolved"

\* An answer or "unavailable"; ABSENT is one proof of absence.
Decision(i, seen, closing, covered, proof) ==
  LET exact == Exact(i, seen)
  IN  IF Cardinality(exact) > 1 THEN "ambiguous"
      ELSE IF exact # {} /\ covered THEN "found"
      ELSE IF ~closing THEN "unavailable"
      ELSE IF SameTrade(i, seen) # {} THEN "ambiguous"
      ELSE IF intent[i].error = "trade_mismatch" THEN "ambiguous"
      ELSE IF ModeOf(i) = "demo" /\ proof THEN "absent" ELSE "unresolved"

Rest(r) == rec' = [rec EXCEPT ![r] = Resting]

Conclude(r, result, t) ==
  rec' = [rec EXCEPT ![r].pc = "decided", ![r].result = result, ![r].found = t,
                     ![r].closed = (t # NoTrade /\ brokerTrade[t].state = "closed"),
                     ![r].seen = {}]

\* The closed list, the decision and confirmAbsence: absence is concluded by the
\* second of two consecutive attempts of this process that prove it.
Decide(r) ==
  LET i    == rec[r].intent
      both == rec[r].seen \cup ListOf(i, "closed")
  IN  /\ rec[r].pc = "closed"
      /\ \E covered, proof \in BOOLEAN, seen \in SUBSET both :
           /\ covered => seen = both
           /\ proof => covered
           /\ LET d == Decision(i, seen, rec[r].closing, covered, proof)
              IN  CASE d = "unavailable" ->
                         Rest(r) /\ absent' = [absent EXCEPT ![r] = @ \ {i}]
                    [] d = "absent" /\ i \notin absent[r] ->
                         Rest(r) /\ absent' = [absent EXCEPT ![r] = @ \cup {i}]
                    [] d = "absent" /\ i \in absent[r] ->
                         /\ Conclude(r, "not_found", NoTrade)
                         /\ absent' = [absent EXCEPT ![r] = @ \ {i}]
                    [] d = "found" ->
                         /\ \E t \in Exact(i, seen) : Conclude(r, "found", t)
                         /\ absent' = [absent EXCEPT ![r] = @ \ {i}]
                    [] OTHER ->
                         /\ Conclude(r, d, NoTrade)
                         /\ absent' = [absent EXCEPT ![r] = @ \ {i}]
      /\ UNCHANGED <<dbVars, queueVars, worker, brokerVars, faults>>

\* The broker or the backend refuses a request, which drops a proof of absence; or
\* the attempt's deadline passes, which touches none.
AttemptFails(r) ==
  /\ rec[r].pc \in {"open", "closed"}
  /\ absent' \in {absent, [absent EXCEPT ![r] = @ \ {rec[r].intent}]}
  /\ Rest(r)
  /\ UNCHANGED <<dbVars, queueVars, worker, brokerVars, faults>>

\* persist: one CAS at the version of the claim.  A found trade that was linked
\* meanwhile is a human's: the conclusion rolls back and the account is halted.
Persist(r) ==
  LET i == rec[r].intent
      v == rec[r].version
      t == rec[r].found
      terms == brokerTrade[t].terms
      result == rec[r].result
      Current == At(i, "reconciling", v)
      Found == IF Mismatch(i, t, terms)
               THEN HaltAccountForManualReview(i, v, "trade_mismatch")
               ELSE IF rec[r].closed THEN ConcludeClosed(i, v, t, terms)
                                     ELSE ConcludeOpen(i, v, t, terms)
      Outcome == CASE result = "found"      -> Found
                   [] result = "not_found"  ->
                        RejectIntent(i, "reconciling", v, "reconciliation_not_found")
                   [] result = "ambiguous"  ->
                        HaltAccountForManualReview(i, v, "reconciliation_ambiguous")
                   [] result = "unresolved" ->
                        HaltAccountForManualReview(i, v, "reconciliation_not_found")
  IN  /\ rec[r].pc = "decided"
      /\ IF Current THEN Outcome ELSE UNCHANGED dbVars
      /\ Rest(r)
      /\ UNCHANGED <<queueVars, worker, brokerVars, absent, faults>>

\* The process dies, and its memory of proved absences with it.
ReplicaCrash(r) ==
  /\ rec[r] # Resting \/ absent[r] # {}
  /\ Fault
  /\ Rest(r)
  /\ absent' = [absent EXCEPT ![r] = {}]
  /\ UNCHANGED <<dbVars, queueVars, worker, brokerVars>>

-----------------------------------------------------------------------------
(* Settlement and the operator                                              *)

\* settleClosedTrade: a close_trade.success of the socket or a closed snapshot of
\* the catch-up; found by (account, broker trade id), settled only from accepted.
SettleClosedTrade(i) ==
  LET t == trade[i].id
  IN  /\ trade[i].status = "open"
      /\ brokerTrade[t].state = "closed"
      /\ SettleIntent(i, AnyVersion, "accepted", t, brokerTrade[t].terms)
      /\ UNCHANGED <<queueVars, worker, brokerVars, passVars, faults>>

\* The operator concludes manual_review by what the broker shows: a closed trade of
\* the order, or an order that is known not to have opened.
OperatorSettles(i) ==
  /\ brokerTrade[i].state = "closed"
  /\ SettleIntent(i, AnyVersion, "manual_review", i, brokerTrade[i].terms)
  /\ UNCHANGED <<queueVars, worker, brokerVars, passVars, faults>>

OperatorReleases(i) ==
  /\ brokerTrade[i].state = "none"
  /\ order[i] # "inFlight"
  /\ RejectIntent(i, "manual_review", AnyVersion, "broker_rejected")
  /\ UNCHANGED <<queueVars, worker, brokerVars, passVars, faults>>

-----------------------------------------------------------------------------
\* The reconciliation window closes 90 s after submitted_at: by then a slot that took
\* the intent has emitted the order or gone, and the broker has acted on it.
WindowOver(i) ==
  /\ order[i] # "inFlight"
  /\ \A w \in Workers : worker[w].intent = i => worker[w].pc # "taken"

Pass(i, timer) ==
  /\ timer = "window" => WindowOver(i)
  /\ Elapse(i, timer)
  /\ UNCHANGED <<queueVars, worker, brokerVars, passVars, faults>>

\* The API, the sessions, the operator and the other writers of the tables.
Api ==
  /\ (\E i \in Intents : Creation(i)) \/ Edit
  /\ UNCHANGED <<queueVars, worker, brokerVars, passVars, faults>>

Slot(w) ==
  \/ HandleQueued(w) \/ HandleRefused(w) \/ HandleSubmitting(w)
  \/ NotSent(w) \/ Send(w) \/ Answer(w)
  \/ PersistOutcome(w) \/ HandleUnknown(w) \/ Finish(w)

Attempt(r) == ReadOpen(r) \/ Decide(r) \/ AttemptFails(r) \/ Persist(r)

Broker(i) == OpenOrder(i) \/ RefuseOrder(i)

PipelineNext ==
  \/ Api
  \/ \E q \in Topics, i \in Intents :
        \/ Publish(q, i) \/ PublishFails(q, i) \/ LandAdd(q, i) \/ PublisherCrash(q, i)
        \/ FindMissing(q, i) \/ Repend(q, i) \/ LoseJob(q, i) \/ StallJob(q, i)
        \/ \E w \in Workers : TakeJob(w, q, i)
  \/ \E w \in Workers : Slot(w) \/ FailJob(w) \/ WorkerCrash(w)
  \/ \E r \in Replicas : Attempt(r) \/ ReplicaCrash(r) \/ \E i \in Intents : Claim(r, i)
  \/ \E i \in Intents :
        \/ Sweep(i) \/ Broker(i) \/ SettleClosedTrade(i)
        \/ OperatorSettles(i) \/ OperatorReleases(i)
        \/ \E timer \in Timers : Pass(i, timer)
  \/ \E t \in Trades : \/ CloseTrade(t)
                       \/ \E a \in Accounts, terms \in Terms : PlatformTrade(t, a, terms)

PipelineSpec == PipelineInit /\ [][PipelineNext]_vars

\* What the processes do again and again.  Redis is up in the end: a pending row is
\* published.  A stale submission is swept, a stalled job is found, a process that
\* holds a job steps on, and the broker acts on an order.
Fairness ==
  /\ \A q \in Topics, i \in Intents :
       /\ WF_vars(Publish(q, i))
       /\ WF_vars(FindMissing(q, i)) /\ WF_vars(Repend(q, i))
       /\ WF_vars(StallJob(q, i))
       /\ WF_vars(\E w \in Workers : TakeJob(w, q, i))
  /\ \A w \in Workers : WF_vars(Slot(w))
  /\ \A i \in Intents : WF_vars(Sweep(i)) /\ WF_vars(Pass(i, "staleSubmitting"))
                        /\ WF_vars(Broker(i))

LivePipelineSpec == PipelineSpec /\ Fairness

-----------------------------------------------------------------------------
(* Properties                                                               *)

PipelineTypeOK ==
  /\ job \in [Topics -> [Intents -> [state : {"none", "waiting", "active"},
                                     owner : Workers \cup {NoWorker},
                                     stalls : 0..MaxStalledCount]]]
  /\ addInFlight \subseteq Topics \X Intents
  /\ missing \subseteq Topics \X Intents
  /\ \A w \in Workers :
       /\ worker[w].pc \in {"idle", "queued", "submitting", "expire", "late", "paused", "taken",
                            "sent", "answered", "unknown", "done"}
       /\ worker[w].intent = NoIntent <=> worker[w].pc = "idle"
  /\ order \in [Intents -> {NoOrder, "inFlight", "opened", "refused"}]
  /\ sends \in [Intents -> Nat]
  /\ \A t \in Trades : brokerTrade[t].state \in {"none", "open", "closed"}
  /\ \A r \in Replicas :
       /\ rec[r].pc \in {"idle", "open", "closed", "decided"}
       /\ absent[r] \subseteq Intents
  /\ faults \in 0..MaxFaults

\* The broker command is never sent twice (trade-intent-transport.md), whatever is
\* redelivered, re-published or lost, and never for an intent that was not taken.
SentAtMostOnce ==
  \A i \in Intents :
    /\ sends[i] <= 1
    /\ sends[i] = 1 => intent[i].status \notin {"absent", "queued"}

Poised(i) == \E w \in Workers : worker[w].intent = i /\ worker[w].pc = "taken"

\* A refusal before submitting is plain: nothing was sent, nothing will be (Rule 15).
PlainRefusalSentNothing ==
  \A i \in Intents :
    intent[i].error \in {"demo_only", "expired", "entry_window_missed", "trading_paused",
                         "publish_failed"} =>
      sends[i] = 0 /\ ~Poised(i)

\* What is sent is sent once and only for an intent that was taken, and what was refused plainly
\* was not sent (processor.ts:179).
SendsAreSafe == PipelineTypeOK /\ SentAtMostOnce /\ PlainRefusalSentNothing

\* A worker that runs DEMO_ONLY never sends a real order, even of an intent queued by
\* a backend that does not, and its refusal gives the token back.
DemoOnlySendsNoReal ==
  WorkerDemoOnly => \A i \in Intents : ModeOf(i) = "real" =>
    sends[i] = 0 /\ intent[i].status \in {"absent", "queued", "rejected"}

\* A released token is never followed by a trade: whichever path rejected the intent,
\* its order did not open and cannot open any more.
ReleasedOrderNeverOpens ==
  \A i \in Intents : intent[i].status = "rejected" =>
    /\ brokerTrade[i].state = "none"
    /\ order[i] # "inFlight"
    /\ ~Poised(i)

\* An intent is linked to the trade of its own order, and it is debited only once the
\* broker has closed that trade.
LinkedToOwnTrade ==
  \A i \in Intents :
    /\ trade[i].id \in {NoTrade, i}
    /\ intent[i].status = "settled" => brokerTrade[i].state = "closed"

\* The pipeline implements the store: every step is one transaction or none.
ImplementsStore == StoreSpec

\* A queued intent does not hold its account forever: it is taken, refused or its
\* delivery is given up, whatever Redis and the workers do.
QueuedMovesOn == \A i \in Intents : intent[i].status = "queued" ~> intent[i].status # "queued"

\* A taken intent gets an outcome even when its worker dies and its job is gone.
SubmittingMovesOn ==
  \A i \in Intents : intent[i].status = "submitting" ~> intent[i].status # "submitting"

\* An unknown outcome always reaches reconciliation: its row is never given up.
UnknownIsReconciled ==
  \A i \in Intents : intent[i].status = "unknown" ~> intent[i].status # "unknown"

\* No intent waits forever before its reconciliation (publisher.ts:209, sweeper.ts).
EveryIntentMovesOn == QueuedMovesOn /\ SubmittingMovesOn /\ UnknownIsReconciled

=============================================================================
