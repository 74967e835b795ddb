----------------------------- MODULE IntentStore -----------------------------
(***************************************************************************)
(* The database half of a trade: trade_intents, the users' token cache,     *)
(* token_ledger, outbox_events, broker_trades, the trading switch and the   *)
(* session guard, with one action per transaction of packages/db.          *)
(*                                                                         *)
(* The callers (worker, publisher, sweeper, reconciliation pass, operator)  *)
(* are left open here: any transaction may run whenever its own predicates  *)
(* hold.  IntentPipeline composes these actions with the processes that     *)
(* really call them, which hold versions that may be stale.                 *)
(*                                                                         *)
(* A statement that matches no row, and a transaction that throws, leave    *)
(* the database as it was: they are stuttering steps.  So each action is    *)
(* the branch that commits, with every predicate of the code as a guard.    *)
(*                                                                         *)
(* Time is abstract: elapsed[i] holds the deadlines of intent i that the    *)
(* database clock has passed.                                              *)
(***************************************************************************)
EXTENDS Integers, FiniteSets

CONSTANTS
  Users, Accounts, Sessions, Intents, Trades,  \* rows that may come to exist
  Terms,            \* [mode, side, amount]: side stands for (asset, action)
  OwnerOf,          \* account -> its user
  AccountOf,        \* intent -> the account its request resolves to
  TermsOf,          \* intent -> the terms of its request
  SessionOf,        \* intent -> its session, or NoSession for a bot trade
  SessionAccount,   \* session -> its account
  SessionMode,      \* session -> its mode
  NoSession, NoTrade,
  ApiDemoOnly,      \* the DEMO_ONLY flag of the backend ...
  WorkerDemoOnly,   \* ... and of the trading workers, deployed apart from it
  InitialBalance,   \* tokens credited to every user before the first intent
  MaxAttempts,      \* publisher: deliveries before a trading-intents row fails
  MaxVersion,       \* bound: no lease is claimed from this version on
  MaxEdits          \* bound: operator, user and clock-in edits of other tables

VARIABLES
  user,         \* users: the token cache, the status and the trading mode
  account,      \* broker_accounts: status and trading_halted
  session,      \* trading_sessions.status, "none" before its row exists
  intent,       \* trade_intents
  ledger,       \* token_ledger rows of an intent, counted by kind
  outbox,       \* outbox_events by topic and intent
  trade,        \* broker_trades linked to an intent
  tradingOpen,  \* trading_switch.trading_enabled
  creating,     \* requests past the plain reads of their creation
  elapsed,      \* deadlines the database clock has passed, by intent
  edits         \* how many bounded edits were made

dbVars == <<user, account, session, intent, ledger, outbox, trade,
            tradingOpen, creating, elapsed, edits>>

-----------------------------------------------------------------------------
(* Vocabulary                                                               *)

Modes    == {"demo", "real"}
Terminal == {"settled", "rejected"}
Statuses == {"absent", "queued", "submitting", "accepted", "settled", "rejected",
             "unknown", "reconciling", "manual_review"}
Reasons  == {"none", "demo_only", "expired", "entry_window_missed", "trading_paused",
             "publish_failed", "broker_rejected", "broker_unavailable", "stale_submitting",
             "trade_mismatch", "reconciliation_not_found", "reconciliation_ambiguous"}
Topics   == {"trading-intents", "trading-reconciliation"}
Kinds    == {"reserve", "release", "settle"}
Timers   == {"maxAge", "deadline", "staleSubmitting", "window", "lease"}

\* TRADE_INTENT_TRANSITIONS; planned and reserved live only inside the
\* creation's transaction, so a committed creation is absent -> queued.
Transitions ==
  { <<"absent", "queued">>, <<"queued", "submitting">>, <<"queued", "rejected">>,
    <<"submitting", "accepted">>, <<"submitting", "rejected">>, <<"submitting", "unknown">>,
    <<"accepted", "settled">>, <<"unknown", "reconciling">>,
    <<"reconciling", "accepted">>, <<"reconciling", "rejected">>,
    <<"reconciling", "manual_review">>,
    <<"manual_review", "settled">>, <<"manual_review", "rejected">> }

UserOf(i)  == OwnerOf[AccountOf[i]]
ModeOf(i)  == TermsOf[i].mode
Live(i)    == intent[i].status \notin Terminal \cup {"absent"}
IntentsOf(u) == {i \in Intents : UserOf(i) = u}

\* No outbox row, no linked trade, no ledger row yet.
NoRow   == [status |-> "none", attempts |-> 0]
NoLink  == [id |-> NoTrade, status |-> "none"]
NoRows  == [k \in Kinds |-> 0]

ASSUME StoreAssumption ==
  /\ IsFiniteSet(Intents)
  /\ OwnerOf \in [Accounts -> Users]
  /\ AccountOf \in [Intents -> Accounts]
  /\ Terms \subseteq [mode : Modes, side : {"s1", "s2"}, amount : Nat]
  /\ TermsOf \in [Intents -> Terms]
  /\ SessionOf \in [Intents -> Sessions \cup {NoSession}]
  /\ SessionAccount \in [Sessions -> Accounts]
  /\ SessionMode \in [Sessions -> Modes]
  /\ NoSession \notin Sessions
  /\ NoTrade \notin Trades
  /\ {ApiDemoOnly, WorkerDemoOnly} \subseteq BOOLEAN
  /\ InitialBalance \in Nat
  /\ MaxAttempts \in Nat \ {0}
  /\ MaxVersion \in Nat
  /\ MaxEdits \in Nat

UserRow   == [balance : Nat, reserved : Nat, credited : Int,
              status : {"active", "blocked"}, mode : Modes]
IntentRow == [status : Statuses, version : Nat, held : {0, 1}, error : Reasons]
OutboxRow == [status : {"none", "pending", "published", "failed"}, attempts : Nat]

TypeOK ==
  /\ user \in [Users -> UserRow]
  /\ account \in [Accounts -> [status : {"active", "revoked"}, halted : BOOLEAN]]
  /\ session \in [Sessions -> {"none", "active", "stopped"}]
  /\ intent \in [Intents -> IntentRow]
  /\ ledger \in [Intents -> [Kinds -> Nat]]
  /\ outbox \in [Topics -> [Intents -> OutboxRow]]
  /\ trade \in [Intents -> [id : Trades \cup {NoTrade}, status : {"none", "open", "closed"}]]
  /\ tradingOpen \in BOOLEAN
  /\ creating \subseteq Intents
  /\ elapsed \in [Intents -> SUBSET Timers]
  /\ edits \in Nat

\* The migrated database: one active, unhalted account per row, trading open
\* (a missing switch row reads as closed), no sessions and no intents.
StoreInit ==
  /\ user \in [Users -> {[balance |-> InitialBalance, reserved |-> 0,
                          credited |-> InitialBalance, status |-> "active", mode |-> m]
                         : m \in Modes}]
  /\ account = [a \in Accounts |-> [status |-> "active", halted |-> FALSE]]
  /\ session = [s \in Sessions |-> "none"]
  /\ intent = [i \in Intents |-> [status |-> "absent", version |-> 0, held |-> 0,
                                  error |-> "none"]]
  /\ ledger = [i \in Intents |-> NoRows]
  /\ outbox = [q \in Topics |-> [i \in Intents |-> NoRow]]
  /\ trade = [i \in Intents |-> NoLink]
  /\ tradingOpen \in BOOLEAN
  /\ creating = {}
  /\ elapsed = [i \in Intents |-> {}]
  /\ edits = 0

-----------------------------------------------------------------------------
(* Creation: createTradeIntent, POST /trading/intents and a session's step   *)

\* The plain reads of createInTransaction, none of them locked: no row of this
\* (user, clientRequestId), the mode this process serves, the switch.
BeginCreate(i) ==
  /\ intent[i].status = "absent"
  /\ ~(ApiDemoOnly /\ ModeOf(i) = "real")
  /\ tradingOpen
  /\ creating' = creating \cup {i}
  /\ UNCHANGED <<user, account, session, intent, ledger, outbox, trade,
                 tradingOpen, elapsed, edits>>

\* Mutant: no trade_intents_live_account_idx, two live intents of one account.
MayCreate_ManyLive(i) ==
  /\ i \in creating
  /\ intent[i].status = "absent"
  /\ user[UserOf(i)].balance - user[UserOf(i)].reserved >= 1

\* The predicates the transaction holds its locks on: the reserve UPDATE's, the
\* account's FOR NO KEY UPDATE, the session's, and the two unique indexes.
MayCreate(i) ==
  LET u == user[UserOf(i)]
      a == account[AccountOf[i]]
      s == SessionOf[i]
  IN  /\ u.status = "active"
      /\ u.balance - u.reserved >= 1
      /\ ModeOf(i) = "real" => u.mode = "real"
      /\ a.status = "active"
      /\ ~a.halted
      /\ s # NoSession => /\ session[s] = "active"
                          /\ SessionAccount[s] = AccountOf[i]
                          /\ SessionMode[s] = ModeOf(i)
      /\ intent[i].status = "absent"
      /\ \A j \in Intents : AccountOf[j] = AccountOf[i] => ~Live(j)

\* The commit: the reserve, the intent, its ledger row and its outbox row.  The
\* row is inserted planned (version 1) and moved to reserved and queued.
CreateIntent(i) ==
  /\ i \in creating
  /\ MayCreate(i)
  /\ user' = [user EXCEPT ![UserOf(i)].reserved = @ + 1]
  /\ intent' = [intent EXCEPT ![i] = [status |-> "queued", version |-> 3, held |-> 1,
                                      error |-> "none"]]
  /\ ledger' = [ledger EXCEPT ![i]["reserve"] = @ + 1]
  /\ outbox' = [outbox EXCEPT !["trading-intents"][i] = [status |-> "pending", attempts |-> 0]]
  /\ creating' = creating \ {i}
  /\ UNCHANGED <<account, session, trade, tradingOpen, elapsed, edits>>

\* A refusal, a replay of a row another request committed, or a lost process.
AbortCreate(i) ==
  /\ i \in creating
  /\ creating' = creating \ {i}
  /\ UNCHANGED <<user, account, session, intent, ledger, outbox, trade,
                 tradingOpen, elapsed, edits>>

-----------------------------------------------------------------------------
(* transitionIntent: the one CAS of every status change                     *)

AnyVersion == -1

\* Mutant: a CAS on the version alone.
At_VersionOnly(i, from, v) ==
  intent[i].status \notin {"absent"} /\ (v = AnyVersion => intent[i].status = from)
                                     /\ v \in {AnyVersion, intent[i].version}

At(i, from, v) == intent[i].status = from /\ v \in {AnyVersion, intent[i].version}

\* The deadlines some predicate of the code reads while the row has a status.
Readable(status) ==
  CASE status = "queued"      -> {"maxAge", "deadline"}
    [] status = "submitting"  -> {"staleSubmitting", "window"}
    [] status = "unknown"     -> {"window"}
    [] status = "reconciling" -> {"window", "lease"}
    [] OTHER                  -> {}

\* reconcile_claimed_at is NULL on entry: the lease is free from the start.
Unclaimed(status) == IF status = "reconciling" THEN {"lease"} ELSE {}

\* The row after the CAS: the status, version + 1 per edge and the caller's patch.
\* A deadline nothing reads any more is forgotten.
MoveBy(i, edges, to, held, error) ==
  /\ intent' = [intent EXCEPT ![i] = [status |-> to, version |-> @.version + edges,
                                      held |-> held, error |-> error]]
  /\ elapsed' = [elapsed EXCEPT ![i] = (@ \cap Readable(to)) \cup Unclaimed(to)]

Move(i, to, held, error) == MoveBy(i, 1, to, held, error)

\* takeIntent: refused for an old intent, one past its entry window, and while
\* trading is closed.
MayTake(i, v) ==
  /\ At(i, "queued", v)
  /\ elapsed[i] \cap {"maxAge", "deadline"} = {}
  /\ tradingOpen

TakeIntent(i, v) ==
  /\ MayTake(i, v)
  /\ Move(i, "submitting", intent[i].held, intent[i].error)
  /\ UNCHANGED <<user, account, session, ledger, outbox, trade, tradingOpen,
                 creating, edits>>

\* Mutant: the cache is released, the ledger row is forgotten.
ReleaseTokens_CacheOnly(i) ==
  /\ user' = [user EXCEPT ![UserOf(i)].reserved = @ - intent[i].held]
  /\ UNCHANGED ledger

\* rejectIntent: the CAS, then releaseTokens when the row held tokens.
ReleaseTokens(i) ==
  /\ user' = [user EXCEPT ![UserOf(i)].reserved = @ - intent[i].held]
  /\ ledger' = [ledger EXCEPT ![i]["release"] = @ + intent[i].held]

RejectIntent(i, from, v, reason) ==
  /\ At(i, from, v)
  /\ user[UserOf(i)].reserved >= intent[i].held
  /\ Move(i, "rejected", 0, reason)
  /\ ReleaseTokens(i)
  /\ UNCHANGED <<account, session, outbox, trade, tradingOpen, creating, edits>>

RejectExpiredIntent(i, v) ==
  "maxAge" \in elapsed[i] /\ RejectIntent(i, "queued", v, "expired")

RejectLateIntent(i, v) ==
  "deadline" \in elapsed[i] /\ RejectIntent(i, "queued", v, "entry_window_missed")

\* No switch predicate: a reopened switch must not leave a consumed job behind.
RejectPausedIntent(i, v) == RejectIntent(i, "queued", v, "trading_paused")

\* submitting -> unknown and the reconciliation outbox row, once per intent.  An
\* aged caller (the sweeper, a redelivered job) asks for a stale submitted_at.
MarkIntentUnknown(i, v, reason, aged) ==
  /\ At(i, "submitting", v)
  /\ aged => "staleSubmitting" \in elapsed[i]
  /\ Move(i, "unknown", intent[i].held, reason)
  /\ outbox' = IF outbox["trading-reconciliation"][i] = NoRow
               THEN [outbox EXCEPT !["trading-reconciliation"][i] =
                                     [status |-> "pending", attempts |-> 0]]
               ELSE outbox
  /\ UNCHANGED <<user, account, session, ledger, trade, tradingOpen, creating, edits>>

-----------------------------------------------------------------------------
(* Acceptance and settlement                                                *)

\* Mutant: no unique index on broker_trades.
LinkedElsewhere_Never(i, t) == FALSE

\* broker_trades_account_trade_key: the account's trade backs another intent.
LinkedElsewhere(i, t) ==
  \E j \in Intents \ {i} : AccountOf[j] = AccountOf[i] /\ trade[j].id = t

\* What throws TradeIntentMismatchError for an intent that has no trade yet:
\* mismatchOf's four fields, or insertTrade's unique violation.
Mismatch(i, t, terms) == terms # TermsOf[i] \/ LinkedElsewhere(i, t)

\* markIntentAccepted: the CAS and the open broker_trades row.
MarkIntentAccepted(i, v, from, t, terms) ==
  /\ At(i, from, v)
  /\ ~Mismatch(i, t, terms)
  /\ trade[i] = NoLink
  /\ Move(i, "accepted", intent[i].held, intent[i].error)
  /\ trade' = [trade EXCEPT ![i] = [id |-> t, status |-> "open"]]
  /\ UNCHANGED <<user, account, session, ledger, outbox, tradingOpen, creating, edits>>

\* Mutant: the debit leaves the reserve standing.
ConsumeTokens_KeepsReserve(i) ==
  /\ user' = [user EXCEPT ![UserOf(i)].balance = @ - intent[i].held]
  /\ ledger' = [ledger EXCEPT ![i]["settle"] = @ + intent[i].held]

\* consumeTokens: the token leaves the reserve and the balance.
ConsumeTokens(i) ==
  LET u == user[UserOf(i)]
      n == intent[i].held
  IN  /\ u.reserved >= n
      /\ u.balance >= n
      /\ user' = [user EXCEPT ![UserOf(i)].balance = @ - n, ![UserOf(i)].reserved = @ - n]
      /\ ledger' = [ledger EXCEPT ![i]["settle"] = @ + n]

\* settleIntent, of a linked intent (accepted) or of one parked for the operator,
\* which may have no trade row: then the four-field check guards the insert.
SettleIntent(i, v, from, t, terms) ==
  /\ At(i, from, v)
  /\ IF trade[i] = NoLink THEN ~Mismatch(i, t, terms) ELSE trade[i].id = t
  /\ Move(i, "settled", 0, intent[i].error)
  /\ ConsumeTokens(i)
  /\ trade' = [trade EXCEPT ![i] = [id |-> t, status |-> "closed"]]
  /\ UNCHANGED <<account, session, outbox, tradingOpen, creating, edits>>

-----------------------------------------------------------------------------
(* Reconciliation                                                           *)

StartReconciling(i, v) ==
  /\ At(i, "unknown", v)
  /\ Move(i, "reconciling", intent[i].held, intent[i].error)
  /\ UNCHANGED <<user, account, session, ledger, outbox, trade, tradingOpen, creating, edits>>

\* claimReconciling: not a transition, but version + 1, so an attempt whose lease
\* lapsed and was claimed again cannot write its outcome.
ClaimReconciling(i) ==
  /\ intent[i].status = "reconciling"
  /\ "lease" \in elapsed[i]
  /\ intent[i].version < MaxVersion
  /\ intent' = [intent EXCEPT ![i].version = @ + 1]
  /\ elapsed' = [elapsed EXCEPT ![i] = @ \ {"lease"}]
  /\ UNCHANGED <<user, account, session, ledger, outbox, trade, tradingOpen, creating, edits>>

\* concludeReconciled with a trade the broker still has open ...
ConcludeOpen(i, v, t, terms) == MarkIntentAccepted(i, v, "reconciling", t, terms)

\* ... and with one already closed: accepted and settled in the one transaction.
ConcludeClosed(i, v, t, terms) ==
  /\ At(i, "reconciling", v)
  /\ ~Mismatch(i, t, terms)
  /\ trade[i] = NoLink
  /\ MoveBy(i, 2, "settled", 0, intent[i].error)
  /\ ConsumeTokens(i)
  /\ trade' = [trade EXCEPT ![i] = [id |-> t, status |-> "closed"]]
  /\ UNCHANGED <<account, session, outbox, tradingOpen, creating, edits>>

\* Mutant: manual_review drops the reserve of the row.
HaltAccountForManualReview_DropsReserve(i, v, reason) ==
  /\ At(i, "reconciling", v)
  /\ Move(i, "manual_review", 0, reason)
  /\ account' = [account EXCEPT ![AccountOf[i]].halted = TRUE]
  /\ UNCHANGED <<user, session, ledger, outbox, trade, tradingOpen, creating, edits>>

\* haltAccountForManualReview: the account's lock, the CAS, the halt.
HaltAccountForManualReview(i, v, reason) ==
  /\ At(i, "reconciling", v)
  /\ Move(i, "manual_review", intent[i].held, reason)
  /\ account' = [account EXCEPT ![AccountOf[i]].halted = TRUE]
  /\ UNCHANGED <<user, session, ledger, outbox, trade, tradingOpen, creating, edits>>

-----------------------------------------------------------------------------
(* The outbox                                                               *)

MarkPublished(q, i) ==
  /\ outbox[q][i].status = "pending"
  /\ outbox' = [outbox EXCEPT ![q][i].status = "published"]
  /\ UNCHANGED <<user, account, session, intent, ledger, trade, tradingOpen,
                 creating, elapsed, edits>>

\* The publisher's policyFor: a reconciliation row never gives up, so its attempts
\* are not counted here.
Exhausted(q, i) == q = "trading-intents" /\ outbox[q][i].attempts + 1 >= MaxAttempts

\* Mutant: a failed row leaves its intent queued.
RecordDeliveryFailure_LeavesIntent(q, i, from) ==
  /\ outbox[q][i].status = from
  /\ outbox' = [outbox EXCEPT ![q][i] =
                  [status   |-> IF Exhausted(q, i) THEN "failed" ELSE "pending",
                   attempts |-> IF q = "trading-intents" THEN @.attempts + 1 ELSE 0]]
  /\ UNCHANGED <<intent, elapsed, user, ledger, account, session, trade, tradingOpen,
                 creating, edits>>

\* recordDeliveryFailure of a pending row, or of a published one whose job is gone:
\* back to pending, or failed with the still queued intent rejected beside it.
RecordDeliveryFailure(q, i, from) ==
  /\ outbox[q][i].status = from
  /\ outbox' = [outbox EXCEPT ![q][i] =
                  [status   |-> IF Exhausted(q, i) THEN "failed" ELSE "pending",
                   attempts |-> IF q = "trading-intents" THEN @.attempts + 1 ELSE 0]]
  /\ IF Exhausted(q, i) /\ intent[i].status = "queued"
     THEN /\ user[UserOf(i)].reserved >= intent[i].held
          /\ Move(i, "rejected", 0, "publish_failed")
          /\ ReleaseTokens(i)
     ELSE UNCHANGED <<intent, elapsed, user, ledger>>
  /\ UNCHANGED <<account, session, trade, tradingOpen, creating, edits>>

-----------------------------------------------------------------------------
(* The other writers of the rows above                                      *)

\* stopTrading: an operator, the circuit breaker.  openTrading: an operator only.
SetTrading(open) ==
  /\ tradingOpen # open
  /\ edits < MaxEdits
  /\ tradingOpen' = open
  /\ edits' = edits + 1
  /\ UNCHANGED <<user, account, session, intent, ledger, outbox, trade, creating, elapsed>>

\* Mutant: a debit that does not look at the reserve.
AdjustTokens_Unguarded(u, delta) ==
  /\ edits < MaxEdits
  /\ user' = [user EXCEPT ![u].balance = @ + delta, ![u].credited = @ + delta]
  /\ edits' = edits + 1
  /\ UNCHANGED <<account, session, intent, ledger, outbox, trade, tradingOpen, creating, elapsed>>

\* adjustTokens; a credit of another writer of token_ledger is a positive delta.
AdjustTokens(u, delta) ==
  /\ edits < MaxEdits
  /\ user[u].balance + delta >= user[u].reserved
  /\ user' = [user EXCEPT ![u].balance = @ + delta, ![u].credited = @ + delta]
  /\ edits' = edits + 1
  /\ UNCHANGED <<account, session, intent, ledger, outbox, trade, tradingOpen, creating, elapsed>>

\* Mutant: the mode changes and the running sessions are left alone.
SetTradingMode_KeepsSessions(u, m) ==
  /\ edits < MaxEdits
  /\ user[u].mode # m
  /\ user' = [user EXCEPT ![u].mode = m]
  /\ edits' = edits + 1
  /\ UNCHANGED <<account, session, intent, ledger, outbox, trade, tradingOpen, creating, elapsed>>

\* setTradingMode: the users row, and the user's active sessions stopped with it.
SetTradingMode(u, m) ==
  /\ edits < MaxEdits
  /\ user[u].mode # m
  /\ user' = [user EXCEPT ![u].mode = m]
  /\ session' = [s \in Sessions |->
                   IF OwnerOf[SessionAccount[s]] = u /\ session[s] = "active"
                   THEN "stopped" ELSE session[s]]
  /\ edits' = edits + 1
  /\ UNCHANGED <<account, intent, ledger, outbox, trade, tradingOpen, creating, elapsed>>

\* switchTradingModeOnDeposit: to real, and only while no session of the user runs.
SwitchTradingModeOnDeposit(u, a) ==
  /\ edits < MaxEdits
  /\ ~ApiDemoOnly
  /\ user[u].status = "active"
  /\ user[u].mode = "demo"
  /\ OwnerOf[a] = u
  /\ account[a].status = "active"
  /\ \A s \in Sessions : OwnerOf[SessionAccount[s]] = u => session[s] # "active"
  /\ user' = [user EXCEPT ![u].mode = "real"]
  /\ edits' = edits + 1
  /\ UNCHANGED <<account, session, intent, ledger, outbox, trade, tradingOpen, creating, elapsed>>

\* An operator's block of a user, and the token service's revoke of an account.
BlockUser(u) ==
  /\ edits < MaxEdits
  /\ user[u].status = "active"
  /\ user' = [user EXCEPT ![u].status = "blocked"]
  /\ edits' = edits + 1
  /\ UNCHANGED <<account, session, intent, ledger, outbox, trade, tradingOpen, creating, elapsed>>

RevokeAccount(a) ==
  /\ edits < MaxEdits
  /\ account[a].status = "active"
  /\ account' = [account EXCEPT ![a].status = "revoked"]
  /\ edits' = edits + 1
  /\ UNCHANGED <<user, session, intent, ledger, outbox, trade, tradingOpen, creating, elapsed>>

\* createTradingSession: the users row, then the account's, then a plain read of
\* the switch; trading_sessions_active_account_idx admits one active session.
CreateTradingSession(s) ==
  LET a == SessionAccount[s]
      u == OwnerOf[a]
  IN  /\ session[s] = "none"
      /\ ~(ApiDemoOnly /\ SessionMode[s] = "real")
      /\ user[u].status = "active"
      /\ user[u].mode = SessionMode[s]
      /\ account[a].status = "active"
      /\ ~account[a].halted
      /\ tradingOpen
      /\ \A r \in Sessions : SessionAccount[r] = a => session[r] # "active"
      /\ session' = [session EXCEPT ![s] = "active"]
      /\ UNCHANGED <<user, account, intent, ledger, outbox, trade, tradingOpen,
                     creating, elapsed, edits>>

\* Any of the writers that stop a session; each is a CAS on status = active.
StopSession(s) ==
  /\ session[s] = "active"
  /\ session' = [session EXCEPT ![s] = "stopped"]
  /\ UNCHANGED <<user, account, intent, ledger, outbox, trade, tradingOpen,
                 creating, elapsed, edits>>

-----------------------------------------------------------------------------
(* The database clock                                                       *)

\* A deadline of the row passes.  Only a session's H1 entry carries a
\* submit_deadline_at.
Elapse(i, timer) ==
  /\ timer \in Readable(intent[i].status)
  /\ timer = "deadline" => SessionOf[i] # NoSession
  /\ timer \notin elapsed[i]
  /\ elapsed' = [elapsed EXCEPT ![i] = @ \cup {timer}]
  /\ UNCHANGED <<user, account, session, intent, ledger, outbox, trade, tradingOpen,
                 creating, edits>>

-----------------------------------------------------------------------------
Creation(i) == BeginCreate(i) \/ CreateIntent(i) \/ AbortCreate(i)

\* The rejections out of queued: before the order is sent.
Refusal(i, v) ==
  \/ RejectExpiredIntent(i, v)
  \/ RejectLateIntent(i, v)
  \/ RejectPausedIntent(i, v)
  \/ WorkerDemoOnly /\ ModeOf(i) = "real" /\ RejectIntent(i, "queued", v, "demo_only")

Submission(i, v) ==
  \/ TakeIntent(i, v)
  \/ RejectIntent(i, "submitting", v, "broker_rejected")
  \/ \E reason \in {"broker_unavailable", "trade_mismatch"} :
        MarkIntentUnknown(i, v, reason, FALSE)
  \/ MarkIntentUnknown(i, AnyVersion, "stale_submitting", TRUE)
  \/ \E t \in Trades, terms \in Terms : MarkIntentAccepted(i, v, "submitting", t, terms)

Reconciliation(i, v) ==
  \/ StartReconciling(i, v)
  \/ ClaimReconciling(i)
  \/ \E t \in Trades, terms \in Terms :
        ConcludeOpen(i, v, t, terms) \/ ConcludeClosed(i, v, t, terms)
  \/ RejectIntent(i, "reconciling", v, "reconciliation_not_found")
  \/ \E reason \in {"reconciliation_ambiguous", "reconciliation_not_found", "trade_mismatch"} :
        HaltAccountForManualReview(i, v, reason)

\* Settlement of a closed trade, and the operator's conclusion of manual_review.
Conclusion(i) ==
  \/ \E t \in Trades, terms \in Terms, from \in {"accepted", "manual_review"} :
        SettleIntent(i, AnyVersion, from, t, terms)
  \/ RejectIntent(i, "manual_review", AnyVersion, "broker_rejected")

Delivery(q, i) ==
  \/ MarkPublished(q, i)
  \/ \E from \in {"pending", "published"} : RecordDeliveryFailure(q, i, from)

Edit ==
  \/ \E open \in BOOLEAN : SetTrading(open)
  \/ \E u \in Users : \/ \E delta \in {-1, 1} : AdjustTokens(u, delta)
                      \/ \E m \in Modes : SetTradingMode(u, m)
                      \/ \E a \in Accounts : SwitchTradingModeOnDeposit(u, a)
                      \/ BlockUser(u)
  \/ \E a \in Accounts : RevokeAccount(a)
  \/ \E s \in Sessions : CreateTradingSession(s) \/ StopSession(s)

StoreNext ==
  \/ \E i \in Intents : \/ Creation(i)
                        \/ Refusal(i, intent[i].version)
                        \/ Submission(i, intent[i].version)
                        \/ Reconciliation(i, intent[i].version)
                        \/ Conclusion(i)
                        \/ \E q \in Topics : Delivery(q, i)
                        \/ \E timer \in Timers : Elapse(i, timer)
  \/ Edit

StoreSpec == StoreInit /\ [][StoreNext]_dbVars

-----------------------------------------------------------------------------
(* Properties                                                               *)

LedgerReserve(i) == ledger[i]["reserve"] - ledger[i]["release"] - ledger[i]["settle"]

\* The token of an intent, row by row: a live intent holds one reserve row and no
\* terminal row, a rejected one was released once and never settled, a settled one
\* settled once and never released; trade_intents.tokens_reserved says the same
\* (trade_intents_terminal_reserve_check), whichever writer ended it.
TokenFollowsStatus ==
  \A i \in Intents :
    /\ intent[i].held = IF Live(i) THEN 1 ELSE 0
    /\ ledger[i]["reserve"] = IF intent[i].status = "absent" THEN 0 ELSE 1
    /\ ledger[i]["release"] = IF intent[i].status = "rejected" THEN 1 ELSE 0
    /\ ledger[i]["settle"]  = IF intent[i].status = "settled" THEN 1 ELSE 0

\* The cache is the sum of the ledger (token-ledger.ts: sum(reserved_delta) =
\* token_reserved, sum(balance_delta) = token_balance) and the balance covers the
\* reserve, so releaseTokens and consumeTokens never meet their underflow error.
CacheIsLedgerSum ==
  \A u \in Users :
    /\ user[u].reserved = Cardinality({i \in IntentsOf(u) : LedgerReserve(i) = 1})
    /\ user[u].balance = user[u].credited
                         - Cardinality({i \in IntentsOf(u) : ledger[i]["settle"] = 1})
    /\ user[u].balance >= user[u].reserved

\* broker_trades beside trade_intents: an accepted intent has an open trade, a
\* settled one a closed trade, and no other intent has any; a broker trade of an
\* account backs one intent.
TradeFollowsStatus ==
  /\ \A i \in Intents :
       /\ intent[i].status = "accepted" <=> trade[i].status = "open"
       /\ intent[i].status = "settled" <=> trade[i].status = "closed"
       /\ trade[i].status = "none" <=> trade[i].id = NoTrade
  /\ \A i, j \in Intents :
       i # j /\ trade[i] # NoLink /\ AccountOf[i] = AccountOf[j] => trade[i].id # trade[j].id

\* Somebody will come for the intent: a queued one has a delivery that has not been
\* given up, and one whose outcome is unknown has a reconciliation row, which is
\* never given up (publisher.ts: a failed row would strand it with its reserve).
WaitingHasDelivery ==
  \A i \in Intents :
    /\ intent[i].status = "queued" =>
         outbox["trading-intents"][i].status \in {"pending", "published"}
    /\ intent[i].status \in {"unknown", "reconciling", "manual_review"} =>
         outbox["trading-reconciliation"][i].status \in {"pending", "published"}

\* A session runs only in its user's mode (#327): a start and the two writers of
\* trading_mode are serialized by the users row.
SessionRunsInUserMode ==
  \A s \in Sessions : session[s] = "active" =>
    SessionMode[s] = user[OwnerOf[SessionAccount[s]]].mode

\* Every committed change of a status is an edge of TRADE_INTENT_TRANSITIONS, or
\* two of them in one transaction (a conclusion with a trade already closed), and
\* moves the version by one per edge: what the database's transition guard refuses
\* never reaches it.
StatusSteps ==
  [][\A i \in Intents :
       LET from == intent[i].status
           to == intent'[i].status
           moved == intent'[i].version - intent[i].version
       IN  from # to =>
             \/ <<from, to>> \in Transitions /\ moved = IF from = "absent" THEN 3 ELSE 1
             \/ <<from, to>> = <<"reconciling", "settled">> /\ moved = 2
    ]_dbVars

\* A deal is final: the outcome of a finished intent, its ledger rows and its
\* broker trade are never written again.
FinishedIsFrozen ==
  [][\A i \in Intents : intent[i].status \in Terminal =>
       UNCHANGED <<intent[i], ledger[i], trade[i]>>]_dbVars

\* A row goes on along its graph, and where that ends nothing is written again
\* (trade-intent-ops.ts:450, trade-intent-ops.ts:871).
RowsMoveOn == StatusSteps /\ FinishedIsFrozen

\* IntentStore implements TokenEscrow: the row's tokens_reserved and its terminal
\* status say where the token is.
Escrow == INSTANCE TokenEscrow WITH
  Holder   <- [i \in Intents |-> UserOf(i)],
  balance  <- [u \in Users |-> user[u].balance],
  reserved <- [u \in Users |-> user[u].reserved],
  phase    <- [i \in Intents |-> CASE intent[i].held = 1 -> "held"
                                   [] intent[i].status = "rejected" -> "released"
                                   [] intent[i].status = "settled" -> "consumed"
                                   [] OTHER -> "idle"]

EscrowSpec == Escrow!Spec

=============================================================================
