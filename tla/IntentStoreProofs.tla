-------------------------- MODULE IntentStoreProofs --------------------------
(***************************************************************************)
(* What the rows of a trade say of each other after every transaction, for  *)
(* every set of users, accounts, sessions, intents and broker trades.       *)
(*                                                                         *)
(* IInv is the type invariant and four facts about the rows; the fourth,    *)
(* that a reconciliation row is never given up, is what makes               *)
(* WaitingHasDelivery inductive.  There is one lemma per transaction.       *)
(***************************************************************************)
EXTENDS IntentStore, TLAPS, FiniteSetTheorems

\* The reconciliation row of an intent is absent, or waiting, or published.
ReconciliationNeverGivenUp ==
  \A i \in Intents :
    LET row == outbox["trading-reconciliation"][i]
    IN  row = NoRow \/ row.status \in {"pending", "published"}

RowsInv == /\ TokenFollowsStatus
           /\ TradeFollowsStatus
           /\ WaitingHasDelivery
           /\ ReconciliationNeverGivenUp

IInv == TypeOK /\ RowsInv

-----------------------------------------------------------------------------
(* Helpers                                                                  *)

\* A transaction that writes none of the four tables keeps their agreement.
LEMMA RowsFrame ==
  ASSUME RowsInv, UNCHANGED <<intent, ledger, outbox, trade>>
  PROVE  RowsInv'
BY DEF RowsInv, TokenFollowsStatus, TradeFollowsStatus, WaitingHasDelivery,
       ReconciliationNeverGivenUp, Live

\* A status change leaves well-typed rows and deadlines.
LEMMA MoveByType ==
  ASSUME TypeOK, NEW i \in Intents, NEW edges \in {1, 2}, NEW to \in Statuses,
         NEW held \in {0, 1}, NEW error \in Reasons, MoveBy(i, edges, to, held, error)
  PROVE  intent' \in [Intents -> IntentRow] /\ elapsed' \in [Intents -> SUBSET Timers]
<1>1. intent' \in [Intents -> IntentRow]
  BY DEF TypeOK, MoveBy, IntentRow
<1>2. Readable(to) \subseteq Timers /\ Unclaimed(to) \subseteq Timers
  BY DEF Readable, Unclaimed, Timers
<1>3. elapsed' \in [Intents -> SUBSET Timers]
  BY <1>2 DEF TypeOK, MoveBy
<1> QED
  BY <1>1, <1>3

\* Every intent belongs to a user of the table.
LEMMA UserOfType == ASSUME NEW i \in Intents PROVE UserOf(i) \in Users
BY StoreAssumption DEF StoreAssumption, UserOf

\* releaseTokens under its guard: the cache stays a pair of naturals.
LEMMA ReleaseType ==
  ASSUME TypeOK, NEW i \in Intents, user[UserOf(i)].reserved >= intent[i].held,
         ReleaseTokens(i)
  PROVE  user' \in [Users -> UserRow] /\ ledger' \in [Intents -> [Kinds -> Nat]]
<1>1. UserOf(i) \in Users /\ user[UserOf(i)] \in UserRow /\ intent[i].held \in {0, 1}
  <2>1. UserOf(i) \in Users
    BY UserOfType
  <2>2. user[UserOf(i)] \in UserRow
    BY <2>1 DEF TypeOK
  <2>3. intent[i] \in IntentRow
    BY DEF TypeOK
  <2> QED
    BY <2>1, <2>2, <2>3 DEF IntentRow
<1>2. user[UserOf(i)].reserved - intent[i].held \in Nat
  BY <1>1 DEF UserRow
<1>3. [user[UserOf(i)] EXCEPT !.reserved = @ - intent[i].held] \in UserRow
  BY <1>1, <1>2 DEF UserRow
<1>4. user' \in [Users -> UserRow]
  BY <1>1, <1>3 DEF TypeOK, ReleaseTokens
<1>5. ledger[i]["release"] + intent[i].held \in Nat
  BY <1>1 DEF TypeOK, Kinds
<1>6. ledger' \in [Intents -> [Kinds -> Nat]]
  BY <1>5 DEF TypeOK, ReleaseTokens
<1> QED
  BY <1>4, <1>6

\* consumeTokens likewise.
LEMMA ConsumeType ==
  ASSUME TypeOK, NEW i \in Intents, ConsumeTokens(i)
  PROVE  user' \in [Users -> UserRow] /\ ledger' \in [Intents -> [Kinds -> Nat]]
<1>1. UserOf(i) \in Users /\ user[UserOf(i)] \in UserRow /\ intent[i].held \in {0, 1}
  <2>1. UserOf(i) \in Users
    BY UserOfType
  <2>2. user[UserOf(i)] \in UserRow
    BY <2>1 DEF TypeOK
  <2>3. intent[i] \in IntentRow
    BY DEF TypeOK
  <2> QED
    BY <2>1, <2>2, <2>3 DEF IntentRow
<1>2. /\ user[UserOf(i)].reserved - intent[i].held \in Nat
      /\ user[UserOf(i)].balance - intent[i].held \in Nat
  BY <1>1 DEF UserRow, ConsumeTokens
<1>3. [user[UserOf(i)] EXCEPT !.balance = @ - intent[i].held,
                              !.reserved = @ - intent[i].held] \in UserRow
  BY <1>1, <1>2 DEF UserRow
<1>4. user' \in [Users -> UserRow]
  BY <1>1, <1>3 DEF TypeOK, ConsumeTokens
<1>5. ledger[i]["settle"] + intent[i].held \in Nat
  BY <1>1 DEF TypeOK, Kinds
<1>6. ledger' \in [Intents -> [Kinds -> Nat]]
  BY <1>5 DEF TypeOK, ConsumeTokens
<1> QED
  BY <1>4, <1>6

\* What a status change writes, and what it leaves.
LEMMA MoveByFacts ==
  ASSUME TypeOK, NEW i \in Intents, NEW edges, NEW to, NEW held, NEW error,
         MoveBy(i, edges, to, held, error)
  PROVE  /\ intent'[i].status = to /\ intent'[i].held = held
         /\ \A j \in Intents : j # i => intent'[j] = intent[j]
BY DEF TypeOK, MoveBy

-----------------------------------------------------------------------------
(* One lemma per transaction that touches the rows of a trade               *)

\* The creation's commit brings a queued intent, its reserve row and its delivery.
LEMMA CreateStep == ASSUME IInv, NEW i \in Intents, CreateIntent(i) PROVE IInv'
<1> USE DEF IInv, RowsInv
<1>1. TypeOK'
  <2>1. UserOf(i) \in Users
    BY UserOfType
  <2>2. user' \in [Users -> UserRow]
    <3>1. user[UserOf(i)] \in UserRow
      BY <2>1 DEF TypeOK
    <3>2. [user[UserOf(i)] EXCEPT !.reserved = @ + 1] \in UserRow
      BY <3>1 DEF UserRow
    <3> QED
      BY <3>2 DEF TypeOK, CreateIntent
  <2>3. intent' \in [Intents -> IntentRow]
    BY DEF TypeOK, CreateIntent, IntentRow, Statuses, Reasons
  <2>4. ledger' \in [Intents -> [Kinds -> Nat]]
    BY DEF TypeOK, CreateIntent, Kinds
  <2>5. outbox' \in [Topics -> [Intents -> OutboxRow]]
    BY DEF TypeOK, CreateIntent, Topics, OutboxRow
  <2> QED
    BY <2>2, <2>3, <2>4, <2>5 DEF TypeOK, CreateIntent
<1>2. intent[i].status = "absent" /\ intent[i].held = 0
  BY DEF CreateIntent, MayCreate, TokenFollowsStatus, Live
<1>3. /\ intent'[i].status = "queued" /\ intent'[i].held = 1
      /\ \A j \in Intents : j # i => intent'[j] = intent[j]
  BY DEF TypeOK, CreateIntent
<1>4. TokenFollowsStatus'
  <2>1. /\ ledger'[i] = [ledger[i] EXCEPT !["reserve"] = @ + 1]
        /\ \A j \in Intents : j # i => ledger'[j] = ledger[j]
    BY DEF TypeOK, CreateIntent
  <2>2. ledger[i] \in [Kinds -> Nat]
    BY DEF TypeOK
  <2> QED
    BY <1>2, <1>3, <2>1, <2>2 DEF TokenFollowsStatus, Live, Terminal, Kinds
<1>5. TradeFollowsStatus'
  BY <1>2, <1>3 DEF TradeFollowsStatus, CreateIntent
<1>6. /\ outbox'["trading-intents"][i].status = "pending"
      /\ \A j \in Intents : j # i => outbox'["trading-intents"][j] = outbox["trading-intents"][j]
      /\ outbox'["trading-reconciliation"] = outbox["trading-reconciliation"]
  BY DEF TypeOK, CreateIntent, Topics
<1>7. WaitingHasDelivery' /\ ReconciliationNeverGivenUp'
  BY <1>3, <1>6 DEF WaitingHasDelivery, ReconciliationNeverGivenUp
<1> QED
  BY <1>1, <1>4, <1>5, <1>7

\* A status change that neither ends the intent nor touches its token or its trade.
LEMMA PlainMoveStep ==
  ASSUME IInv, NEW i \in Intents, NEW to \in {"submitting", "reconciling", "manual_review"},
         NEW error \in Reasons, Live(i), trade[i].status = "none",
         MoveBy(i, 1, to, intent[i].held, error),
         to # "submitting" =>
           outbox["trading-reconciliation"][i].status \in {"pending", "published"},
         account' \in [Accounts -> [status : {"active", "revoked"}, halted : BOOLEAN]],
         UNCHANGED <<user, session, ledger, outbox, trade, tradingOpen, creating, edits>>
  PROVE  IInv'
<1> USE DEF IInv, RowsInv
<1>1. intent[i].held \in {0, 1} /\ to \in Statuses
  <2>1. intent[i] \in IntentRow
    BY DEF TypeOK
  <2> QED
    BY <2>1 DEF IntentRow, Statuses
<1>2. TypeOK'
  BY <1>1, MoveByType DEF TypeOK
<1>3. /\ intent'[i].status = to /\ intent'[i].held = intent[i].held
      /\ \A j \in Intents : j # i => intent'[j] = intent[j]
  BY MoveByFacts
<1>4. TokenFollowsStatus'
  BY <1>3 DEF TokenFollowsStatus, Live, Terminal
<1>5. TradeFollowsStatus'
  BY <1>3 DEF TradeFollowsStatus, Live, Terminal
<1>6. WaitingHasDelivery' /\ ReconciliationNeverGivenUp'
  BY <1>3 DEF WaitingHasDelivery, ReconciliationNeverGivenUp
<1> QED
  BY <1>2, <1>4, <1>5, <1>6

\* markIntentUnknown brings the reconciliation row with the status.
LEMMA UnknownStep ==
  ASSUME IInv, NEW i \in Intents, NEW v, NEW reason \in Reasons, NEW aged,
         MarkIntentUnknown(i, v, reason, aged)
  PROVE  IInv'
<1> USE DEF IInv, RowsInv
<1> DEFINE q == "trading-reconciliation"
<1>1. intent[i].status = "submitting" /\ intent[i].held \in {0, 1}
  <2>1. intent[i] \in IntentRow
    BY DEF TypeOK
  <2> QED
    BY <2>1 DEF MarkIntentUnknown, At, IntentRow
<1>2. MoveBy(i, 1, "unknown", intent[i].held, reason)
  BY DEF MarkIntentUnknown, Move
<1>3. outbox' \in [Topics -> [Intents -> OutboxRow]]
  BY DEF TypeOK, MarkIntentUnknown, Topics, OutboxRow
<1>4. TypeOK'
  BY <1>1, <1>2, <1>3, MoveByType DEF TypeOK, MarkIntentUnknown, Statuses
<1>5. /\ intent'[i].status = "unknown" /\ intent'[i].held = intent[i].held
      /\ \A j \in Intents : j # i => intent'[j] = intent[j]
  BY <1>2, MoveByFacts
<1>6. TokenFollowsStatus'
  BY <1>1, <1>5 DEF TokenFollowsStatus, Live, Terminal, MarkIntentUnknown
<1>7. TradeFollowsStatus'
  BY <1>1, <1>5 DEF TradeFollowsStatus, MarkIntentUnknown
<1>8. /\ outbox'["trading-intents"] = outbox["trading-intents"]
      /\ outbox'[q][i].status \in {"pending", "published"}
      /\ \A j \in Intents : j # i => outbox'[q][j] = outbox[q][j]
  BY DEF TypeOK, MarkIntentUnknown, Topics, ReconciliationNeverGivenUp
<1>9. WaitingHasDelivery' /\ ReconciliationNeverGivenUp'
  BY <1>5, <1>8 DEF WaitingHasDelivery, ReconciliationNeverGivenUp
<1> QED
  BY <1>4, <1>6, <1>7, <1>9

\* A move of an intent that holds its token, with releaseTokens: whatever the reason,
\* and whichever transaction carries it.  outbox' is the caller's.
LEMMA ReleaseStep ==
  ASSUME IInv, NEW i \in Intents, NEW reason \in Reasons,
         Live(i), trade[i].status = "none", user[UserOf(i)].reserved >= intent[i].held,
         MoveBy(i, 1, "rejected", 0, reason), ReleaseTokens(i), UNCHANGED trade
  PROVE  /\ user' \in [Users -> UserRow] /\ ledger' \in [Intents -> [Kinds -> Nat]]
         /\ intent' \in [Intents -> IntentRow] /\ elapsed' \in [Intents -> SUBSET Timers]
         /\ TokenFollowsStatus' /\ TradeFollowsStatus'
<1> USE DEF IInv, RowsInv
<1>1. /\ intent'[i].status = "rejected" /\ intent'[i].held = 0
      /\ \A j \in Intents : j # i => intent'[j] = intent[j]
  BY MoveByFacts
<1>2. TokenFollowsStatus'
  <2>1. intent[i].held = 1 /\ ledger[i]["release"] = 0
    BY DEF TokenFollowsStatus, Live, Terminal
  <2>2. /\ ledger'[i] = [ledger[i] EXCEPT !["release"] = 1]
        /\ \A j \in Intents : j # i => ledger'[j] = ledger[j]
    BY <2>1 DEF TypeOK, ReleaseTokens
  <2>3. ledger[i] \in [Kinds -> Nat]
    BY DEF TypeOK
  <2> QED
    BY <1>1, <2>1, <2>2, <2>3 DEF TokenFollowsStatus, Live, Terminal, Kinds
<1>3. TradeFollowsStatus'
  BY <1>1 DEF TradeFollowsStatus, Live, Terminal
<1>4. /\ user' \in [Users -> UserRow] /\ ledger' \in [Intents -> [Kinds -> Nat]]
  BY ReleaseType
<1>5. /\ intent' \in [Intents -> IntentRow] /\ elapsed' \in [Intents -> SUBSET Timers]
  BY MoveByType DEF Statuses
<1> QED
  BY <1>2, <1>3, <1>4, <1>5

\* rejectIntent, from every status the callers name.
LEMMA RejectStep ==
  ASSUME IInv, NEW i \in Intents, NEW v, NEW reason \in Reasons,
         NEW from \in {"queued", "submitting", "reconciling", "manual_review"},
         RejectIntent(i, from, v, reason)
  PROVE  IInv'
<1> USE DEF IInv, RowsInv
<1>1. intent[i].status = from
  BY DEF RejectIntent, At
<1>2. Live(i) /\ trade[i].status = "none"
  <2>1. trade[i].status \in {"none", "open", "closed"}
    BY DEF TypeOK
  <2> QED
    BY <1>1, <2>1 DEF Live, Terminal, TradeFollowsStatus
<1>3. /\ user' \in [Users -> UserRow] /\ ledger' \in [Intents -> [Kinds -> Nat]]
      /\ intent' \in [Intents -> IntentRow] /\ elapsed' \in [Intents -> SUBSET Timers]
      /\ TokenFollowsStatus' /\ TradeFollowsStatus'
  BY <1>2, ReleaseStep DEF RejectIntent, Move
<1>4. TypeOK'
  BY <1>3 DEF TypeOK, RejectIntent
<1>5. /\ intent'[i].status = "rejected"
      /\ \A j \in Intents : j # i => intent'[j] = intent[j]
  BY MoveByFacts DEF RejectIntent, Move
<1>6. WaitingHasDelivery' /\ ReconciliationNeverGivenUp'
  BY <1>5 DEF WaitingHasDelivery, ReconciliationNeverGivenUp, RejectIntent
<1> QED
  BY <1>3, <1>4, <1>6

\* A trade that no other intent of the account has keeps the link one to one.
LEMMA LinkStaysUnique ==
  ASSUME IInv, NEW i \in Intents, NEW t \in Trades, NEW state \in {"open", "closed"},
         trade[i].id = t \/ ~LinkedElsewhere(i, t),
         trade' = [trade EXCEPT ![i] = [id |-> t, status |-> state]]
  PROVE  /\ trade' \in [Intents -> [id : Trades \cup {NoTrade},
                                    status : {"none", "open", "closed"}]]
         /\ trade'[i].id = t /\ trade'[i].status = state
         /\ \A j \in Intents : j # i => trade'[j] = trade[j]
         /\ \A j, k \in Intents : j # k /\ trade'[j] # NoLink /\ AccountOf[j] = AccountOf[k]
                                  => trade'[j].id # trade'[k].id
<1>1. trade' \in [Intents -> [id : Trades \cup {NoTrade}, status : {"none", "open", "closed"}]]
  BY DEF IInv, TypeOK
<1>2. /\ trade'[i] = [id |-> t, status |-> state]
      /\ \A j \in Intents : j # i => trade'[j] = trade[j]
  BY DEF IInv, TypeOK
<1>3. t # NoTrade /\ trade'[i] # NoLink
  BY <1>2, StoreAssumption DEF StoreAssumption, NoLink
<1>4. \A j \in Intents : j # i /\ AccountOf[j] = AccountOf[i] => trade[j].id # t
  <2>1. CASE trade[i].id = t
    BY <1>3, <2>1 DEF IInv, RowsInv, TradeFollowsStatus, NoLink
  <2>2. CASE ~LinkedElsewhere(i, t)
    BY <2>2 DEF LinkedElsewhere
  <2> QED
    BY <2>1, <2>2
<1>5. \A j, k \in Intents : j # k /\ trade'[j] # NoLink /\ AccountOf[j] = AccountOf[k]
                            => trade'[j].id # trade'[k].id
  BY <1>2, <1>4 DEF IInv, RowsInv, TradeFollowsStatus
<1> QED
  BY <1>1, <1>2, <1>5

\* markIntentAccepted, for the executor and for the reconciliation.
LEMMA AcceptStep ==
  ASSUME IInv, NEW i \in Intents, NEW v, NEW from \in {"submitting", "reconciling"},
         NEW t \in Trades, NEW terms, MarkIntentAccepted(i, v, from, t, terms)
  PROVE  IInv'
<1> USE DEF IInv, RowsInv
<1>1. intent[i].status = from /\ intent[i].held \in {0, 1} /\ intent[i].error \in Reasons
  <2>1. intent[i] \in IntentRow
    BY DEF TypeOK
  <2> QED
    BY <2>1 DEF MarkIntentAccepted, At, IntentRow
<1>2. MoveBy(i, 1, "accepted", intent[i].held, intent[i].error)
  BY DEF MarkIntentAccepted, Move
<1>3. /\ trade' \in [Intents -> [id : Trades \cup {NoTrade}, status : {"none", "open", "closed"}]]
      /\ trade'[i].id = t /\ trade'[i].status = "open"
      /\ \A j \in Intents : j # i => trade'[j] = trade[j]
      /\ \A j, k \in Intents : j # k /\ trade'[j] # NoLink /\ AccountOf[j] = AccountOf[k]
                               => trade'[j].id # trade'[k].id
  BY LinkStaysUnique DEF MarkIntentAccepted, Mismatch
<1>4. TypeOK'
  BY <1>1, <1>2, <1>3, MoveByType DEF TypeOK, MarkIntentAccepted, Statuses
<1>5. /\ intent'[i].status = "accepted" /\ intent'[i].held = intent[i].held
      /\ \A j \in Intents : j # i => intent'[j] = intent[j]
  BY <1>2, MoveByFacts
<1>6. TokenFollowsStatus'
  BY <1>1, <1>5 DEF TokenFollowsStatus, Live, Terminal, MarkIntentAccepted
<1>7. TradeFollowsStatus'
  BY SMTT(30), <1>3, <1>5, StoreAssumption DEF TradeFollowsStatus, StoreAssumption
<1>8. WaitingHasDelivery' /\ ReconciliationNeverGivenUp'
  BY <1>5 DEF WaitingHasDelivery, ReconciliationNeverGivenUp, MarkIntentAccepted
<1> QED
  BY <1>4, <1>6, <1>7, <1>8

\* consumeTokens with the move to settled and the closed trade row, whether the intent
\* was accepted before or in the same transaction.
LEMMA SettleStep ==
  ASSUME IInv, NEW i \in Intents, NEW edges \in {1, 2}, NEW t \in Trades, Live(i),
         trade[i].id = t \/ ~LinkedElsewhere(i, t),
         MoveBy(i, edges, "settled", 0, intent[i].error), ConsumeTokens(i),
         trade' = [trade EXCEPT ![i] = [id |-> t, status |-> "closed"]],
         UNCHANGED <<account, session, outbox, tradingOpen, creating, edits>>
  PROVE  IInv'
<1> USE DEF IInv, RowsInv
<1>1. intent[i].error \in Reasons
  <2>1. intent[i] \in IntentRow
    BY DEF TypeOK
  <2> QED
    BY <2>1 DEF IntentRow
<1>2. /\ trade' \in [Intents -> [id : Trades \cup {NoTrade}, status : {"none", "open", "closed"}]]
      /\ trade'[i].id = t /\ trade'[i].status = "closed"
      /\ \A j \in Intents : j # i => trade'[j] = trade[j]
      /\ \A j, k \in Intents : j # k /\ trade'[j] # NoLink /\ AccountOf[j] = AccountOf[k]
                               => trade'[j].id # trade'[k].id
  BY LinkStaysUnique
<1>3. /\ intent'[i].status = "settled" /\ intent'[i].held = 0
      /\ \A j \in Intents : j # i => intent'[j] = intent[j]
  BY MoveByFacts
<1>4. TypeOK'
  <2>1. /\ intent' \in [Intents -> IntentRow] /\ elapsed' \in [Intents -> SUBSET Timers]
    BY <1>1, MoveByType DEF Statuses
  <2>2. /\ user' \in [Users -> UserRow] /\ ledger' \in [Intents -> [Kinds -> Nat]]
    BY ConsumeType
  <2> QED
    BY <1>2, <2>1, <2>2 DEF TypeOK
<1>5. TokenFollowsStatus'
  <2>1. intent[i].held = 1 /\ ledger[i]["settle"] = 0
    BY DEF TokenFollowsStatus, Live, Terminal
  <2>2. /\ ledger'[i] = [ledger[i] EXCEPT !["settle"] = 1]
        /\ \A j \in Intents : j # i => ledger'[j] = ledger[j]
    BY <2>1 DEF TypeOK, ConsumeTokens
  <2>3. ledger[i] \in [Kinds -> Nat]
    BY DEF TypeOK
  <2> QED
    BY <1>3, <2>1, <2>2, <2>3 DEF TokenFollowsStatus, Live, Terminal, Kinds
<1>6. TradeFollowsStatus'
  BY <1>2, <1>3, StoreAssumption DEF TradeFollowsStatus, StoreAssumption
<1>7. WaitingHasDelivery' /\ ReconciliationNeverGivenUp'
  BY <1>3 DEF WaitingHasDelivery, ReconciliationNeverGivenUp
<1> QED
  BY <1>4, <1>5, <1>6, <1>7

\* A claim moves the version and the lease, nothing the rows are compared by.
LEMMA ClaimStep == ASSUME IInv, NEW i \in Intents, ClaimReconciling(i) PROVE IInv'
<1> USE DEF IInv, RowsInv
<1>1. intent' \in [Intents -> IntentRow]
  <2>1. intent[i] \in IntentRow
    BY DEF TypeOK
  <2>2. [intent[i] EXCEPT !.version = @ + 1] \in IntentRow
    BY <2>1 DEF IntentRow
  <2> QED
    BY <2>2 DEF TypeOK, ClaimReconciling
<1>2. TypeOK'
  BY <1>1 DEF TypeOK, ClaimReconciling
<1>3. \A j \in Intents : intent'[j].status = intent[j].status /\ intent'[j].held = intent[j].held
  BY DEF TypeOK, ClaimReconciling, IntentRow
<1>4. UNCHANGED <<ledger, outbox, trade>>
  BY DEF ClaimReconciling
<1> QED
  BY <1>2, <1>3, <1>4 DEF TokenFollowsStatus, TradeFollowsStatus, WaitingHasDelivery,
                          ReconciliationNeverGivenUp, Live

\* A published row still waits for its consumer.
LEMMA PublishStep ==
  ASSUME IInv, NEW q \in Topics, NEW i \in Intents, MarkPublished(q, i) PROVE IInv'
<1> USE DEF IInv, RowsInv
<1>1. outbox' \in [Topics -> [Intents -> OutboxRow]]
  <2>1. outbox[q][i] \in OutboxRow
    BY DEF TypeOK
  <2>2. [outbox[q][i] EXCEPT !.status = "published"] \in OutboxRow
    BY <2>1 DEF OutboxRow
  <2> QED
    BY <2>2 DEF TypeOK, MarkPublished
<1>2. TypeOK'
  BY <1>1 DEF TypeOK, MarkPublished
<1>3. \A p \in Topics, j \in Intents :
        \/ outbox'[p][j] = outbox[p][j]
        \/ outbox[p][j].status = "pending" /\ outbox'[p][j].status = "published"
  BY DEF TypeOK, MarkPublished, OutboxRow
<1>4. WaitingHasDelivery' /\ ReconciliationNeverGivenUp'
  BY <1>3 DEF WaitingHasDelivery, ReconciliationNeverGivenUp, MarkPublished, Topics, NoRow
<1>5. TokenFollowsStatus' /\ TradeFollowsStatus'
  BY DEF TokenFollowsStatus, TradeFollowsStatus, Live, MarkPublished
<1> QED
  BY <1>2, <1>4, <1>5

\* A failed delivery is retried, or it takes the intent it failed with it.
LEMMA FailureStep ==
  ASSUME IInv, NEW q \in Topics, NEW i \in Intents, NEW from \in {"pending", "published"},
         RecordDeliveryFailure(q, i, from)
  PROVE  IInv'
<1> USE DEF IInv, RowsInv
<1> DEFINE row == [status   |-> IF Exhausted(q, i) THEN "failed" ELSE "pending",
                   attempts |-> IF q = "trading-intents" THEN outbox[q][i].attempts + 1 ELSE 0]
<1>1. row \in OutboxRow
  <2>1. outbox[q][i] \in OutboxRow
    BY DEF TypeOK
  <2> QED
    BY <2>1 DEF OutboxRow
<1>2. outbox' = [outbox EXCEPT ![q][i] = row]
  BY DEF RecordDeliveryFailure
<1> HIDE DEF row
<1>3. outbox' \in [Topics -> [Intents -> OutboxRow]]
  BY <1>1, <1>2 DEF TypeOK
<1>4. /\ outbox'[q][i] = row
      /\ \A p \in Topics, j \in Intents : p # q \/ j # i => outbox'[p][j] = outbox[p][j]
  BY <1>2 DEF TypeOK
<1>5. row.status = "failed" => q = "trading-intents"
  BY DEF row, Exhausted
<1>6. row.status \in {"pending", "failed"}
  BY DEF row
<1>7. ReconciliationNeverGivenUp'
  BY <1>4, <1>5, <1>6 DEF ReconciliationNeverGivenUp, Topics, NoRow
<1>8. CASE Exhausted(q, i) /\ intent[i].status = "queued"
  <2>1. Live(i) /\ trade[i].status = "none"
    <3>1. trade[i].status \in {"none", "open", "closed"}
      BY DEF TypeOK
    <3> QED
      BY <1>8, <3>1 DEF Live, Terminal, TradeFollowsStatus
  <2>2. /\ user[UserOf(i)].reserved >= intent[i].held
        /\ MoveBy(i, 1, "rejected", 0, "publish_failed") /\ ReleaseTokens(i)
        /\ UNCHANGED <<account, session, trade, tradingOpen, creating, edits>>
    BY <1>8 DEF RecordDeliveryFailure, Move
  <2>3. /\ user' \in [Users -> UserRow] /\ ledger' \in [Intents -> [Kinds -> Nat]]
        /\ intent' \in [Intents -> IntentRow] /\ elapsed' \in [Intents -> SUBSET Timers]
        /\ TokenFollowsStatus' /\ TradeFollowsStatus'
    BY <2>1, <2>2, ReleaseStep DEF Reasons
  <2>4. TypeOK'
    BY <1>3, <2>2, <2>3 DEF TypeOK
  <2>5. /\ intent'[i].status = "rejected"
        /\ \A j \in Intents : j # i => intent'[j] = intent[j]
    BY <2>2, MoveByFacts
  <2>6. WaitingHasDelivery'
    BY <1>4, <2>5 DEF WaitingHasDelivery, Topics
  <2> QED
    BY <1>7, <2>3, <2>4, <2>6
<1>9. CASE ~(Exhausted(q, i) /\ intent[i].status = "queued")
  <2>1. UNCHANGED <<intent, elapsed, user, ledger, account, session, trade, tradingOpen,
                    creating, edits>>
    BY <1>9 DEF RecordDeliveryFailure
  <2>2. TypeOK'
    BY <1>3, <2>1 DEF TypeOK
  <2>3. intent[i].status = "queued" => row.status = "pending"
    BY <1>9 DEF row
  <2>4. WaitingHasDelivery'
    BY <1>4, <1>5, <1>6, <2>1, <2>3 DEF WaitingHasDelivery, Topics
  <2>5. TokenFollowsStatus' /\ TradeFollowsStatus'
    BY <2>1 DEF TokenFollowsStatus, TradeFollowsStatus, Live
  <2> QED
    BY <1>7, <2>2, <2>4, <2>5
<1> QED
  BY <1>8, <1>9

\* The edits of the other tables are well typed and leave the rows of a trade alone.
LEMMA EditStep == ASSUME IInv, Edit PROVE IInv'
<1> USE DEF IInv
<1>1. ASSUME NEW open \in BOOLEAN, SetTrading(open) PROVE IInv'
  BY <1>1, RowsFrame DEF SetTrading, TypeOK
<1>2. ASSUME NEW u \in Users, NEW delta \in {-1, 1}, AdjustTokens(u, delta) PROVE IInv'
  <2>1. user[u] \in UserRow
    BY DEF TypeOK
  <2>2. [user[u] EXCEPT !.balance = @ + delta, !.credited = @ + delta] \in UserRow
    <3>1. /\ user[u].balance \in Nat /\ user[u].reserved \in Nat
          /\ user[u].credited \in Int
      BY <2>1 DEF UserRow
    <3>2. delta \in Int
      BY <1>2
    <3>3. user[u].balance + delta >= user[u].reserved
      BY <1>2 DEF AdjustTokens
    <3>4. user[u].balance + delta \in Nat /\ user[u].credited + delta \in Int
      BY <3>1, <3>2, <3>3
    <3> QED
      BY <2>1, <3>4 DEF UserRow
  <2>3. user' \in [Users -> UserRow]
    BY <1>2, <2>2 DEF TypeOK, AdjustTokens
  <2> QED
    BY <1>2, <2>3, RowsFrame DEF AdjustTokens, TypeOK
<1>3. ASSUME NEW u \in Users, NEW m \in Modes, SetTradingMode(u, m) PROVE IInv'
  <2>1. user' \in [Users -> UserRow]
    <3>1. user[u] \in UserRow
      BY DEF TypeOK
    <3>2. [user[u] EXCEPT !.mode = m] \in UserRow
      BY <3>1 DEF UserRow
    <3> QED
      BY <1>3, <3>2 DEF TypeOK, SetTradingMode
  <2>2. session' \in [Sessions -> {"none", "active", "stopped"}]
    BY <1>3 DEF TypeOK, SetTradingMode
  <2> QED
    BY <1>3, <2>1, <2>2, RowsFrame DEF SetTradingMode, TypeOK
<1>4. ASSUME NEW u \in Users, NEW a \in Accounts, SwitchTradingModeOnDeposit(u, a) PROVE IInv'
  <2>1. user' \in [Users -> UserRow]
    <3>1. user[u] \in UserRow
      BY DEF TypeOK
    <3>2. [user[u] EXCEPT !.mode = "real"] \in UserRow
      BY <3>1 DEF UserRow, Modes
    <3> QED
      BY <1>4, <3>2 DEF TypeOK, SwitchTradingModeOnDeposit
  <2> QED
    BY <1>4, <2>1, RowsFrame DEF SwitchTradingModeOnDeposit, TypeOK
<1>5. ASSUME NEW u \in Users, BlockUser(u) PROVE IInv'
  <2>1. user' \in [Users -> UserRow]
    <3>1. user[u] \in UserRow
      BY DEF TypeOK
    <3>2. [user[u] EXCEPT !.status = "blocked"] \in UserRow
      BY <3>1 DEF UserRow
    <3> QED
      BY <1>5, <3>2 DEF TypeOK, BlockUser
  <2> QED
    BY <1>5, <2>1, RowsFrame DEF BlockUser, TypeOK
<1>6. ASSUME NEW a \in Accounts, RevokeAccount(a) PROVE IInv'
  <2>1. account' \in [Accounts -> [status : {"active", "revoked"}, halted : BOOLEAN]]
    BY <1>6 DEF TypeOK, RevokeAccount
  <2> QED
    BY <1>6, <2>1, RowsFrame DEF RevokeAccount, TypeOK
<1>7. ASSUME NEW s \in Sessions, CreateTradingSession(s) \/ StopSession(s) PROVE IInv'
  <2>1. /\ session' \in [Sessions -> {"none", "active", "stopped"}]
        /\ UNCHANGED <<user, account, intent, ledger, outbox, trade, tradingOpen, creating,
                       elapsed, edits>>
    BY <1>7 DEF TypeOK, CreateTradingSession, StopSession
  <2> QED
    BY <2>1, RowsFrame DEF TypeOK
<1> QED
  BY <1>1, <1>2, <1>3, <1>4, <1>5, <1>6, <1>7 DEF Edit

-----------------------------------------------------------------------------
(* The graph of the statuses                                                *)

\* The reasons of a refusal before submitting (Rule 15).
PlainReasons == {"demo_only", "expired", "entry_window_missed", "trading_paused", "publish_failed"}

\* One intent goes along an edge, or along two of them in one transaction; the rows of the
\* others stand still.  A plain refusal is recorded on the way out of queued, and a creation
\* finds the account without a live intent.
RowMoves(i) ==
  /\ \A j \in Intents : j # i => /\ intent'[j] = intent[j]
                                 /\ ledger'[j] = ledger[j]
                                 /\ trade'[j] = trade[j]
  /\ \/ /\ <<intent[i].status, intent'[i].status>> \in Transitions
        /\ intent'[i].version - intent[i].version
             = IF intent[i].status = "absent" THEN 3 ELSE 1
     \/ /\ intent[i].status = "reconciling" /\ intent'[i].status = "settled"
        /\ intent'[i].version - intent[i].version = 2
  /\ intent'[i].error \in PlainReasons =>
       \/ intent[i].error = intent'[i].error
       \/ intent[i].status = "queued" /\ intent'[i].status = "rejected"
  /\ intent[i].status = "absent" =>
       \A j \in Intents : j # i /\ AccountOf[j] = AccountOf[i] => ~Live(j)

\* No status changes, nor any row of an intent that is not live.
RowsStay ==
  \A j \in Intents :
    /\ intent'[j].status = intent[j].status
    /\ intent'[j].error = intent[j].error
    /\ ~Live(j) => /\ intent'[j] = intent[j]
                   /\ ledger'[j] = ledger[j]
                   /\ trade'[j] = trade[j]

RowStep == RowsStay \/ \E i \in Intents : RowMoves(i)

\* The version counts from the creation on.
AbsentIsNew == \A i \in Intents : intent[i].status = "absent" => intent[i].version = 0

StepInv == IInv /\ AbsentIsNew

\* The CAS of a status change: its version and the rows it leaves.
LEMMA MoveByVersion ==
  ASSUME TypeOK, NEW i \in Intents, NEW edges \in {1, 2}, NEW to, NEW held, NEW error,
         MoveBy(i, edges, to, held, error)
  PROVE  /\ intent'[i].status = to /\ intent'[i].error = error
         /\ intent'[i].version - intent[i].version = edges
         /\ \A j \in Intents : j # i => intent'[j] = intent[j]
<1>1. intent[i].version \in Nat
  <2>1. intent[i] \in IntentRow
    BY DEF TypeOK
  <2> QED
    BY <2>1 DEF IntentRow
<1>2. intent' = [intent EXCEPT ![i] = [status |-> to, version |-> intent[i].version + edges,
                                       held |-> held, error |-> error]]
  BY DEF MoveBy
<1>3. /\ intent'[i].status = to /\ intent'[i].error = error
      /\ intent'[i].version = intent[i].version + edges
  BY <1>2 DEF TypeOK
<1> QED
  BY <1>1, <1>2, <1>3 DEF TypeOK

\* A rejection, from any of the statuses that have an edge to it.
LEMMA RejectMoves ==
  ASSUME TypeOK, NEW i \in Intents, NEW reason,
         intent[i].status \in {"queued", "submitting", "reconciling", "manual_review"},
         intent[i].status = "queued" \/ reason \notin PlainReasons,
         MoveBy(i, 1, "rejected", 0, reason), ReleaseTokens(i), UNCHANGED trade
  PROVE  RowMoves(i)
<1>1. /\ intent'[i].status = "rejected" /\ intent'[i].error = reason
      /\ intent'[i].version - intent[i].version = 1
      /\ \A j \in Intents : j # i => intent'[j] = intent[j]
  BY MoveByVersion
<1>2. \A j \in Intents : j # i => ledger'[j] = ledger[j]
  BY DEF TypeOK, ReleaseTokens
<1> QED
  BY <1>1, <1>2 DEF RowMoves, Transitions

\* A settlement: of an accepted or parked intent, or of one accepted in the same transaction.
LEMMA SettleMoves ==
  ASSUME TypeOK, NEW i \in Intents, NEW edges \in {1, 2}, NEW t,
         \/ edges = 1 /\ intent[i].status \in {"accepted", "manual_review"}
         \/ edges = 2 /\ intent[i].status = "reconciling",
         MoveBy(i, edges, "settled", 0, intent[i].error), ConsumeTokens(i),
         trade' = [trade EXCEPT ![i] = [id |-> t, status |-> "closed"]]
  PROVE  RowMoves(i)
<1>1. /\ intent'[i].status = "settled" /\ intent'[i].error = intent[i].error
      /\ intent'[i].version - intent[i].version = edges
      /\ \A j \in Intents : j # i => intent'[j] = intent[j]
  BY MoveByVersion
<1>2. \A j \in Intents : j # i => ledger'[j] = ledger[j] /\ trade'[j] = trade[j]
  BY DEF TypeOK, ConsumeTokens
<1> QED
  BY <1>1, <1>2 DEF RowMoves, Transitions

\* The edges that move no token and link no trade.
LEMMA PlainMoves ==
  ASSUME TypeOK, NEW i \in Intents, NEW to, NEW held, NEW error,
         <<intent[i].status, to>> \in Transitions, intent[i].status # "absent",
         error = intent[i].error \/ error \notin PlainReasons,
         MoveBy(i, 1, to, held, error), UNCHANGED <<ledger, trade>>
  PROVE  RowMoves(i)
<1>1. /\ intent'[i].status = to /\ intent'[i].error = error
      /\ intent'[i].version - intent[i].version = 1
      /\ \A j \in Intents : j # i => intent'[j] = intent[j]
  BY MoveByVersion
<1> QED
  BY <1>1 DEF RowMoves

LEMMA AcceptMoves ==
  ASSUME TypeOK, NEW i \in Intents, NEW v, NEW from \in {"submitting", "reconciling"},
         NEW t, NEW terms, MarkIntentAccepted(i, v, from, t, terms)
  PROVE  RowMoves(i)
<1>1. intent[i].status = from /\ MoveBy(i, 1, "accepted", intent[i].held, intent[i].error)
  BY DEF MarkIntentAccepted, At, Move
<1>2. /\ intent'[i].status = "accepted" /\ intent'[i].error = intent[i].error
      /\ intent'[i].version - intent[i].version = 1
      /\ \A j \in Intents : j # i => intent'[j] = intent[j]
  BY <1>1, MoveByVersion
<1>3. \A j \in Intents : j # i => ledger'[j] = ledger[j] /\ trade'[j] = trade[j]
  BY DEF TypeOK, MarkIntentAccepted
<1> QED
  BY <1>1, <1>2, <1>3 DEF RowMoves, Transitions

\* The creation's commit: absent to queued, three versions in one transaction.
LEMMA CreateMoves ==
  ASSUME TypeOK, TokenFollowsStatus, NEW i \in Intents, intent[i].version = 0, CreateIntent(i)
  PROVE  RowMoves(i)
<1>1. intent[i].status = "absent"
  BY DEF CreateIntent, MayCreate
<1>2. /\ intent'[i].status = "queued" /\ intent'[i].version = 3 /\ intent'[i].error = "none"
      /\ \A j \in Intents : j # i => intent'[j] = intent[j]
  BY DEF TypeOK, CreateIntent
<1>3. \A j \in Intents : j # i => ledger'[j] = ledger[j] /\ trade'[j] = trade[j]
  BY DEF TypeOK, CreateIntent
<1>4. \A j \in Intents : AccountOf[j] = AccountOf[i] => ~Live(j)
  BY DEF CreateIntent, MayCreate
<1> QED
  BY <1>1, <1>2, <1>3, <1>4 DEF RowMoves, Transitions, PlainReasons

\* A transaction that writes none of the three tables.
LEMMA NoRowMoves == ASSUME UNCHANGED <<intent, ledger, trade>> PROVE RowStep
BY DEF RowStep, RowsStay

LEMMA CreationRows == ASSUME StepInv, NEW i \in Intents, Creation(i) PROVE RowStep
<1>1. CASE CreateIntent(i)
  <2>1. intent[i].version = 0
    BY <1>1 DEF StepInv, AbsentIsNew, CreateIntent, MayCreate
  <2> QED
    BY <1>1, <2>1, CreateMoves DEF StepInv, IInv, RowsInv, RowStep
<1>2. CASE BeginCreate(i) \/ AbortCreate(i)
  BY <1>2, NoRowMoves DEF BeginCreate, AbortCreate
<1> QED
  BY <1>1, <1>2 DEF Creation

\* rejectIntent, whoever calls it.
LEMMA RejectRows ==
  ASSUME StepInv, NEW i \in Intents, NEW v, NEW reason,
         NEW from \in {"queued", "submitting", "reconciling", "manual_review"},
         from = "queued" \/ reason \notin PlainReasons,
         RejectIntent(i, from, v, reason)
  PROVE  RowStep
<1>1. intent[i].status = from /\ MoveBy(i, 1, "rejected", 0, reason)
  BY DEF RejectIntent, At, Move
<1> QED
  BY <1>1, RejectMoves DEF StepInv, IInv, RejectIntent, RowStep

LEMMA SubmissionRows == ASSUME StepInv, NEW i \in Intents, NEW v, Submission(i, v) PROVE RowStep
<1>1. CASE TakeIntent(i, v)
  <2>1. /\ intent[i].status = "queued"
        /\ MoveBy(i, 1, "submitting", intent[i].held, intent[i].error)
    BY <1>1 DEF TakeIntent, MayTake, At, Move
  <2>2. <<intent[i].status, "submitting">> \in Transitions
    BY <2>1 DEF Transitions
  <2> QED
    BY <1>1, <2>1, <2>2, PlainMoves DEF StepInv, IInv, TakeIntent, RowStep
<1>2. CASE RejectIntent(i, "submitting", v, "broker_rejected")
  BY <1>2, RejectRows DEF PlainReasons
<1>3. ASSUME NEW w, NEW reason, NEW aged, reason \notin PlainReasons,
             MarkIntentUnknown(i, w, reason, aged)
      PROVE  RowStep
  <2>1. /\ intent[i].status = "submitting"
        /\ MoveBy(i, 1, "unknown", intent[i].held, reason)
    BY <1>3 DEF MarkIntentUnknown, At, Move
  <2>2. <<intent[i].status, "unknown">> \in Transitions
    BY <2>1 DEF Transitions
  <2> QED
    BY <1>3, <2>1, <2>2, PlainMoves DEF StepInv, IInv, MarkIntentUnknown, RowStep
<1>4. ASSUME NEW t \in Trades, NEW terms \in Terms,
             MarkIntentAccepted(i, v, "submitting", t, terms)
      PROVE RowStep
  BY <1>4, AcceptMoves DEF StepInv, IInv, RowStep
<1> QED
  BY <1>1, <1>2, <1>3, <1>4 DEF Submission, PlainReasons

LEMMA ReconciliationRows ==
  ASSUME StepInv, NEW i \in Intents, NEW v, Reconciliation(i, v) PROVE RowStep
<1>1. CASE StartReconciling(i, v)
  <2>1. /\ intent[i].status = "unknown"
        /\ MoveBy(i, 1, "reconciling", intent[i].held, intent[i].error)
    BY <1>1 DEF StartReconciling, At, Move
  <2>2. <<intent[i].status, "reconciling">> \in Transitions
    BY <2>1 DEF Transitions
  <2> QED
    BY <1>1, <2>1, <2>2, PlainMoves DEF StepInv, IInv, StartReconciling, RowStep
<1>2. CASE ClaimReconciling(i)
  <2>1. \A j \in Intents : /\ intent'[j].status = intent[j].status
                           /\ intent'[j].error = intent[j].error
                           /\ j # i => intent'[j] = intent[j]
    <3>1. \A j \in Intents : intent[j] \in IntentRow
      BY DEF StepInv, IInv, TypeOK
    <3> QED
      BY <1>2, <3>1 DEF StepInv, IInv, TypeOK, ClaimReconciling, IntentRow
  <2>2. Live(i) /\ UNCHANGED <<ledger, trade>>
    BY <1>2 DEF ClaimReconciling, Live, Terminal
  <2> QED
    BY <2>1, <2>2 DEF RowStep, RowsStay
<1>3. ASSUME NEW t \in Trades, NEW terms \in Terms, ConcludeOpen(i, v, t, terms) PROVE RowStep
  BY <1>3, AcceptMoves DEF StepInv, IInv, ConcludeOpen, RowStep
<1>4. ASSUME NEW t \in Trades, NEW terms \in Terms, ConcludeClosed(i, v, t, terms) PROVE RowStep
  BY <1>4, SettleMoves DEF StepInv, IInv, ConcludeClosed, At, RowStep
<1>5. CASE RejectIntent(i, "reconciling", v, "reconciliation_not_found")
  BY <1>5, RejectRows DEF PlainReasons
<1>6. ASSUME NEW reason, reason \notin PlainReasons, HaltAccountForManualReview(i, v, reason)
      PROVE  RowStep
  <2>1. /\ intent[i].status = "reconciling"
        /\ MoveBy(i, 1, "manual_review", intent[i].held, reason)
    BY <1>6 DEF HaltAccountForManualReview, At, Move
  <2>2. <<intent[i].status, "manual_review">> \in Transitions
    BY <2>1 DEF Transitions
  <2> QED
    BY <1>6, <2>1, <2>2, PlainMoves DEF StepInv, IInv, HaltAccountForManualReview, RowStep
<1> QED
  BY <1>1, <1>2, <1>3, <1>4, <1>5, <1>6 DEF Reconciliation, PlainReasons

LEMMA ConclusionRows == ASSUME StepInv, NEW i \in Intents, Conclusion(i) PROVE RowStep
<1>1. ASSUME NEW t \in Trades, NEW terms \in Terms, NEW from \in {"accepted", "manual_review"},
             SettleIntent(i, AnyVersion, from, t, terms)
      PROVE RowStep
  <2>1. intent[i].status = from /\ MoveBy(i, 1, "settled", 0, intent[i].error)
    BY <1>1 DEF SettleIntent, At, Move
  <2> QED
    BY <1>1, <2>1, SettleMoves DEF StepInv, IInv, SettleIntent, RowStep
<1>2. CASE RejectIntent(i, "manual_review", AnyVersion, "broker_rejected")
  BY <1>2, RejectRows DEF PlainReasons
<1> QED
  BY <1>1, <1>2 DEF Conclusion

LEMMA DeliveryRows == ASSUME StepInv, NEW q, NEW i \in Intents, Delivery(q, i) PROVE RowStep
<1>1. CASE MarkPublished(q, i)
  BY <1>1, NoRowMoves DEF MarkPublished
<1>2. ASSUME NEW from, RecordDeliveryFailure(q, i, from) PROVE RowStep
  <2>1. CASE Exhausted(q, i) /\ intent[i].status = "queued"
    BY <1>2, <2>1, RejectMoves DEF StepInv, IInv, RecordDeliveryFailure, Move, RowStep
  <2>2. CASE ~(Exhausted(q, i) /\ intent[i].status = "queued")
    BY <1>2, <2>2, NoRowMoves DEF RecordDeliveryFailure
  <2> QED
    BY <2>1, <2>2
<1> QED
  BY <1>1, <1>2 DEF Delivery

\* Every transaction of the store is one of these, or leaves the rows alone.
LEMMA RowsStep == ASSUME StepInv, [StoreNext]_dbVars PROVE RowStep
<1>1. ASSUME NEW i \in Intents, Creation(i) PROVE RowStep
  BY <1>1, CreationRows
<1>2. ASSUME NEW i \in Intents, Refusal(i, intent[i].version) PROVE RowStep
  BY <1>2, RejectRows DEF Refusal, RejectExpiredIntent, RejectLateIntent, RejectPausedIntent
<1>3. ASSUME NEW i \in Intents, Submission(i, intent[i].version) PROVE RowStep
  BY <1>3, SubmissionRows
<1>4. ASSUME NEW i \in Intents, Reconciliation(i, intent[i].version) PROVE RowStep
  BY <1>4, ReconciliationRows
<1>5. ASSUME NEW i \in Intents, Conclusion(i) PROVE RowStep
  BY <1>5, ConclusionRows
<1>6. ASSUME NEW i \in Intents, NEW q \in Topics, Delivery(q, i) PROVE RowStep
  BY <1>6, DeliveryRows
<1>7. ASSUME NEW i \in Intents, NEW timer \in Timers, Elapse(i, timer) PROVE RowStep
  BY <1>7, NoRowMoves DEF Elapse
<1>8. CASE Edit
  BY <1>8, NoRowMoves
  DEF Edit, SetTrading, AdjustTokens, SetTradingMode, SwitchTradingModeOnDeposit, BlockUser,
      RevokeAccount, CreateTradingSession, StopSession
<1>9. CASE UNCHANGED dbVars
  BY <1>9, NoRowMoves DEF dbVars
<1> QED
  BY <1>1, <1>2, <1>3, <1>4, <1>5, <1>6, <1>7, <1>8, <1>9 DEF StoreNext

LEMMA AbsentStep == ASSUME StepInv, RowStep PROVE AbsentIsNew'
<1>1. CASE RowsStay
  BY <1>1 DEF StepInv, AbsentIsNew, RowsStay, Live
<1>2. ASSUME NEW i \in Intents, RowMoves(i) PROVE AbsentIsNew'
  <2>1. intent'[i].status # "absent"
    BY <1>2 DEF RowMoves, Transitions
  <2> QED
    BY <1>2, <2>1 DEF StepInv, AbsentIsNew, RowMoves
<1> QED
  BY <1>1, <1>2 DEF RowStep

-----------------------------------------------------------------------------
(* The specification                                                        *)

LEMMA InitHolds == StoreInit => IInv
<1> SUFFICES ASSUME StoreInit PROVE IInv
  OBVIOUS
<1>1. TypeOK
  BY StoreAssumption
  DEF StoreAssumption, StoreInit, TypeOK, UserRow, IntentRow, OutboxRow, Statuses, Reasons,
      NoRow, NoRows, NoLink
<1>2. RowsInv
  BY DEF StoreInit, RowsInv, TokenFollowsStatus, TradeFollowsStatus, WaitingHasDelivery,
         ReconciliationNeverGivenUp, Live, Terminal, NoRow, NoRows, NoLink, Kinds, Topics
<1> QED
  BY <1>1, <1>2 DEF IInv

\* The transactions of one intent, group by group.
LEMMA CreationStep == ASSUME IInv, NEW i \in Intents, Creation(i) PROVE IInv'
<1>1. CASE CreateIntent(i)
  BY <1>1, CreateStep
<1>2. CASE BeginCreate(i) \/ AbortCreate(i)
  BY <1>2, RowsFrame DEF IInv, TypeOK, BeginCreate, AbortCreate
<1> QED
  BY <1>1, <1>2 DEF Creation

LEMMA RefusalStep == ASSUME IInv, NEW i \in Intents, NEW v, Refusal(i, v) PROVE IInv'
<1>1. PICK reason \in Reasons : RejectIntent(i, "queued", v, reason)
  BY DEF Refusal, RejectExpiredIntent, RejectLateIntent, RejectPausedIntent, Reasons
<1> QED
  BY <1>1, RejectStep

LEMMA SubmissionStep == ASSUME IInv, NEW i \in Intents, NEW v, Submission(i, v) PROVE IInv'
<1>1. CASE TakeIntent(i, v)
  <2>1. intent[i].status = "queued" /\ intent[i].error \in Reasons
    <3>1. intent[i] \in IntentRow
      BY DEF IInv, TypeOK
    <3> QED
      BY <1>1, <3>1 DEF TakeIntent, MayTake, At, IntentRow
  <2>2. Live(i) /\ trade[i].status = "none"
    <3>1. trade[i].status \in {"none", "open", "closed"}
      BY DEF IInv, TypeOK
    <3> QED
      BY <2>1, <3>1 DEF IInv, RowsInv, TradeFollowsStatus, Live, Terminal
  <2>3. account' \in [Accounts -> [status : {"active", "revoked"}, halted : BOOLEAN]]
    BY <1>1 DEF IInv, TypeOK, TakeIntent
  <2> QED
    BY <1>1, <2>1, <2>2, <2>3, PlainMoveStep DEF TakeIntent, Move
<1>2. CASE RejectIntent(i, "submitting", v, "broker_rejected")
  BY <1>2, RejectStep DEF Reasons
<1>3. CASE \E w, aged : \E reason \in Reasons : MarkIntentUnknown(i, w, reason, aged)
  BY <1>3, UnknownStep
<1>4. ASSUME NEW t \in Trades, NEW terms \in Terms,
             MarkIntentAccepted(i, v, "submitting", t, terms)
      PROVE IInv'
  BY <1>4, AcceptStep
<1>5. \/ TakeIntent(i, v) \/ RejectIntent(i, "submitting", v, "broker_rejected")
      \/ \E w, aged : \E reason \in Reasons : MarkIntentUnknown(i, w, reason, aged)
      \/ \E t \in Trades, terms \in Terms : MarkIntentAccepted(i, v, "submitting", t, terms)
  BY DEF Submission, Reasons
<1> QED
  BY <1>1, <1>2, <1>3, <1>4, <1>5

LEMMA ReconciliationStep ==
  ASSUME IInv, NEW i \in Intents, NEW v, Reconciliation(i, v) PROVE IInv'
<1> DEFINE AccountRows == [Accounts -> [status : {"active", "revoked"}, halted : BOOLEAN]]
<1>1. intent[i].error \in Reasons
  <2>1. intent[i] \in IntentRow
    BY DEF IInv, TypeOK
  <2> QED
    BY <2>1 DEF IntentRow
<1>2. ASSUME intent[i].status \in {"unknown", "reconciling"}
      PROVE  /\ Live(i) /\ trade[i].status = "none"
             /\ outbox["trading-reconciliation"][i].status \in {"pending", "published"}
  <2>1. trade[i].status \in {"none", "open", "closed"}
    BY DEF IInv, TypeOK
  <2> QED
    BY <1>2, <2>1 DEF IInv, RowsInv, TradeFollowsStatus, WaitingHasDelivery, Live, Terminal
<1>3. CASE StartReconciling(i, v)
  <2>1. intent[i].status = "unknown" /\ account' \in AccountRows
    BY <1>3 DEF IInv, TypeOK, StartReconciling, At
  <2> QED
    BY <1>1, <1>2, <1>3, <2>1, PlainMoveStep DEF StartReconciling, Move
<1>4. CASE ClaimReconciling(i)
  BY <1>4, ClaimStep
<1>5. ASSUME NEW t \in Trades, NEW terms \in Terms, ConcludeOpen(i, v, t, terms) PROVE IInv'
  BY <1>5, AcceptStep DEF ConcludeOpen
<1>6. ASSUME NEW t \in Trades, NEW terms \in Terms, ConcludeClosed(i, v, t, terms) PROVE IInv'
  <2>1. intent[i].status = "reconciling" /\ ~LinkedElsewhere(i, t)
    BY <1>6 DEF ConcludeClosed, At, Mismatch
  <2> QED
    BY <1>2, <1>6, <2>1, SettleStep DEF ConcludeClosed
<1>7. CASE RejectIntent(i, "reconciling", v, "reconciliation_not_found")
  BY <1>7, RejectStep DEF Reasons
<1>8. ASSUME NEW reason \in Reasons, HaltAccountForManualReview(i, v, reason) PROVE IInv'
  <2>1. intent[i].status = "reconciling"
    BY <1>8 DEF HaltAccountForManualReview, At
  <2>2. account' \in AccountRows
    BY ZenonT(60), <1>8 DEF IInv, TypeOK, HaltAccountForManualReview
  <2> QED
    BY <1>2, <1>8, <2>1, <2>2, PlainMoveStep DEF HaltAccountForManualReview, Move
<1> QED
  BY <1>3, <1>4, <1>5, <1>6, <1>7, <1>8 DEF Reconciliation, Reasons

LEMMA ConclusionStep == ASSUME IInv, NEW i \in Intents, Conclusion(i) PROVE IInv'
<1>1. ASSUME NEW t \in Trades, NEW terms \in Terms, NEW from \in {"accepted", "manual_review"},
             SettleIntent(i, AnyVersion, from, t, terms)
      PROVE IInv'
  <2>1. Live(i)
    BY <1>1 DEF SettleIntent, At, Live, Terminal
  <2>2. trade[i].id = t \/ ~LinkedElsewhere(i, t)
    BY <1>1 DEF SettleIntent, Mismatch
  <2> QED
    BY <1>1, <2>1, <2>2, SettleStep DEF SettleIntent, Move
<1>2. CASE RejectIntent(i, "manual_review", AnyVersion, "broker_rejected")
  BY <1>2, RejectStep DEF Reasons
<1> QED
  BY <1>1, <1>2 DEF Conclusion

LEMMA DeliveryStep ==
  ASSUME IInv, NEW q \in Topics, NEW i \in Intents, Delivery(q, i) PROVE IInv'
BY PublishStep, FailureStep DEF Delivery

LEMMA ElapseStep ==
  ASSUME IInv, NEW i \in Intents, NEW timer \in Timers, Elapse(i, timer) PROVE IInv'
BY RowsFrame DEF IInv, TypeOK, Elapse

LEMMA StepHolds == IInv /\ [StoreNext]_dbVars => IInv'
<1> SUFFICES ASSUME IInv, [StoreNext]_dbVars PROVE IInv'
  OBVIOUS
<1>1. ASSUME NEW i \in Intents, Creation(i) PROVE IInv'
  BY <1>1, CreationStep
<1>2. ASSUME NEW i \in Intents, Refusal(i, intent[i].version) PROVE IInv'
  BY <1>2, RefusalStep
<1>3. ASSUME NEW i \in Intents, Submission(i, intent[i].version) PROVE IInv'
  BY <1>3, SubmissionStep
<1>4. ASSUME NEW i \in Intents, Reconciliation(i, intent[i].version) PROVE IInv'
  BY <1>4, ReconciliationStep
<1>5. ASSUME NEW i \in Intents, Conclusion(i) PROVE IInv'
  BY <1>5, ConclusionStep
<1>6. ASSUME NEW i \in Intents, NEW q \in Topics, Delivery(q, i) PROVE IInv'
  BY <1>6, DeliveryStep
<1>7. ASSUME NEW i \in Intents, NEW timer \in Timers, Elapse(i, timer) PROVE IInv'
  BY <1>7, ElapseStep
<1>8. CASE Edit
  BY <1>8, EditStep
<1>9. CASE UNCHANGED dbVars
  BY <1>9, RowsFrame DEF IInv, TypeOK, dbVars
<1> QED
  BY <1>1, <1>2, <1>3, <1>4, <1>5, <1>6, <1>7, <1>8, <1>9 DEF StoreNext

\* The whole invariant, for use by the theorems below and by the refinement.
THEOREM StoreInvariant == StoreSpec => []IInv
BY InitHolds, StepHolds, PTL DEF StoreSpec

\* Every column stays in its domain; the token cache never goes below zero
\* (users_token_balance_check), whoever writes it.
THEOREM StoreTypes == StoreSpec => []TypeOK
<1>1. IInv => TypeOK
  BY DEF IInv
<1> QED
  BY <1>1, StoreInvariant, PTL

\* A live intent holds its one token, a finished one released it or spent it, exactly
\* once, whichever of the rejections and settlements ended it.
THEOREM TokensFollowStatuses == StoreSpec => []TokenFollowsStatus
<1>1. IInv => TokenFollowsStatus
  BY DEF IInv, RowsInv
<1> QED
  BY <1>1, StoreInvariant, PTL

\* broker_trades and trade_intents agree, and a broker trade of an account backs one
\* intent: markIntentAccepted, settleIntent and concludeReconciled keep the link.
THEOREM TradesFollowStatuses == StoreSpec => []TradeFollowsStatus
<1>1. IInv => TradeFollowsStatus
  BY DEF IInv, RowsInv
<1> QED
  BY <1>1, StoreInvariant, PTL

\* The outbox never gives up on an intent that still waits for it: the policy of the
\* publisher and the rejection inside recordDeliveryFailure.
THEOREM WaitingKeepsDelivery == StoreSpec => []WaitingHasDelivery
<1>1. IInv => WaitingHasDelivery
  BY DEF IInv, RowsInv
<1> QED
  BY <1>1, StoreInvariant, PTL

-----------------------------------------------------------------------------
(* The steps of a row                                                       *)

LEMMA StepInvariant == StoreSpec => []StepInv
<1>1. StoreInit => StepInv
  <2>1. StoreInit => AbsentIsNew
    BY DEF StoreInit, AbsentIsNew
  <2> QED
    BY <2>1, InitHolds DEF StepInv
<1>2. StepInv /\ [StoreNext]_dbVars => StepInv'
  BY StepHolds, RowsStep, AbsentStep DEF StepInv
<1> QED
  BY <1>1, <1>2, PTL DEF StoreSpec

\* Every change of a status is an edge of TRADE_INTENT_TRANSITIONS with its version, and a
\* finished intent keeps its outcome, its ledger rows and its trade: transitionIntent's CAS on
\* the status (trade-intent-ops.ts), which the database's trigger only backs up.
THEOREM RowsMoveAlongTheGraph == StoreSpec => RowsMoveOn
<1> DEFINE Edge(i) ==
      LET from == intent[i].status
          to == intent'[i].status
          moved == intent'[i].version - intent[i].version
      IN  from # to =>
            \/ <<from, to>> \in Transitions /\ moved = IF from = "absent" THEN 3 ELSE 1
            \/ <<from, to>> = <<"reconciling", "settled">> /\ moved = 2
    Frozen(i) == intent[i].status \in Terminal => UNCHANGED <<intent[i], ledger[i], trade[i]>>
<1>1. ASSUME StepInv, [StoreNext]_dbVars, NEW i \in Intents PROVE Edge(i) /\ Frozen(i)
  <2>1. RowStep
    BY <1>1, RowsStep
  <2>2. CASE RowsStay
    BY <2>2 DEF RowsStay, Live
  <2>3. ASSUME NEW j \in Intents, RowMoves(j) PROVE Edge(i) /\ Frozen(i)
    <3>1. CASE i = j
      <4>1. intent[j].status \notin Terminal
        BY <2>3 DEF RowMoves, Transitions, Terminal
      <4> QED
        BY <2>3, <3>1, <4>1 DEF RowMoves
    <3>2. CASE i # j
      BY <2>3, <3>2 DEF RowMoves
    <3> QED
      BY <3>1, <3>2
  <2> QED
    BY <2>1, <2>2, <2>3 DEF RowStep
<1>2. StepInv /\ [StoreNext]_dbVars => [\A i \in Intents : Edge(i)]_dbVars
  BY <1>1
<1>3. StepInv /\ [StoreNext]_dbVars => [\A i \in Intents : Frozen(i)]_dbVars
  BY <1>1
<1>4. StoreSpec => [][\A i \in Intents : Edge(i)]_dbVars
  BY <1>2, StepInvariant, PTL DEF StoreSpec
<1>5. StoreSpec => [][\A i \in Intents : Frozen(i)]_dbVars
  BY <1>3, StepInvariant, PTL DEF StoreSpec
<1> QED
  BY <1>4, <1>5 DEF RowsMoveOn, StatusSteps, FinishedIsFrozen

-----------------------------------------------------------------------------
(* The sessions and the mode of their user                                  *)

\* No user changes the mode, and no session starts.
ModesStand ==
  /\ \A u \in Users : user'[u].mode = user[u].mode
  /\ \A s \in Sessions : session'[s] = "active" => session[s] = "active"

SessionInv == TypeOK /\ SessionRunsInUserMode

LEMMA OwnersAreUsers == \A s \in Sessions : OwnerOf[SessionAccount[s]] \in Users
BY StoreAssumption DEF StoreAssumption

LEMMA ModesStandStep ==
  ASSUME SessionInv, ModesStand PROVE SessionRunsInUserMode'
BY OwnersAreUsers DEF SessionInv, SessionRunsInUserMode, ModesStand

\* The reserve, the release and the debit of a token leave the mode alone.
LEMMA TokensKeepModes ==
  ASSUME TypeOK, NEW i \in Intents,
         \/ UNCHANGED user
         \/ ReleaseTokens(i)
         \/ ConsumeTokens(i)
         \/ user' = [user EXCEPT ![UserOf(i)].reserved = @ + 1],
         UNCHANGED session
  PROVE  ModesStand
<1>1. \A u \in Users : user[u] \in UserRow
  BY DEF TypeOK
<1>2. \A u \in Users : user'[u].mode = user[u].mode
  BY SMTT(30), <1>1 DEF TypeOK, ReleaseTokens, ConsumeTokens, UserRow
<1> QED
  BY <1>2 DEF ModesStand

\* No transaction of an intent touches a mode or a session.
LEMMA IntentKeepsModes ==
  ASSUME TypeOK, NEW i \in Intents, NEW v,
         \/ Creation(i) \/ Refusal(i, v) \/ Submission(i, v) \/ Reconciliation(i, v)
         \/ Conclusion(i) \/ \E q \in Topics : Delivery(q, i)
         \/ \E timer \in Timers : Elapse(i, timer)
  PROVE  ModesStand
<1>1. UNCHANGED session
  BY DEF Creation, BeginCreate, CreateIntent, AbortCreate, Refusal, RejectExpiredIntent,
         RejectLateIntent, RejectPausedIntent, RejectIntent, Submission, TakeIntent,
         MarkIntentUnknown, MarkIntentAccepted, Reconciliation, StartReconciling,
         ClaimReconciling, ConcludeOpen, ConcludeClosed, HaltAccountForManualReview,
         Conclusion, SettleIntent, Delivery, MarkPublished, RecordDeliveryFailure, Elapse
<1>2. \/ UNCHANGED user \/ ReleaseTokens(i) \/ ConsumeTokens(i)
      \/ user' = [user EXCEPT ![UserOf(i)].reserved = @ + 1]
  <2>1. CASE Creation(i)
    BY <2>1 DEF Creation, BeginCreate, CreateIntent, AbortCreate
  <2>2. CASE Refusal(i, v)
    BY <2>2 DEF Refusal, RejectExpiredIntent, RejectLateIntent, RejectPausedIntent, RejectIntent
  <2>3. CASE Submission(i, v)
    BY <2>3 DEF Submission, TakeIntent, RejectIntent, MarkIntentUnknown, MarkIntentAccepted
  <2>4. CASE Reconciliation(i, v)
    BY <2>4 DEF Reconciliation, StartReconciling, ClaimReconciling, ConcludeOpen,
                ConcludeClosed, RejectIntent, HaltAccountForManualReview, MarkIntentAccepted
  <2>5. CASE Conclusion(i)
    BY <2>5 DEF Conclusion, SettleIntent, RejectIntent
  <2>6. CASE \E q \in Topics : Delivery(q, i)
    BY <2>6 DEF Delivery, MarkPublished, RecordDeliveryFailure
  <2>7. CASE \E timer \in Timers : Elapse(i, timer)
    BY <2>7 DEF Elapse
  <2> QED
    BY <2>1, <2>2, <2>3, <2>4, <2>5, <2>6, <2>7
<1> QED
  BY <1>1, <1>2, TokensKeepModes

LEMMA EditKeepsSessions == ASSUME SessionInv, Edit PROVE SessionRunsInUserMode'
<1> USE DEF SessionInv
<1>1. \A u \in Users : user[u] \in UserRow
  BY DEF TypeOK
<1>2. ASSUME NEW open \in BOOLEAN, SetTrading(open) PROVE ModesStand
  BY <1>2 DEF SetTrading, ModesStand
<1>3. ASSUME NEW u \in Users, NEW delta \in {-1, 1}, AdjustTokens(u, delta) PROVE ModesStand
  BY <1>1, <1>3 DEF TypeOK, UserRow, AdjustTokens, ModesStand
<1>4. ASSUME NEW u \in Users, NEW mode \in Modes, SetTradingMode(u, mode)
      PROVE  SessionRunsInUserMode'
  <2>1. \A w \in Users : w # u => user'[w].mode = user[w].mode
    BY <1>1, <1>4 DEF TypeOK, UserRow, SetTradingMode
  <2>2. \A s \in Sessions : session'[s] = "active" =>
          session[s] = "active" /\ OwnerOf[SessionAccount[s]] # u
    BY <1>4 DEF TypeOK, SetTradingMode
  <2> QED
    BY <2>1, <2>2, OwnersAreUsers DEF SessionRunsInUserMode
<1>5. ASSUME NEW u \in Users, NEW a \in Accounts, SwitchTradingModeOnDeposit(u, a)
      PROVE  SessionRunsInUserMode'
  <2>1. \A w \in Users : w # u => user'[w].mode = user[w].mode
    BY <1>1, <1>5 DEF TypeOK, UserRow, SwitchTradingModeOnDeposit
  <2>2. \A s \in Sessions : session'[s] = "active" =>
          session[s] = "active" /\ OwnerOf[SessionAccount[s]] # u
    BY <1>5 DEF SwitchTradingModeOnDeposit
  <2> QED
    BY <2>1, <2>2, OwnersAreUsers DEF SessionRunsInUserMode
<1>6. ASSUME NEW u \in Users, BlockUser(u) PROVE ModesStand
  BY <1>1, <1>6 DEF TypeOK, UserRow, BlockUser, ModesStand
<1>7. ASSUME NEW a \in Accounts, RevokeAccount(a) PROVE ModesStand
  BY <1>7 DEF RevokeAccount, ModesStand
<1>8. ASSUME NEW s \in Sessions, CreateTradingSession(s) PROVE SessionRunsInUserMode'
  <2>1. /\ user[OwnerOf[SessionAccount[s]]].mode = SessionMode[s]
        /\ session' = [session EXCEPT ![s] = "active"] /\ UNCHANGED user
    BY <1>8 DEF CreateTradingSession
  <2> QED
    BY <2>1 DEF TypeOK, SessionRunsInUserMode
<1>9. ASSUME NEW s \in Sessions, StopSession(s) PROVE ModesStand
  BY <1>9 DEF TypeOK, StopSession, ModesStand
<1> QED
  BY <1>2, <1>3, <1>4, <1>5, <1>6, <1>7, <1>8, <1>9, ModesStandStep DEF Edit

\* No trading session runs in another mode than its user's, whatever the order of a session's
\* start, the user's change of mode and the switch a deposit makes (#327).
THEOREM SessionsKeepTheMode == StoreSpec => []SessionRunsInUserMode
<1>1. StoreInit => SessionRunsInUserMode
  BY DEF StoreInit, SessionRunsInUserMode
<1>2. TypeOK /\ SessionRunsInUserMode /\ [StoreNext]_dbVars => SessionRunsInUserMode'
  <2> SUFFICES ASSUME SessionInv, [StoreNext]_dbVars PROVE SessionRunsInUserMode'
    BY DEF SessionInv
  <2>1. ASSUME NEW i \in Intents, NEW v,
               \/ Creation(i) \/ Refusal(i, v) \/ Submission(i, v) \/ Reconciliation(i, v)
               \/ Conclusion(i) \/ \E q \in Topics : Delivery(q, i)
               \/ \E timer \in Timers : Elapse(i, timer)
        PROVE  SessionRunsInUserMode'
    BY <2>1, IntentKeepsModes, ModesStandStep DEF SessionInv
  <2>2. CASE Edit
    BY <2>2, EditKeepsSessions
  <2>3. CASE UNCHANGED dbVars
    BY <2>3 DEF SessionInv, SessionRunsInUserMode, dbVars
  <2> QED
    BY <2>1, <2>2, <2>3 DEF StoreNext
<1> QED
  BY <1>1, <1>2, StoreTypes, PTL DEF StoreSpec

-----------------------------------------------------------------------------
(***************************************************************************)
(* The database implements TokenEscrow: every transaction holds, releases or *)
(* consumes one token, credits one user, or leaves the tokens alone.        *)
(*                                                                         *)
(* IInv makes the phase of a token a function of the intent's status, and   *)
(* the rest of the proof says what each transaction does to statuses and to *)
(* the cache.                                                              *)
(***************************************************************************)

\* The refinement mapping of IntentStore!Escrow, by name.
Balance  == [u \in Users |-> user[u].balance]
Reserved == [u \in Users |-> user[u].reserved]
Phase    == [i \in Intents |-> CASE intent[i].held = 1 -> "held"
                                 [] intent[i].status = "rejected" -> "released"
                                 [] intent[i].status = "settled" -> "consumed"
                                 [] OTHER -> "idle"]

\* Not part of the escrow: the sum of the credits and debits of other writers.
Credited == [u \in Users |-> user[u].credited]

StatusPhase(status) == CASE status = "absent"   -> "idle"
                         [] status = "rejected" -> "released"
                         [] status = "settled"  -> "consumed"
                         [] OTHER               -> "held"

-----------------------------------------------------------------------------
(* The abstract actions, in terms of the mapping                            *)

LEMMA HoldMaps ==
  ASSUME NEW i \in Intents, Phase[i] = "idle",
         Balance[UserOf(i)] - Reserved[UserOf(i)] >= 1,
         Phase' = [Phase EXCEPT ![i] = "held"],
         Reserved' = [Reserved EXCEPT ![UserOf(i)] = @ + 1], Balance' = Balance
  PROVE  Escrow!Hold(i)
BY DEF Escrow!Hold, Phase, Reserved, Balance

LEMMA ReleaseMaps ==
  ASSUME NEW i \in Intents, Phase[i] = "held",
         Phase' = [Phase EXCEPT ![i] = "released"],
         Reserved' = [Reserved EXCEPT ![UserOf(i)] = @ - 1], Balance' = Balance
  PROVE  Escrow!Release(i)
BY DEF Escrow!Release, Phase, Reserved, Balance

LEMMA ConsumeMaps ==
  ASSUME NEW i \in Intents, Phase[i] = "held",
         Phase' = [Phase EXCEPT ![i] = "consumed"],
         Reserved' = [Reserved EXCEPT ![UserOf(i)] = @ - 1],
         Balance' = [Balance EXCEPT ![UserOf(i)] = @ - 1]
  PROVE  Escrow!Consume(i)
BY DEF Escrow!Consume, Phase, Reserved, Balance

LEMMA CreditMaps ==
  ASSUME NEW u \in Users, Balance'[u] \in Int, Balance'[u] >= Reserved[u],
         Balance' = [Balance EXCEPT ![u] = Balance'[u]],
         Reserved' = Reserved, Phase' = Phase
  PROVE  Escrow!Credit(u)
BY DEF Escrow!Credit, Phase, Reserved, Balance

-----------------------------------------------------------------------------
(* The mapping, status by status and row by row                             *)

LEMMA PhaseOfStatus ==
  ASSUME IInv, NEW i \in Intents PROVE Phase[i] = StatusPhase(intent[i].status)
<1>1. intent[i].held = IF intent[i].status \in {"settled", "rejected", "absent"} THEN 0 ELSE 1
  BY DEF IInv, RowsInv, TokenFollowsStatus, Live, Terminal
<1> QED
  BY <1>1 DEF Phase, StatusPhase

\* A transaction moves one intent, and its phase alone.
LEMMA PhaseAfter ==
  ASSUME IInv, IInv', NEW i \in Intents,
         \A j \in Intents : j # i => intent'[j].status = intent[j].status
  PROVE  Phase' = [Phase EXCEPT ![i] = StatusPhase(intent'[i].status)]
<1>1. \A j \in Intents : Phase[j] = StatusPhase(intent[j].status)
  BY PhaseOfStatus
<1>2. \A j \in Intents : Phase'[j] = StatusPhase(intent'[j].status)
  <2>1. \A j \in Intents : intent'[j].held =
                            IF intent'[j].status \in {"settled", "rejected", "absent"} THEN 0 ELSE 1
    BY DEF IInv, RowsInv, TokenFollowsStatus, Live, Terminal
  <2> QED
    BY <2>1 DEF Phase, StatusPhase
<1>3. /\ Phase = [j \in Intents |-> Phase[j]]
      /\ Phase' = [j \in Intents |-> Phase'[j]]
  BY DEF Phase
<1> HIDE DEF Phase
<1> QED
  BY <1>1, <1>2, <1>3

\* A transaction that leaves the cache and the phase of its intent is a stutter.
LEMMA Silent ==
  ASSUME IInv, IInv', Balance' = Balance, Reserved' = Reserved, NEW i \in Intents,
         \A j \in Intents : j # i => intent'[j].status = intent[j].status,
         StatusPhase(intent'[i].status) = StatusPhase(intent[i].status)
  PROVE  UNCHANGED Escrow!vars
<1>1. Phase' = [Phase EXCEPT ![i] = Phase[i]]
  BY PhaseAfter, PhaseOfStatus
<1>2. Phase' = Phase
  <2>1. Phase = [j \in Intents |-> Phase[j]]
    BY DEF Phase
  <2> HIDE DEF Phase
  <2> QED
    BY <1>1, <2>1
<1> QED
  BY <1>2 DEF Escrow!vars, Phase, Balance, Reserved

\* releaseTokens with the move to rejected, in any transaction.
LEMMA Releases ==
  ASSUME IInv, IInv', NEW i \in Intents, NEW reason, Live(i),
         MoveBy(i, 1, "rejected", 0, reason), ReleaseTokens(i)
  PROVE  Escrow!Release(i) /\ Credited' = Credited
<1>1. UserOf(i) \in Users /\ user \in [Users -> UserRow] /\ intent[i].held = 1
  BY UserOfType DEF IInv, TypeOK, RowsInv, TokenFollowsStatus
<1>2. /\ Reserved' = [Reserved EXCEPT ![UserOf(i)] = @ - 1]
      /\ Balance' = Balance /\ Credited' = Credited
  BY <1>1 DEF Reserved, Balance, Credited, ReleaseTokens, UserRow
<1>3. /\ intent'[i].status = "rejected"
      /\ \A j \in Intents : j # i => intent'[j] = intent[j]
  BY MoveByFacts DEF IInv
<1>4. Phase' = [Phase EXCEPT ![i] = "released"]
  BY <1>3, PhaseAfter DEF StatusPhase
<1>5. Phase[i] = "held"
  BY PhaseOfStatus DEF StatusPhase, Live, Terminal
<1> QED
  BY <1>2, <1>4, <1>5, ReleaseMaps

\* consumeTokens with the move to settled.
LEMMA Consumes ==
  ASSUME IInv, IInv', NEW i \in Intents, NEW edges, NEW error, Live(i),
         MoveBy(i, edges, "settled", 0, error), ConsumeTokens(i)
  PROVE  Escrow!Consume(i) /\ Credited' = Credited
<1>1. UserOf(i) \in Users /\ user \in [Users -> UserRow] /\ intent[i].held = 1
  BY UserOfType DEF IInv, TypeOK, RowsInv, TokenFollowsStatus
<1>2. /\ Reserved' = [Reserved EXCEPT ![UserOf(i)] = @ - 1]
      /\ Balance' = [Balance EXCEPT ![UserOf(i)] = @ - 1]
      /\ Credited' = Credited
  BY <1>1 DEF Reserved, Balance, Credited, ConsumeTokens, UserRow
<1>3. /\ intent'[i].status = "settled"
      /\ \A j \in Intents : j # i => intent'[j] = intent[j]
  BY MoveByFacts DEF IInv
<1>4. Phase' = [Phase EXCEPT ![i] = "consumed"]
  BY <1>3, PhaseAfter DEF StatusPhase
<1>5. Phase[i] = "held"
  BY PhaseOfStatus DEF StatusPhase, Live, Terminal
<1> QED
  BY <1>2, <1>4, <1>5, ConsumeMaps

\* createTradeIntent's commit, under the predicate of its reserve UPDATE.
LEMMA Holds ==
  ASSUME IInv, IInv', NEW i \in Intents, CreateIntent(i)
  PROVE  Escrow!Hold(i) /\ Credited' = Credited
<1>1. UserOf(i) \in Users /\ user \in [Users -> UserRow]
  BY UserOfType DEF IInv, TypeOK
<1>2. Balance[UserOf(i)] - Reserved[UserOf(i)] >= 1
  BY <1>1 DEF CreateIntent, MayCreate, Balance, Reserved
<1>3. /\ Reserved' = [Reserved EXCEPT ![UserOf(i)] = @ + 1]
      /\ Balance' = Balance /\ Credited' = Credited
  BY <1>1 DEF Reserved, Balance, Credited, CreateIntent, UserRow
<1>4. /\ intent[i].status = "absent" /\ intent'[i].status = "queued"
      /\ \A j \in Intents : j # i => intent'[j] = intent[j]
  BY DEF CreateIntent, MayCreate, IInv, TypeOK
<1>5. Phase' = [Phase EXCEPT ![i] = "held"]
  BY <1>4, PhaseAfter DEF StatusPhase
<1>6. Phase[i] = "idle"
  BY <1>4, PhaseOfStatus DEF StatusPhase
<1> QED
  BY <1>2, <1>3, <1>5, <1>6, HoldMaps

-----------------------------------------------------------------------------
(* Every transaction is a step of the escrow, or none of its business        *)

EscrowStep == [Escrow!Next]_Escrow!vars

\* What every transaction but an adjustment does.
TokenStep ==
  /\ \/ \E i \in Intents : Escrow!Hold(i) \/ Escrow!Release(i) \/ Escrow!Consume(i)
     \/ UNCHANGED Escrow!vars
  /\ Credited' = Credited

\* A transaction that moves no status and leaves the cache.
LEMMA Idles == ASSUME UNCHANGED <<user, intent>> PROVE TokenStep
BY DEF TokenStep, Credited, Escrow!vars

\* A move between two live statuses of a row that keeps its token.
LEMMA Moves ==
  ASSUME IInv, IInv', NEW i \in Intents, NEW to \in Statuses \ (Terminal \cup {"absent"}),
         NEW held, NEW error, Live(i), MoveBy(i, 1, to, held, error), UNCHANGED user
  PROVE  TokenStep
<1>1. /\ intent'[i].status = to
      /\ \A j \in Intents : j # i => intent'[j] = intent[j]
  BY MoveByFacts DEF IInv
<1>2. StatusPhase(intent'[i].status) = StatusPhase(intent[i].status)
  BY <1>1 DEF StatusPhase, Live, Terminal
<1>3. Balance' = Balance /\ Reserved' = Reserved /\ Credited' = Credited
  BY DEF Balance, Reserved, Credited
<1>4. UNCHANGED Escrow!vars
  BY <1>1, <1>2, <1>3, Silent
<1> QED
  BY <1>3, <1>4 DEF TokenStep

LEMMA RejectMaps ==
  ASSUME IInv, IInv', NEW i \in Intents, NEW v, NEW reason,
         NEW from \in {"queued", "submitting", "reconciling", "manual_review"},
         RejectIntent(i, from, v, reason)
  PROVE  TokenStep
<1>1. Live(i)
  BY DEF RejectIntent, At, Live, Terminal
<1>2. Escrow!Release(i) /\ Credited' = Credited
  BY <1>1, Releases DEF RejectIntent, Move
<1> QED
  BY <1>2 DEF TokenStep

LEMMA CreationMaps ==
  ASSUME IInv, IInv', NEW i \in Intents, Creation(i) PROVE TokenStep
<1>1. CASE CreateIntent(i)
  BY <1>1, Holds DEF TokenStep
<1>2. CASE BeginCreate(i) \/ AbortCreate(i)
  BY <1>2, Idles DEF BeginCreate, AbortCreate
<1> QED
  BY <1>1, <1>2 DEF Creation

LEMMA RefusalMaps ==
  ASSUME IInv, IInv', NEW i \in Intents, NEW v, Refusal(i, v) PROVE TokenStep
<1>1. PICK reason \in Reasons : RejectIntent(i, "queued", v, reason)
  BY DEF Refusal, RejectExpiredIntent, RejectLateIntent, RejectPausedIntent, Reasons
<1> QED
  BY <1>1, RejectMaps

LEMMA SubmissionMaps ==
  ASSUME IInv, IInv', NEW i \in Intents, NEW v, Submission(i, v) PROVE TokenStep
<1> USE DEF Terminal, Statuses, Live, At, Move
<1>1. CASE TakeIntent(i, v)
  BY <1>1, Moves DEF TakeIntent, MayTake
<1>2. CASE RejectIntent(i, "submitting", v, "broker_rejected")
  BY <1>2, RejectMaps
<1>3. CASE \E w, aged : \E reason \in Reasons : MarkIntentUnknown(i, w, reason, aged)
  BY <1>3, Moves DEF MarkIntentUnknown
<1>4. CASE \E t \in Trades, terms \in Terms : MarkIntentAccepted(i, v, "submitting", t, terms)
  BY <1>4, Moves DEF MarkIntentAccepted
<1>5. \/ TakeIntent(i, v) \/ RejectIntent(i, "submitting", v, "broker_rejected")
      \/ \E w, aged : \E reason \in Reasons : MarkIntentUnknown(i, w, reason, aged)
      \/ \E t \in Trades, terms \in Terms : MarkIntentAccepted(i, v, "submitting", t, terms)
  BY DEF Submission, Reasons
<1> QED
  BY <1>1, <1>2, <1>3, <1>4, <1>5

LEMMA ReconciliationMaps ==
  ASSUME IInv, IInv', NEW i \in Intents, NEW v, Reconciliation(i, v) PROVE TokenStep
<1> USE DEF Terminal, Statuses, Live, At, Move
<1>1. CASE StartReconciling(i, v)
  BY <1>1, Moves DEF StartReconciling
<1>2. CASE ClaimReconciling(i)
  <2>1. \A j \in Intents : intent'[j].status = intent[j].status
    BY <1>2 DEF ClaimReconciling, IInv, TypeOK, IntentRow
  <2>2. Balance' = Balance /\ Reserved' = Reserved /\ Credited' = Credited
    BY <1>2 DEF ClaimReconciling, Balance, Reserved, Credited
  <2>3. UNCHANGED Escrow!vars
    BY <2>1, <2>2, Silent
  <2> QED
    BY <2>2, <2>3 DEF TokenStep
<1>3. CASE \E t \in Trades, terms \in Terms : ConcludeOpen(i, v, t, terms)
  BY <1>3, Moves DEF ConcludeOpen, MarkIntentAccepted
<1>4. CASE \E t \in Trades, terms \in Terms : ConcludeClosed(i, v, t, terms)
  <2>1. Escrow!Consume(i) /\ Credited' = Credited
    BY <1>4, Consumes DEF ConcludeClosed
  <2> QED
    BY <2>1 DEF TokenStep
<1>5. CASE RejectIntent(i, "reconciling", v, "reconciliation_not_found")
  BY <1>5, RejectMaps
<1>6. CASE \E reason \in Reasons : HaltAccountForManualReview(i, v, reason)
  BY <1>6, Moves DEF HaltAccountForManualReview
<1> QED
  BY <1>1, <1>2, <1>3, <1>4, <1>5, <1>6 DEF Reconciliation, Reasons

LEMMA ConclusionMaps ==
  ASSUME IInv, IInv', NEW i \in Intents, Conclusion(i) PROVE TokenStep
<1>1. CASE \E t \in Trades, terms \in Terms, from \in {"accepted", "manual_review"} :
             SettleIntent(i, AnyVersion, from, t, terms)
  <2>1. Escrow!Consume(i) /\ Credited' = Credited
    BY <1>1, Consumes DEF SettleIntent, Move, At, Live, Terminal
  <2> QED
    BY <2>1 DEF TokenStep
<1>2. CASE RejectIntent(i, "manual_review", AnyVersion, "broker_rejected")
  BY <1>2, RejectMaps
<1> QED
  BY <1>1, <1>2 DEF Conclusion

\* A delivery that is given up releases the token of an intent still queued.
LEMMA DeliveryMaps ==
  ASSUME IInv, IInv', NEW q \in Topics, NEW i \in Intents, Delivery(q, i) PROVE TokenStep
<1>1. CASE MarkPublished(q, i)
  BY <1>1, Idles DEF MarkPublished
<1>2. ASSUME NEW from \in {"pending", "published"}, RecordDeliveryFailure(q, i, from)
      PROVE  TokenStep
  <2>1. CASE Exhausted(q, i) /\ intent[i].status = "queued"
    <3>1. Escrow!Release(i) /\ Credited' = Credited
      BY <1>2, <2>1, Releases DEF RecordDeliveryFailure, Move, Live, Terminal
    <3> QED
      BY <3>1 DEF TokenStep
  <2>2. CASE ~(Exhausted(q, i) /\ intent[i].status = "queued")
    BY <1>2, <2>2, Idles DEF RecordDeliveryFailure
  <2> QED
    BY <2>1, <2>2
<1> QED
  BY <1>1, <1>2 DEF Delivery

\* adjustTokens credits one user, never below what he holds.
LEMMA AdjustMaps ==
  ASSUME IInv, NEW u \in Users, NEW delta \in {-1, 1}, AdjustTokens(u, delta)
  PROVE  Escrow!Credit(u)
<1>1. user \in [Users -> UserRow]
  BY DEF IInv, TypeOK
<1>2. Balance' = [Balance EXCEPT ![u] = @ + delta] /\ Reserved' = Reserved
  BY <1>1 DEF AdjustTokens, Balance, Reserved, UserRow
<1>3. /\ Balance'[u] = user[u].balance + delta
      /\ Balance' = [Balance EXCEPT ![u] = Balance'[u]]
  BY <1>2 DEF Balance
<1>4. Balance'[u] \in Int /\ Balance'[u] >= Reserved[u]
  BY <1>1, <1>3 DEF AdjustTokens, Reserved, UserRow
<1>5. Phase' = Phase
  BY DEF AdjustTokens, Phase
<1> QED
  BY <1>2, <1>3, <1>4, <1>5, CreditMaps

Adjusts == \E u \in Users, delta \in {-1, 1} : AdjustTokens(u, delta)

\* The other edits write the mode or the status of a user, or no user at all.
LEMMA EditMaps == ASSUME IInv, Edit PROVE TokenStep \/ Adjusts
<1>1. CASE \/ \E u \in Users, m \in Modes : SetTradingMode(u, m)
           \/ \E u \in Users, a \in Accounts : SwitchTradingModeOnDeposit(u, a)
           \/ \E u \in Users : BlockUser(u)
  <2>1. intent' = intent
    BY <1>1 DEF SetTradingMode, SwitchTradingModeOnDeposit, BlockUser
  <2> DEFINE KeepsCache == \A u \in Users : /\ user'[u].balance = user[u].balance
                                            /\ user'[u].reserved = user[u].reserved
                                            /\ user'[u].credited = user[u].credited
  <2>2. KeepsCache
    <3>1. user \in [Users -> UserRow]
      BY DEF IInv, TypeOK
    <3>2. ASSUME NEW u \in Users, NEW m \in Modes, SetTradingMode(u, m) PROVE KeepsCache
      BY <3>1, <3>2 DEF SetTradingMode, UserRow
    <3>3. ASSUME NEW u \in Users, NEW a \in Accounts, SwitchTradingModeOnDeposit(u, a)
          PROVE  KeepsCache
      BY <3>1, <3>3 DEF SwitchTradingModeOnDeposit, UserRow
    <3>4. ASSUME NEW u \in Users, BlockUser(u) PROVE KeepsCache
      BY <3>1, <3>4 DEF BlockUser, UserRow
    <3> QED
      BY <1>1, <3>2, <3>3, <3>4
  <2> QED
    BY <2>1, <2>2 DEF TokenStep, Credited, Escrow!vars
<1>2. CASE \/ \E open \in BOOLEAN : SetTrading(open)
           \/ \E a \in Accounts : RevokeAccount(a)
           \/ \E s \in Sessions : CreateTradingSession(s) \/ StopSession(s)
  BY <1>2, Idles DEF SetTrading, RevokeAccount, CreateTradingSession, StopSession
<1> QED
  BY <1>1, <1>2 DEF Edit, Adjusts

-----------------------------------------------------------------------------
(* The specification                                                        *)

LEMMA InitMaps == StoreInit => Escrow!Init
<1> SUFFICES ASSUME StoreInit PROVE Escrow!Init
  OBVIOUS
<1>1. \A u \in Users : user[u].balance = InitialBalance /\ user[u].reserved = 0
  BY DEF StoreInit
<1>2. \A i \in Intents : intent[i].held = 0 /\ intent[i].status = "absent"
  BY DEF StoreInit
<1> QED
  BY <1>1, <1>2 DEF Escrow!Init

LEMMA StepMaps == IInv /\ IInv' /\ [StoreNext]_dbVars => TokenStep \/ Adjusts
<1> SUFFICES ASSUME IInv, IInv', [StoreNext]_dbVars PROVE TokenStep \/ Adjusts
  OBVIOUS
<1>1. ASSUME NEW i \in Intents, Creation(i) PROVE TokenStep
  BY <1>1, CreationMaps
<1>2. ASSUME NEW i \in Intents, Refusal(i, intent[i].version) PROVE TokenStep
  BY <1>2, RefusalMaps
<1>3. ASSUME NEW i \in Intents, Submission(i, intent[i].version) PROVE TokenStep
  BY <1>3, SubmissionMaps
<1>4. ASSUME NEW i \in Intents, Reconciliation(i, intent[i].version) PROVE TokenStep
  BY <1>4, ReconciliationMaps
<1>5. ASSUME NEW i \in Intents, Conclusion(i) PROVE TokenStep
  BY <1>5, ConclusionMaps
<1>6. ASSUME NEW i \in Intents, NEW q \in Topics, Delivery(q, i) PROVE TokenStep
  BY <1>6, DeliveryMaps
<1>7. ASSUME NEW i \in Intents, NEW timer \in Timers, Elapse(i, timer) PROVE TokenStep
  BY <1>7, Idles DEF Elapse
<1>8. CASE Edit
  BY <1>8, EditMaps
<1>9. CASE UNCHANGED dbVars
  BY <1>9, Idles DEF dbVars
<1> QED
  BY <1>1, <1>2, <1>3, <1>4, <1>5, <1>6, <1>7, <1>8, <1>9 DEF StoreNext

LEMMA EscrowStepHolds == IInv /\ IInv' /\ [StoreNext]_dbVars => EscrowStep
BY StepMaps, AdjustMaps DEF TokenStep, Adjusts, EscrowStep, Escrow!Next

\* The database implements the escrow: whatever transactions the callers run, a token
\* is held once and then given back or spent, and no debit eats into a reserve.
THEOREM StoreImplementsEscrow == StoreSpec => EscrowSpec
<1>1. StoreSpec => []IInv
  BY StoreInvariant
<1>2. IInv /\ IInv' /\ [StoreNext]_dbVars => [Escrow!Next]_Escrow!vars
  BY EscrowStepHolds DEF EscrowStep
<1> QED
  BY <1>1, <1>2, InitMaps, PTL DEF StoreSpec, EscrowSpec, Escrow!Spec

-----------------------------------------------------------------------------
(* The cache is the sum of the ledger                                       *)

\* The tokens a user has live, and those he has spent.
HeldCount(u)  == Cardinality({i \in IntentsOf(u) : Phase[i] = "held"})
SpentCount(u) == Cardinality({i \in IntentsOf(u) : Phase[i] = "consumed"})

\* CacheIsLedgerSum by phases; the ledger's rows follow the statuses.
CacheInv ==
  \A u \in Users : /\ Reserved[u] = HeldCount(u)
                   /\ Balance[u] = Credited[u] - SpentCount(u)
                   /\ Balance[u] >= Reserved[u]

LEMMA CountsAreNat == ASSUME NEW u PROVE HeldCount(u) \in Nat /\ SpentCount(u) \in Nat
<1>1. \A p : {i \in IntentsOf(u) : Phase[i] = p} \subseteq Intents
  BY DEF IntentsOf
<1>2. \A p : Cardinality({i \in IntentsOf(u) : Phase[i] = p}) \in Nat
  BY <1>1, StoreAssumption, FS_Subset, FS_CardinalityType DEF StoreAssumption
<1> QED
  BY <1>2 DEF HeldCount, SpentCount

\* A token that changes phase is counted in the new one and no longer in the old.
LEMMA CountsStep ==
  ASSUME NEW i \in Intents, NEW to, Phase[i] # to, Phase' = [Phase EXCEPT ![i] = to], NEW u
  PROVE  /\ UserOf(i) = u /\ to = "held" => HeldCount(u)' = HeldCount(u) + 1
         /\ UserOf(i) = u /\ Phase[i] = "held" => HeldCount(u)' = HeldCount(u) - 1
         /\ UserOf(i) # u => HeldCount(u)' = HeldCount(u) /\ SpentCount(u)' = SpentCount(u)
         /\ UserOf(i) = u /\ to = "consumed" => SpentCount(u)' = SpentCount(u) + 1
         /\ to # "consumed" /\ Phase[i] # "consumed" => SpentCount(u)' = SpentCount(u)
<1> DEFINE F(p) == {j \in IntentsOf(u) : Phase[j] = p}
           G(p) == {j \in IntentsOf(u) : Phase'[j] = p}
<1>1. /\ Phase'[i] = to
      /\ \A j \in Intents : j # i => Phase'[j] = Phase[j]
  BY DEF Phase
<1>2. /\ HeldCount(u) = Cardinality(F("held"))
      /\ SpentCount(u) = Cardinality(F("consumed"))
      /\ HeldCount(u)' = Cardinality(G("held"))
      /\ SpentCount(u)' = Cardinality(G("consumed"))
  BY DEF HeldCount, SpentCount, IntentsOf, UserOf
<1>3. ASSUME NEW p
      PROVE  /\ UserOf(i) = u /\ to = p => Cardinality(G(p)) = Cardinality(F(p)) + 1
             /\ UserOf(i) = u /\ Phase[i] = p => Cardinality(G(p)) = Cardinality(F(p)) - 1
             /\ UserOf(i) # u \/ (to # p /\ Phase[i] # p) => G(p) = F(p)
  <2> HIDE DEF Phase
  <2>1. IsFiniteSet(F(p))
    <3>1. F(p) \subseteq Intents
      BY DEF IntentsOf
    <3> QED
      BY <3>1, StoreAssumption, FS_Subset DEF StoreAssumption
  <2>2. UserOf(i) = u /\ to = p => G(p) = F(p) \cup {i} /\ i \notin F(p)
    BY <1>1 DEF IntentsOf
  <2>3. UserOf(i) = u /\ Phase[i] = p => G(p) = F(p) \ {i} /\ i \in F(p)
    BY <1>1 DEF IntentsOf
  <2>4. UserOf(i) # u \/ (to # p /\ Phase[i] # p) => G(p) = F(p)
    BY <1>1 DEF IntentsOf
  <2> HIDE DEF F, G
  <2>5. i \notin F(p) => Cardinality(F(p) \cup {i}) = Cardinality(F(p)) + 1
    BY <2>1, FS_AddElement
  <2>6. i \in F(p) => Cardinality(F(p) \ {i}) = Cardinality(F(p)) - 1
    BY <2>1, FS_RemoveElement
  <2> QED
    BY <2>2, <2>3, <2>4, <2>5, <2>6
<1> HIDE DEF F, G
<1> QED
  BY <1>2, <1>3

LEMMA SpentStays ==
  ASSUME NEW i \in Intents, NEW to, Phase[i] # to, Phase' = [Phase EXCEPT ![i] = to],
         to # "consumed", Phase[i] # "consumed", NEW u
  PROVE  SpentCount(u)' = SpentCount(u)
BY CountsStep

\* The columns of the cache are numbers.
LEMMA CacheType ==
  ASSUME TypeOK
  PROVE  /\ Balance \in [Users -> Int] /\ Reserved \in [Users -> Int]
         /\ Credited \in [Users -> Int]
<1>1. \A u \in Users : user[u] \in UserRow
  BY DEF TypeOK
<1> QED
  BY <1>1 DEF UserRow, Balance, Reserved, Credited

LEMMA CacheInit == StoreInit => CacheInv
<1> SUFFICES ASSUME StoreInit, NEW u \in Users
             PROVE  /\ Reserved[u] = HeldCount(u)
                    /\ Balance[u] = Credited[u] - SpentCount(u)
                    /\ Balance[u] >= Reserved[u]
  BY DEF CacheInv
<1>1. \A i \in Intents : Phase[i] = "idle"
  BY DEF StoreInit, Phase
<1>2. /\ {i \in IntentsOf(u) : Phase[i] = "held"} = {}
      /\ {i \in IntentsOf(u) : Phase[i] = "consumed"} = {}
  BY <1>1 DEF IntentsOf
<1>3. HeldCount(u) = 0 /\ SpentCount(u) = 0
  BY <1>2, FS_EmptySet DEF HeldCount, SpentCount
<1>4. /\ user[u].balance = InitialBalance /\ user[u].reserved = 0
      /\ user[u].credited = InitialBalance
  BY DEF StoreInit
<1> QED
  BY <1>3, <1>4, StoreAssumption DEF StoreAssumption, Balance, Reserved, Credited

LEMMA CacheStep == ASSUME IInv, IInv', CacheInv, [StoreNext]_dbVars PROVE CacheInv'
<1>t. /\ Balance \in [Users -> Int] /\ Reserved \in [Users -> Int]
      /\ Credited \in [Users -> Int]
      /\ \A u \in Users : HeldCount(u) \in Nat /\ SpentCount(u) \in Nat
  BY CacheType, CountsAreNat DEF IInv
<1>c. \A u \in Users : Reserved[u] = HeldCount(u) /\ Balance[u] = Credited[u] - SpentCount(u)
                       /\ Balance[u] >= Reserved[u]
  BY DEF CacheInv
<1>1. ASSUME NEW i \in Intents, Escrow!Hold(i), Credited' = Credited PROVE CacheInv'
  <2>1. /\ Phase[i] = "idle" /\ Phase' = [Phase EXCEPT ![i] = "held"]
        /\ Balance[UserOf(i)] - Reserved[UserOf(i)] >= 1
        /\ Reserved' = [Reserved EXCEPT ![UserOf(i)] = @ + 1] /\ Balance' = Balance
    BY <1>1 DEF Escrow!Hold, Phase, Reserved, Balance
  <2>2. \A u \in Users : /\ UserOf(i) = u => HeldCount(u)' = HeldCount(u) + 1
                         /\ UserOf(i) # u => HeldCount(u)' = HeldCount(u)
                         /\ SpentCount(u)' = SpentCount(u)
    <3>1. ASSUME NEW u \in Users
          PROVE  /\ UserOf(i) = u => HeldCount(u)' = HeldCount(u) + 1
                 /\ UserOf(i) # u => HeldCount(u)' = HeldCount(u)
                 /\ SpentCount(u)' = SpentCount(u)
      <4>1. Phase[i] # "held" /\ Phase[i] # "consumed"
        BY <2>1
      <4>2. SpentCount(u)' = SpentCount(u)
        BY <2>1, <4>1, "held" # "consumed", SpentStays
      <4>3. CASE UserOf(i) = u
        BY <2>1, <4>1, <4>2, <4>3, CountsStep
      <4>4. CASE UserOf(i) # u
        BY <2>1, <4>1, <4>2, <4>4, CountsStep
      <4> QED
        BY <4>2, <4>3, <4>4
    <3> QED
      BY <3>1
  <2>3. \A u \in Users : Reserved'[u] = HeldCount(u)' /\ Balance'[u] = Credited'[u] - SpentCount(u)'
                         /\ Balance'[u] >= Reserved'[u]
    BY <1>t, <1>c, <1>1, <2>1, <2>2
  <2> QED
    BY <2>3 DEF CacheInv
<1>2. ASSUME NEW i \in Intents, Escrow!Release(i), Credited' = Credited PROVE CacheInv'
  <2>1. /\ Phase[i] = "held" /\ Phase' = [Phase EXCEPT ![i] = "released"]
        /\ Reserved' = [Reserved EXCEPT ![UserOf(i)] = @ - 1] /\ Balance' = Balance
    BY <1>2 DEF Escrow!Release, Phase, Reserved, Balance
  <2>2. \A u \in Users : /\ UserOf(i) = u => HeldCount(u)' = HeldCount(u) - 1
                         /\ UserOf(i) # u => HeldCount(u)' = HeldCount(u)
                         /\ SpentCount(u)' = SpentCount(u)
    <3>1. ASSUME NEW u \in Users
          PROVE  /\ UserOf(i) = u => HeldCount(u)' = HeldCount(u) - 1
                 /\ UserOf(i) # u => HeldCount(u)' = HeldCount(u)
                 /\ SpentCount(u)' = SpentCount(u)
      <4>1. Phase[i] # "released" /\ Phase[i] # "consumed"
        BY <2>1
      <4>2. SpentCount(u)' = SpentCount(u)
        BY <2>1, <4>1, "released" # "consumed", SpentStays
      <4>3. CASE UserOf(i) = u
        BY <2>1, <4>1, <4>2, <4>3, CountsStep
      <4>4. CASE UserOf(i) # u
        BY <2>1, <4>1, <4>2, <4>4, CountsStep
      <4> QED
        BY <4>2, <4>3, <4>4
    <3> QED
      BY <3>1
  <2>3. \A u \in Users : Reserved'[u] = HeldCount(u)' /\ Balance'[u] = Credited'[u] - SpentCount(u)'
                         /\ Balance'[u] >= Reserved'[u]
    BY <1>t, <1>c, <1>2, <2>1, <2>2
  <2> QED
    BY <2>3 DEF CacheInv
<1>3. ASSUME NEW i \in Intents, Escrow!Consume(i), Credited' = Credited PROVE CacheInv'
  <2>1. /\ Phase[i] = "held" /\ Phase' = [Phase EXCEPT ![i] = "consumed"]
        /\ Reserved' = [Reserved EXCEPT ![UserOf(i)] = @ - 1]
        /\ Balance' = [Balance EXCEPT ![UserOf(i)] = @ - 1]
    BY <1>3 DEF Escrow!Consume, Phase, Reserved, Balance
  <2>2. \A u \in Users : /\ UserOf(i) = u => HeldCount(u)' = HeldCount(u) - 1
                         /\ UserOf(i) # u => HeldCount(u)' = HeldCount(u)
                         /\ UserOf(i) = u => SpentCount(u)' = SpentCount(u) + 1
                         /\ UserOf(i) # u => SpentCount(u)' = SpentCount(u)
    BY <2>1, CountsStep
  <2>3. \A u \in Users : Reserved'[u] = HeldCount(u)' /\ Balance'[u] = Credited'[u] - SpentCount(u)'
                         /\ Balance'[u] >= Reserved'[u]
    BY <1>t, <1>c, <1>3, <2>1, <2>2
  <2> QED
    BY <2>3 DEF CacheInv
<1>4. ASSUME UNCHANGED Escrow!vars, Credited' = Credited PROVE CacheInv'
  <2>1. Balance' = Balance /\ Reserved' = Reserved /\ Phase' = Phase
    BY <1>4 DEF Escrow!vars, Balance, Reserved, Phase
  <2> HIDE DEF Phase
  <2> QED
    BY <1>4, <1>c, <2>1 DEF CacheInv, HeldCount, SpentCount, IntentsOf, UserOf
<1>5. ASSUME NEW u \in Users, NEW delta \in {-1, 1}, AdjustTokens(u, delta) PROVE CacheInv'
  <2>1. user \in [Users -> UserRow]
    BY DEF IInv, TypeOK
  <2>2. /\ Balance' = [Balance EXCEPT ![u] = @ + delta]
        /\ Credited' = [Credited EXCEPT ![u] = @ + delta]
        /\ Reserved' = Reserved
        /\ Balance[u] + delta >= Reserved[u]
    BY <1>5, <2>1 DEF AdjustTokens, Balance, Credited, Reserved, UserRow
  <2>3. Phase' = Phase
    BY <1>5 DEF AdjustTokens, Phase
  <2>4. \A x \in Users : HeldCount(x)' = HeldCount(x) /\ SpentCount(x)' = SpentCount(x)
    BY <2>3 DEF HeldCount, SpentCount, IntentsOf, UserOf
  <2>5. \A x \in Users : Reserved'[x] = HeldCount(x)' /\ Balance'[x] = Credited'[x] - SpentCount(x)'
                         /\ Balance'[x] >= Reserved'[x]
    BY <1>t, <1>c, <2>2, <2>4
  <2> QED
    BY <2>5 DEF CacheInv
<1> QED
  BY <1>1, <1>2, <1>3, <1>4, <1>5, StepMaps DEF TokenStep, Adjusts

LEMMA CacheOfPhases == ASSUME IInv, CacheInv PROVE CacheIsLedgerSum
<1> SUFFICES ASSUME NEW u \in Users
             PROVE  /\ user[u].reserved =
                         Cardinality({i \in IntentsOf(u) : LedgerReserve(i) = 1})
                    /\ user[u].balance = user[u].credited
                         - Cardinality({i \in IntentsOf(u) : ledger[i]["settle"] = 1})
                    /\ user[u].balance >= user[u].reserved
  BY DEF CacheIsLedgerSum
<1>1. \A i \in Intents : /\ LedgerReserve(i) = 1 <=> Phase[i] = "held"
                         /\ ledger[i]["settle"] = 1 <=> Phase[i] = "consumed"
  <2> SUFFICES ASSUME NEW i \in Intents
               PROVE  /\ LedgerReserve(i) = 1 <=> Phase[i] = "held"
                      /\ ledger[i]["settle"] = 1 <=> Phase[i] = "consumed"
    OBVIOUS
  <2>1. /\ ledger[i]["reserve"] = IF intent[i].status = "absent" THEN 0 ELSE 1
        /\ ledger[i]["release"] = IF intent[i].status = "rejected" THEN 1 ELSE 0
        /\ ledger[i]["settle"]  = IF intent[i].status = "settled" THEN 1 ELSE 0
    BY DEF IInv, RowsInv, TokenFollowsStatus
  <2> QED
    BY <2>1, PhaseOfStatus DEF StatusPhase, LedgerReserve
<1>2. /\ Cardinality({i \in IntentsOf(u) : LedgerReserve(i) = 1}) = HeldCount(u)
      /\ Cardinality({i \in IntentsOf(u) : ledger[i]["settle"] = 1}) = SpentCount(u)
  <2>1. /\ {i \in IntentsOf(u) : LedgerReserve(i) = 1} =
             {i \in IntentsOf(u) : Phase[i] = "held"}
        /\ {i \in IntentsOf(u) : ledger[i]["settle"] = 1} =
             {i \in IntentsOf(u) : Phase[i] = "consumed"}
    BY <1>1 DEF IntentsOf
  <2> QED
    BY <2>1 DEF HeldCount, SpentCount
<1> QED
  BY <1>2 DEF CacheInv, Balance, Reserved, Credited

\* The cache is the sum of the ledger and covers the reserve, whichever transaction
\* wrote last: releaseTokens and consumeTokens never meet their underflow error.
THEOREM CacheStaysLedgerSum == StoreSpec => []CacheIsLedgerSum
<1>1. IInv /\ IInv' /\ CacheInv /\ [StoreNext]_dbVars => CacheInv'
  BY CacheStep
<1>2. IInv /\ CacheInv => CacheIsLedgerSum
  BY CacheOfPhases
<1> QED
  BY <1>1, <1>2, CacheInit, StoreInvariant, PTL DEF StoreSpec

-----------------------------------------------------------------------------
(* What the escrow itself promises                                          *)

\* The constants the store gives the escrow are what the escrow asks for.
LEMMA EscrowAssumptionHolds == Escrow!EscrowAssumption
BY StoreAssumption DEF StoreAssumption, Escrow!EscrowAssumption, Escrow!IsFiniteSet, IsFiniteSet, UserOf

\* The reserve of every user is the number of tokens held, and the balance covers it.
EscrowInv ==
  \A u \in Users : Balance[u] \in Int /\ Reserved[u] = HeldCount(u) /\ Balance[u] >= Reserved[u]

LEMMA EscrowInitHolds == Escrow!Init => EscrowInv
<1> SUFFICES ASSUME Escrow!Init PROVE EscrowInv
  OBVIOUS
<1>1. /\ Balance = [u \in Users |-> InitialBalance] /\ Reserved = [u \in Users |-> 0]
      /\ Phase = [i \in Intents |-> "idle"]
  BY DEF Escrow!Init, Balance, Reserved, Phase
<1>2. ASSUME NEW u \in Users PROVE HeldCount(u) = 0
  <2>1. {i \in IntentsOf(u) : Phase[i] = "held"} = {}
    <3> HIDE DEF Phase
    <3> QED
      BY <1>1 DEF IntentsOf
  <2> QED
    BY <2>1, FS_EmptySet DEF HeldCount
<1> HIDE DEF Balance, Reserved
<1> QED
  BY <1>1, <1>2, StoreAssumption DEF StoreAssumption, EscrowInv

LEMMA EscrowStepKeeps == ASSUME EscrowInv, [Escrow!Next]_Escrow!vars PROVE EscrowInv'
<1>t. /\ DOMAIN Balance = Users /\ DOMAIN Reserved = Users
      /\ \A u \in Users : /\ HeldCount(u) \in Nat /\ Balance[u] \in Int
                          /\ Reserved[u] = HeldCount(u) /\ Balance[u] >= Reserved[u]
  BY CountsAreNat DEF EscrowInv, Balance, Reserved
<1>1. ASSUME NEW i \in Intents, Escrow!Hold(i) PROVE EscrowInv'
  <2>1. /\ Phase[i] = "idle" /\ Phase' = [Phase EXCEPT ![i] = "held"]
        /\ Balance[UserOf(i)] - Reserved[UserOf(i)] >= 1
        /\ Reserved' = [Reserved EXCEPT ![UserOf(i)] = @ + 1] /\ Balance' = Balance
    BY <1>1 DEF Escrow!Hold, Phase, Reserved, Balance
  <2>2. \A u \in Users : /\ UserOf(i) = u => HeldCount(u)' = HeldCount(u) + 1
                         /\ UserOf(i) # u => HeldCount(u)' = HeldCount(u)
    BY <2>1, CountsStep
  <2>4. \A u \in Users : Balance'[u] \in Int /\ Reserved'[u] = HeldCount(u)' /\ Balance'[u] >= Reserved'[u]
    BY <1>t, <2>1, <2>2
  <2> QED
    BY <2>4 DEF EscrowInv
<1>2. ASSUME NEW i \in Intents, Escrow!Release(i) PROVE EscrowInv'
  <2>1. /\ Phase[i] = "held" /\ Phase' = [Phase EXCEPT ![i] = "released"]
        /\ Reserved' = [Reserved EXCEPT ![UserOf(i)] = @ - 1] /\ Balance' = Balance
    BY <1>2 DEF Escrow!Release, Phase, Reserved, Balance
  <2>2. \A u \in Users : /\ UserOf(i) = u => HeldCount(u)' = HeldCount(u) - 1
                         /\ UserOf(i) # u => HeldCount(u)' = HeldCount(u)
    BY <2>1, CountsStep
  <2>4. \A u \in Users : Balance'[u] \in Int /\ Reserved'[u] = HeldCount(u)' /\ Balance'[u] >= Reserved'[u]
    BY <1>t, <2>1, <2>2
  <2> QED
    BY <2>4 DEF EscrowInv
<1>3. ASSUME NEW i \in Intents, Escrow!Consume(i) PROVE EscrowInv'
  <2>1. /\ Phase[i] = "held" /\ Phase' = [Phase EXCEPT ![i] = "consumed"]
        /\ Reserved' = [Reserved EXCEPT ![UserOf(i)] = @ - 1]
        /\ Balance' = [Balance EXCEPT ![UserOf(i)] = @ - 1]
    BY <1>3 DEF Escrow!Consume, Phase, Reserved, Balance
  <2>2. \A u \in Users : /\ UserOf(i) = u => HeldCount(u)' = HeldCount(u) - 1
                         /\ UserOf(i) # u => HeldCount(u)' = HeldCount(u)
    BY <2>1, CountsStep
  <2>4. \A u \in Users : Balance'[u] \in Int /\ Reserved'[u] = HeldCount(u)' /\ Balance'[u] >= Reserved'[u]
    BY <1>t, <2>1, <2>2
  <2> QED
    BY <2>4 DEF EscrowInv
<1>4. ASSUME NEW u \in Users, Escrow!Credit(u) PROVE EscrowInv'
  <2>1. PICK b \in Int : b >= Reserved[u] /\ Balance' = [Balance EXCEPT ![u] = b]
    BY <1>4 DEF Escrow!Credit, Reserved, Balance
  <2>2. Phase' = Phase /\ Reserved' = Reserved
    BY <1>4 DEF Escrow!Credit, Phase, Reserved
  <2>3. \A x \in Users : HeldCount(x)' = HeldCount(x)
    BY <2>2 DEF HeldCount, IntentsOf, UserOf
  <2>5. \A x \in Users : Balance'[x] \in Int /\ Reserved'[x] = HeldCount(x)' /\ Balance'[x] >= Reserved'[x]
    BY <1>t, <2>1, <2>2, <2>3
  <2> QED
    BY <2>5 DEF EscrowInv
<1>5. ASSUME UNCHANGED Escrow!vars PROVE EscrowInv'
  <2>1. Balance' = Balance /\ Reserved' = Reserved /\ Phase' = Phase
    BY <1>5 DEF Escrow!vars, Balance, Reserved, Phase
  <2> HIDE DEF Phase
  <2> QED
    BY <1>t, <2>1 DEF EscrowInv, HeldCount, IntentsOf, UserOf
<1> QED
  BY <1>1, <1>2, <1>3, <1>4, <1>5 DEF Escrow!Next

\* The escrow's promise, which every implementation inherits: token_reserved counts
\* the tokens held, and a release or a settlement finds what it takes away
\* (releaseTokens and consumeTokens never meet their underflow error).
THEOREM ReserveAlwaysCovered == EscrowSpec => []Escrow!ReserveCovered
<1>1. EscrowInv => Escrow!ReserveCovered
  <2> SUFFICES ASSUME EscrowInv
               PROVE  \A u \in Users : /\ user[u].reserved = Cardinality(Escrow!HeldBy(u))
                                       /\ user[u].reserved <= user[u].balance
    BY DEF Escrow!ReserveCovered, Escrow!Cardinality, Cardinality
  <2> SUFFICES ASSUME NEW u \in Users
               PROVE  /\ user[u].reserved = Cardinality(Escrow!HeldBy(u))
                      /\ user[u].reserved <= user[u].balance
    OBVIOUS
  <2>0. Reserved[u] = user[u].reserved /\ Balance[u] = user[u].balance
    BY DEF Reserved, Balance
  <2>1. Escrow!HeldBy(u) = {i \in IntentsOf(u) : Phase[i] = "held"}
    BY DEF Escrow!HeldBy, IntentsOf, Phase
  <2>2. Reserved[u] = HeldCount(u) /\ Balance[u] >= Reserved[u] /\ Balance[u] \in Int /\ HeldCount(u) \in Nat
    BY CountsAreNat DEF EscrowInv
  <2> QED
    BY <2>0, <2>1, <2>2 DEF HeldCount
<1>2. EscrowInv /\ [Escrow!Next]_Escrow!vars => EscrowInv'
  BY EscrowStepKeeps
<1> QED
  BY <1>1, <1>2, EscrowInitHolds, PTL DEF EscrowSpec, Escrow!Spec

=============================================================================
