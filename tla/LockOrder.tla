------------------------------ MODULE LockOrder ------------------------------
(***************************************************************************)
(* The row locks of the transactions that share users, accounts, sessions,   *)
(* intents and deposits, in the order of their statements.  A transaction is *)
(* the sequence of locks its statements take; it waits while another one     *)
(* holds a lock that conflicts with the next, and releases them all when it  *)
(* commits or rolls back.                                                    *)
(* An account stands for its live intent, its active session, its trade and  *)
(* its deposit as well: the row of table t with the account's key.  An       *)
(* INSERT that may meet a unique entry of another transaction waits like a   *)
(* NO KEY UPDATE of that row.  A lock that a stronger lock of the same       *)
(* transaction implies is left out.                                          *)
(***************************************************************************)
EXTENDS Naturals, Sequences

CONSTANTS
  Procs,            \* connections, each in one transaction at a time
  Newest,           \* users are numbered in the order of their creation
  Accounts, OwnerOf,
  Inviter           \* the inviter of each invited user

Users == 0..Newest

ASSUME LockAssumption ==
  /\ Newest \in Nat
  /\ OwnerOf \in [Accounts -> Users]
  /\ DOMAIN Inviter \subseteq Users
  \* a referral is recorded by the /start that creates the invitee (referral-reward-ops.ts:34)
  /\ \A u \in DOMAIN Inviter : Inviter[u] \in Users /\ Inviter[u] < u

VARIABLES
  locks,            \* the transaction of each process, <<>> when it has none
  taken             \* how many of its locks it has

vars == <<locks, taken>>

-----------------------------------------------------------------------------
(* Locks                                                                   *)

KeyShare(table, key) == [row |-> <<table, key>>, mode |-> "key share"]
Share(table, key) == [row |-> <<table, key>>, mode |-> "share"]
NoKeyUpdate(table, key) == [row |-> <<table, key>>, mode |-> "no key update"]
ForUpdate(table, key) == [row |-> <<table, key>>, mode |-> "update"]

ConflictsWith ==
  [mode \in {"key share", "share", "no key update", "update"} |->
     CASE mode = "key share" -> {"update"}
       [] mode = "share" -> {"no key update", "update"}
       [] mode = "no key update" -> {"share", "no key update", "update"}
       [] mode = "update" -> {"key share", "share", "no key update", "update"}]

Conflict(l, m) == l.row = m.row /\ m.mode \in ConflictsWith[l.mode]

-----------------------------------------------------------------------------
(* The transactions                                                        *)

CreateIntent(a) ==
  <<NoKeyUpdate("users", OwnerOf[a]), NoKeyUpdate("accounts", a), NoKeyUpdate("intents", a)>>

CreateSessionIntent(a) ==
  <<NoKeyUpdate("users", OwnerOf[a]), NoKeyUpdate("accounts", a), NoKeyUpdate("sessions", a),
    NoKeyUpdate("intents", a)>>

\* takeIntent, markIntentUnknown, startReconciling, claimReconciling: one compare-and-set.
Transition(a) == <<NoKeyUpdate("intents", a)>>

\* Mutant: the intent is locked before its user.
RejectIntent_IntentFirst(a) == <<ForUpdate("intents", a), NoKeyUpdate("users", OwnerOf[a])>>

\* rejectIntent, rejectExpiredIntent, rejectLateIntent, rejectPausedIntent.
RejectIntent(a) == <<NoKeyUpdate("users", OwnerOf[a]), ForUpdate("intents", a)>>

\* markIntentAccepted: the row of the trade has foreign keys to the account and the intent.
AcceptIntent(a) ==
  <<NoKeyUpdate("intents", a), NoKeyUpdate("trades", a), KeyShare("accounts", a)>>

SettleIntent(a) ==
  <<NoKeyUpdate("users", OwnerOf[a]), ForUpdate("intents", a), ForUpdate("trades", a)>>

\* concludeReconciled: markIntentAccepted, then settleIntent on the rows it holds.
ConcludeReconciled(a) ==
  <<NoKeyUpdate("users", OwnerOf[a]), NoKeyUpdate("intents", a), NoKeyUpdate("trades", a),
    KeyShare("accounts", a), ForUpdate("intents", a), ForUpdate("trades", a)>>

HaltAccount(a) == <<NoKeyUpdate("accounts", a), NoKeyUpdate("intents", a)>>

CreateSession(a) ==
  <<NoKeyUpdate("users", OwnerOf[a]), NoKeyUpdate("accounts", a), NoKeyUpdate("sessions", a)>>

\* The stop of one session, and the decision mark.
StopSession(a) == <<NoKeyUpdate("sessions", a)>>

\* setTradingMode of a user with one active session and one deposit that waits.
SetTradingMode(a) ==
  <<NoKeyUpdate("users", OwnerOf[a]), NoKeyUpdate("sessions", a), NoKeyUpdate("deposits", a)>>

SwitchOnDeposit(a) == <<NoKeyUpdate("users", OwnerOf[a]), NoKeyUpdate("deposits", a)>>

CloseDeposit(a) == <<NoKeyUpdate("deposits", a)>>

\* linkBrokerAccount by any user (the account may be another's, or new) and confirmBrokerAccount:
\* the caller, its inviter while the reward is unpaid, the account, the trader's deposits.
LinkAccount(u, a) ==
  <<NoKeyUpdate("users", u), NoKeyUpdate("accounts", a), NoKeyUpdate("deposits", a)>>

LinkReferred(u, a) ==
  <<NoKeyUpdate("users", u), NoKeyUpdate("users", Inviter[u]), NoKeyUpdate("accounts", a),
    NoKeyUpdate("deposits", a)>>

\* recordPostback: the deposit's foreign keys to its owner come after the account.
RecordPostback(a) ==
  <<Share("accounts", a), NoKeyUpdate("deposits", a), KeyShare("users", OwnerOf[a])>>

\* The token refresh holds the account through the exchange and never locks the user.
RefreshToken(a) == <<NoKeyUpdate("accounts", a)>>

\* creditStarPayment, recordStarRefund.
StarPayment(u) == <<NoKeyUpdate("users", u), NoKeyUpdate("payments", u)>>

\* adjustTokens under the staff member's touched session, which no other writer here takes.
AdjustTokens(u) == <<NoKeyUpdate("users", u)>>

\* markTelegramBlocked, setNotificationLevel.
CancelMailing(u) == <<NoKeyUpdate("users", u), NoKeyUpdate("jobs", u)>>

OfAccount(a) ==
  {CreateIntent(a), CreateSessionIntent(a), Transition(a), RejectIntent(a), AcceptIntent(a),
   SettleIntent(a), ConcludeReconciled(a), HaltAccount(a), CreateSession(a), StopSession(a),
   SetTradingMode(a), SwitchOnDeposit(a), CloseDeposit(a), RecordPostback(a), RefreshToken(a)}

OfUser(u) == {StarPayment(u), AdjustTokens(u), CancelMailing(u)}

Transactions ==
  (UNION {OfAccount(a) : a \in Accounts}) \cup (UNION {OfUser(u) : u \in Users})
    \cup {LinkAccount(u, a) : u \in Users, a \in Accounts}
    \cup {LinkReferred(u, a) : u \in DOMAIN Inviter, a \in Accounts}

-----------------------------------------------------------------------------
Init == locks = [p \in Procs |-> <<>>] /\ taken = [p \in Procs |-> 0]

Held(p) == {locks[p][k] : k \in 1..taken[p]}

Waiting(p) == taken[p] < Len(locks[p])
Wanted(p) == locks[p][taken[p] + 1]

\* q holds what p waits for.
Blocks(q, p) == p # q /\ Waiting(p) /\ \E l \in Held(q) : Conflict(l, Wanted(p))

Begin(p, t) ==
  /\ locks[p] = <<>>
  /\ locks' = [locks EXCEPT ![p] = t]
  /\ UNCHANGED taken

Acquire(p) ==
  /\ Waiting(p) /\ \A q \in Procs : ~Blocks(q, p)
  /\ taken' = [taken EXCEPT ![p] = @ + 1]
  /\ UNCHANGED locks

\* A commit; or a rollback, of a compare-and-set that matched no row, a refusal or an error.
End(p) ==
  /\ locks[p] # <<>>
  /\ locks' = [locks EXCEPT ![p] = <<>>] /\ taken' = [taken EXCEPT ![p] = 0]

Next ==
  \E p \in Procs :
    \/ \E t \in Transactions : Begin(p, t)
    \/ Acquire(p) \/ End(p)

Spec == Init /\ [][Next]_vars

-----------------------------------------------------------------------------
Exclusive == {"no key update", "update"}

\* Two processes never both hold a row for an update.
RowsExclusive ==
  \A p, q \in Procs : p # q =>
    \A l \in Held(p), m \in Held(q) : {l.mode, m.mode} \subseteq Exclusive => l.row # m.row

\* Each process is in a transaction and has a prefix of its locks; updaters exclude each other.
LocksTypeOK ==
  /\ locks \in [Procs -> Transactions \cup {<<>>}]
  /\ taken \in [Procs -> Nat] /\ \A p \in Procs : taken[p] <= Len(locks[p])
  /\ RowsExclusive

\* No set of transactions waits for itself: PostgreSQL never has a deadlock to break
\* (trade-intent-ops.ts:132, trade-intent-ops.ts:516, referral-reward-ops.ts:31).
NoWaitCycle ==
  \A S \in SUBSET Procs : S # {} => \E p \in S : \A q \in S : ~Blocks(q, p)

=============================================================================
