---------------------------- MODULE StarPayments ----------------------------
(***************************************************************************)
(* Buying tokens for Telegram Stars and refunding them.  Telegram holds the  *)
(* truth (transactions); star_payments, token_ledger and users hold what the *)
(* backend heard of it: from the bot's report of successful_payment, which   *)
(* may be lost or repeated, from staff refunds whose answer may be lost, and *)
(* from the reconciler, which pages through the transactions on every tick.  *)
(*                                                                         *)
(* A transaction that takes the payment's users row first (creditStarPayment,*)
(* recordStarRefund) is one step; Telegram is never called inside one.       *)
(***************************************************************************)
EXTENDS Integers, FiniteSets, Sequences

CONSTANTS
  Buyers, Charges, NoBuyer,
  BuyerOf,            \* the payload's users row, or NoBuyer
  Verdicts,         \* what the checks may say of a charge: subsets of {"paid", "held"}
  Tokens,           \* the package's tokens
  Staff,            \* the CLI and the admin's routes
  NewestFirst,      \* the order of getStarTransactions
  PageSize, MaxPages,
  MaxRequests,      \* bound: /paysupport's requests
  MaxReports,       \* bound: deliveries of one successful_payment
  MaxStarFaults         \* bound: calls that fail, answers that tell nothing, restarts

StarAssumption ==
  /\ NoBuyer \notin Buyers /\ IsFiniteSet(Charges)
  /\ BuyerOf \in [Charges -> Buyers \cup {NoBuyer}]
  /\ Verdicts \in [Charges -> (SUBSET {"paid", "held"}) \ {{}}]
  /\ Tokens \in [Charges -> Nat \ {0}]
  /\ NewestFirst \in BOOLEAN
  /\ {PageSize, MaxPages} \subseteq Nat \ {0}
  /\ {MaxRequests, MaxReports, MaxStarFaults} \subseteq Nat

VARIABLES
  transactions,     \* Telegram's: a sequence of [kind : {"in", "out"}, charge]
  reports, delivered, \* reports of a charge on their way, and deliveries made
  payments,         \* star_payments.status
  purchased, taken, \* token_ledger: purchase and refund of a payment
  balance, reserved, starsSpent, \* users, and what trades consumed
  requests,         \* star_refund_requests
  tick,             \* the reconciler's pass
  desk,             \* what each staff path is doing
  starFaults

tokens == <<purchased, taken, balance, reserved, starsSpent>>
starVars == <<transactions, reports, delivered, payments, tokens, requests, tick, desk, starFaults>>

NoTick == [phase |-> "idle", page |-> 0, size |-> 0, todo |-> {}, out |-> {}]
NoDesk == [at |-> "idle", charge |-> CHOOSE c \in Charges : TRUE]

StarInit ==
  /\ transactions = << >>
  /\ reports = [c \in Charges |-> 0]
  /\ delivered = [c \in Charges |-> 0]
  /\ payments = [c \in Charges |-> "none"]
  /\ purchased = [c \in Charges |-> 0]
  /\ taken = [c \in Charges |-> 0]
  /\ balance = [u \in Buyers |-> 0]
  /\ reserved = [u \in Buyers |-> 0]
  /\ starsSpent = [u \in Buyers |-> 0]
  /\ requests = {}
  /\ tick = NoTick
  /\ desk = [p \in Staff |-> NoDesk]
  /\ starFaults = 0

Charged(c)  == \E i \in DOMAIN transactions : transactions[i] = [kind |-> "in", charge |-> c]
Returned(c) == \E i \in DOMAIN transactions : transactions[i] = [kind |-> "out", charge |-> c]

StarFault == starFaults < MaxStarFaults /\ starFaults' = starFaults + 1

-----------------------------------------------------------------------------
(* The two writers                                                          *)

\* Mutant: the insert's conflict on the charge id is not looked at.
Recorded_Ignored(c) == FALSE

Recorded(c) == payments[c] # "none"

\* creditStarPayment
CreditStarPayment(c) ==
  LET u == BuyerOf[c] IN
  IF u = NoBuyer \/ Recorded(c) THEN UNCHANGED <<payments, tokens>>
  ELSE \E verdict \in Verdicts[c] :
         /\ payments' = [payments EXCEPT ![c] = verdict]
         /\ IF verdict = "paid"
            THEN /\ purchased' = [purchased EXCEPT ![c] = @ + Tokens[c]]
                 /\ balance' = [balance EXCEPT ![u] = @ + Tokens[c]]
                 /\ UNCHANGED <<taken, reserved, starsSpent>>
            ELSE UNCHANGED tokens

Credited(c) == IF payments[c] = "paid" THEN Tokens[c] ELSE 0

Available(u) == balance[u] - reserved[u]

\* recordStarRefund
RecordStarRefund(c) ==
  LET u == BuyerOf[c] IN
  IF payments[c] \notin {"paid", "held"} THEN UNCHANGED <<payments, tokens>>
  ELSE LET t == IF Credited(c) < Available(u) THEN Credited(c) ELSE Available(u) IN
         /\ payments' = [payments EXCEPT ![c] = "refunded"]
         /\ taken' = [taken EXCEPT ![c] = @ + t]
         /\ balance' = [balance EXCEPT ![u] = @ - t]
         /\ UNCHANGED <<purchased, reserved, starsSpent>>

-----------------------------------------------------------------------------
(* Telegram and the bot                                                     *)

\* The user pays: Telegram charges once and delivers successful_payment.
Pay(c) ==
  /\ ~Charged(c)
  /\ transactions' = Append(transactions, [kind |-> "in", charge |-> c])
  /\ UNCHANGED <<reports, delivered, payments, tokens, requests, tick, desk, starFaults>>

\* The bot's handler posts /payments/stars/paid; a bot that stopped before it confirmed the
\* update's offset handles it again.
Report(c) ==
  /\ Charged(c) /\ delivered[c] < MaxReports
  /\ delivered' = [delivered EXCEPT ![c] = @ + 1]
  /\ reports' = [reports EXCEPT ![c] = @ + 1]
  /\ UNCHANGED <<transactions, payments, tokens, requests, tick, desk, starFaults>>

\* The report does not arrive; the offset is confirmed all the same.
LoseReport(c) ==
  /\ reports[c] > 0
  /\ reports' = [reports EXCEPT ![c] = @ - 1]
  /\ UNCHANGED <<transactions, delivered, payments, tokens, requests, tick, desk, starFaults>>

\* POST /payments/stars/paid
Paid(c) ==
  /\ reports[c] > 0
  /\ reports' = [reports EXCEPT ![c] = @ - 1]
  /\ CreditStarPayment(c)
  /\ UNCHANGED <<transactions, delivered, requests, tick, desk, starFaults>>

\* requestStarRefund
RequestRefund(c) ==
  /\ payments[c] \in {"paid", "held"} /\ c \notin requests
  /\ Cardinality(requests) < MaxRequests
  /\ requests' = requests \cup {c}
  /\ UNCHANGED <<transactions, reports, delivered, payments, tokens, tick, desk, starFaults>>

\* A trade holds a token, gives it back, or consumes it.
Trade(u) ==
  /\ \/ /\ reserved[u] < balance[u]
        /\ reserved' = [reserved EXCEPT ![u] = @ + 1]
        /\ UNCHANGED <<balance, starsSpent>>
     \/ /\ reserved[u] > 0
        /\ reserved' = [reserved EXCEPT ![u] = @ - 1]
        /\ \/ UNCHANGED <<balance, starsSpent>>
           \/ /\ balance' = [balance EXCEPT ![u] = @ - 1]
              /\ starsSpent' = [starsSpent EXCEPT ![u] = @ + 1]
  /\ UNCHANGED <<transactions, reports, delivered, payments, purchased, taken, requests, tick, desk,
                 starFaults>>

-----------------------------------------------------------------------------
(* A refund by staff                                                        *)

\* stars refund, POST /admin/star-payments/:id/refund: the payment is read, without a lock.
ReadPayment(p, c) ==
  /\ desk[p].at = "idle"
  /\ payments[c] \in {"paid", "held"}
  /\ desk' = [desk EXCEPT ![p] = [at |-> "ask", charge |-> c]]
  /\ UNCHANGED <<transactions, reports, delivered, payments, tokens, requests, tick, starFaults>>

\* Telegram returns the Stars of one charge once.
Return(c) == transactions' = Append(transactions, [kind |-> "out", charge |-> c])

\* classifyRefundAnswer: an answer that tells nothing ends the attempt.
SaysNothing == "idle"

\* askRefund
AskRefund(p) ==
  LET c == desk[p].charge IN
  /\ desk[p].at = "ask"
  /\ \/ /\ Returned(c)                                   \* CHARGE_ALREADY_REFUNDED
        /\ desk' = [desk EXCEPT ![p].at = "record"]
        /\ UNCHANGED <<transactions, starFaults>>
     \/ /\ ~Returned(c)                                  \* true
        /\ Return(c)
        /\ desk' = [desk EXCEPT ![p].at = "record"]
        /\ UNCHANGED starFaults
     \/ /\ ~Returned(c)                                  \* refused
        /\ desk' = [desk EXCEPT ![p] = NoDesk]
        /\ UNCHANGED <<transactions, starFaults>>
     \/ /\ StarFault                                         \* 5xx, timeout: carried out or not
        /\ desk' = [desk EXCEPT ![p] = IF SaysNothing = "idle" THEN NoDesk
                                      ELSE [@ EXCEPT !.at = SaysNothing]]
        /\ (~Returned(c) /\ Return(c)) \/ UNCHANGED transactions
  /\ UNCHANGED <<reports, delivered, payments, tokens, requests, tick>>

\* recordStarRefundBySystem, recordStarRefundByStaff
RecordByStaff(p) ==
  /\ desk[p].at = "record"
  /\ RecordStarRefund(desk[p].charge)
  /\ desk' = [desk EXCEPT ![p] = NoDesk]
  /\ UNCHANGED <<transactions, reports, delivered, requests, tick, starFaults>>

\* The record failed after Telegram answered.
StaffFails(p) ==
  /\ desk[p].at = "record" /\ StarFault
  /\ desk' = [desk EXCEPT ![p] = NoDesk]
  /\ UNCHANGED <<transactions, reports, delivered, payments, tokens, requests, tick>>

\* A refund made by hand, or one that Telegram carried out after the answer was given up.
ReturnElsewhere(c) ==
  /\ Charged(c) /\ ~Returned(c)
  /\ Return(c)
  /\ UNCHANGED <<reports, delivered, payments, tokens, requests, tick, desk, starFaults>>

-----------------------------------------------------------------------------
(* The reconciler                                                           *)

\* The place of a transaction in the list, from 0.
Place(i) == IF NewestFirst THEN Len(transactions) - i ELSE i - 1

PageOf(n) ==
  {i \in DOMAIN transactions : n * PageSize <= Place(i) /\ Place(i) < (n + 1) * PageSize}

ChargesOf(kind, page) ==
  {transactions[i].charge : i \in {j \in page : transactions[j].kind = kind}}

\* tick: one at a time
StartPass ==
  /\ tick.phase = "idle"
  /\ tick' = [NoTick EXCEPT !.phase = "read"]
  /\ UNCHANGED <<transactions, reports, delivered, payments, tokens, requests, desk, starFaults>>

\* getStarTransactions
ReadPage ==
  /\ tick.phase = "read"
  /\ LET page == PageOf(tick.page) IN
       tick' = [tick EXCEPT !.phase = "known", !.size = Cardinality(page),
                            !.todo = ChargesOf("in", page), !.out = ChargesOf("out", page)]
  /\ UNCHANGED <<transactions, reports, delivered, payments, tokens, requests, desk, starFaults>>

\* listKnownStarCharges
ReadKnown ==
  /\ tick.phase = "known"
  /\ tick' = [tick EXCEPT !.phase = "credit",
                          !.todo = {c \in @ : payments[c] = "none"}]
  /\ UNCHANGED <<transactions, reports, delivered, payments, tokens, requests, desk, starFaults>>

\* settle: the page's charges one by one, here in any order
Settle(c) ==
  /\ tick.phase = "credit" /\ c \in tick.todo
  /\ CreditStarPayment(c)
  /\ tick' = [tick EXCEPT !.todo = @ \ {c}]
  /\ UNCHANGED <<transactions, reports, delivered, requests, desk, starFaults>>

\* listStarChargesToRefund
RefundsOf(out) == {c \in out : payments[c] \in {"paid", "held"}}

ReadRefunds ==
  /\ tick.phase = "credit" /\ tick.todo = {}
  /\ tick' = [tick EXCEPT !.phase = "record", !.out = RefundsOf(@)]
  /\ UNCHANGED <<transactions, reports, delivered, payments, tokens, requests, desk, starFaults>>

\* recordRefunds
RecordRefund(c) ==
  /\ tick.phase = "record" /\ c \in tick.out
  /\ RecordStarRefund(c)
  /\ tick' = [tick EXCEPT !.out = @ \ {c}]
  /\ UNCHANGED <<transactions, reports, delivered, requests, desk, starFaults>>

\* a short page, or the ceiling
IsLastPage == tick.size < PageSize \/ tick.page + 1 = MaxPages

NextPage ==
  /\ tick.phase = "record" /\ tick.out = {}
  /\ tick' = IF IsLastPage THEN NoTick
             ELSE [NoTick EXCEPT !.phase = "read", !.page = tick.page + 1]
  /\ UNCHANGED <<transactions, reports, delivered, payments, tokens, requests, desk, starFaults>>

\* getStarTransactions or the database failed, or the process stopped: the next tick starts over.
TickFails ==
  /\ tick.phase # "idle" /\ StarFault
  /\ tick' = NoTick
  /\ UNCHANGED <<transactions, reports, delivered, payments, tokens, requests, desk>>

-----------------------------------------------------------------------------
Reconciler ==
  \/ StartPass \/ ReadPage \/ ReadKnown \/ ReadRefunds \/ NextPage \/ TickFails
  \/ \E c \in Charges : Settle(c) \/ RecordRefund(c)

StarNext ==
  \/ \E c \in Charges : Pay(c) \/ Report(c) \/ LoseReport(c) \/ Paid(c) \/ RequestRefund(c)
  \/ \E c \in Charges : ReturnElsewhere(c)
  \/ \E u \in Buyers : Trade(u)
  \/ \E p \in Staff : AskRefund(p) \/ RecordByStaff(p) \/ StaffFails(p)
  \/ \E p \in Staff, c \in Charges : ReadPayment(p, c)
  \/ Reconciler

StarSpec == StarInit /\ [][StarNext]_starVars

-----------------------------------------------------------------------------
StarTypeOK ==
  /\ payments \in [Charges -> {"none", "paid", "held", "refunded"}]
  /\ {purchased, taken} \subseteq [Charges -> Nat]
  /\ {balance, reserved, starsSpent} \subseteq [Buyers -> Nat]
  /\ requests \subseteq Charges

OwnedBy(u) == {c \in Charges : BuyerOf[c] = u}

\* The sum of f over S, counted token by token.
Total(f, S) == Cardinality(UNION {{c} \X (1..f[c]) : c \in S})

\* Whoever reports a charge and however often, its tokens are credited once; a refund takes no more
\* than was credited, and the balance is what the ledger explains (star-payment-ops.ts:125-132).
ChargeCountsOnce ==
  /\ \A c \in Charges :
       /\ purchased[c] \in {0, Tokens[c]}
       /\ taken[c] <= purchased[c]
  /\ \A u \in Buyers :
       balance[u] + starsSpent[u] + Total(taken, OwnedBy(u)) = Total(purchased, OwnedBy(u))

\* A refund never takes a token that a live intent holds (star-payment-ops.ts:286-287).
ReserveIsCovered == \A u \in Buyers : reserved[u] <= balance[u]

\* Only Stars that went back are recorded as returned: an answer that told nothing, or a refusal,
\* records nothing (star-refund.ts:52-54).
RefundedWasReturned == \A c \in Charges : payments[c] = "refunded" => Returned(c)

\* However a charge is reported, refunded and reconciled: it counts once, a refund takes no held
\* token and is recorded only of Stars that went back.
StarsSafe == StarTypeOK /\ ChargeCountsOnce /\ ReserveIsCovered /\ RefundedWasReturned

=============================================================================
