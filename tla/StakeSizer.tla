----------------------------- MODULE StakeSizer -----------------------------
(***************************************************************************)
(* The stakes of one session (packages/stake/src/size.ts, money.ts): the   *)
(* fixed stake, and the bounded Martingale whose next stake recovers the   *)
(* losses of the streak and the profit of the base stake.  Amounts are     *)
(* integers of the smallest digit; a stake lies on the grid of `Unit`.     *)
(* The code reads the whole history for each decision; as a session has    *)
(* one trade at a time the ledger is kept here trade by trade.             *)
(***************************************************************************)
EXTENDS Integers

CONSTANTS
  Martingale,     \* the strategy: Martingale, or fixed
  Unit,           \* one step of stakeScale
  Percent,        \* PERCENT_DIVISOR: a payout of Percent doubles the stake
  Payouts,        \* the payouts the catalog may show; 0 stands for a refused one
  Bases,          \* base stakes
  MaxSteps, MaxStakeTimes, MaxLossTimes,  \* the limits of martingaleLimitsFor
  Minimums, Balances,  \* minTradeAmount and available
  MaxTrades       \* bound: the settled trades

ASSUME SizerAssumption ==
  /\ Martingale \in BOOLEAN
  /\ Unit \in Nat \ {0} /\ Percent \in Nat \ {0}
  /\ Payouts \subseteq Nat
  /\ Bases \subseteq Nat /\ \A b \in Bases : b > 0 /\ b % Unit = 0
  /\ MaxSteps \in Nat /\ MaxStakeTimes \in Nat \ {0} /\ MaxLossTimes \in Nat \ {0}
  /\ Minimums \subseteq Nat /\ Balances \subseteq Nat
  /\ MaxTrades \in Nat

VARIABLES
  base,
  ledger,    \* settled trades, losses in a row, what they lost, the session's sum
  open,      \* the trade without a result: stake and payout of its decision; a stake of 0 without one
  decision,  \* the last decision: "stake", or the reason of the stop
  won,       \* ghost: of the last win, its payouts, what its streak came to, and the sum it left
  plain      \* ghost: the one payout of a session of full losses so far, 0 otherwise

vars == <<base, ledger, open, decision, won, plain>>

NoTrade == [stake |-> 0, payout |-> 0]

Init ==
  /\ base \in Bases
  /\ ledger = [trades |-> 0, losses |-> 0, streak |-> 0, net |-> 0]
  /\ open = NoTrade
  /\ decision = "none"
  /\ won = [payout |-> 0, paid |-> 0, gain |-> 0, net |-> 0]
  /\ plain \in Payouts

-----------------------------------------------------------------------------
(* Money *)

DivCeil(a, b) == (a + b - 1) \div b

CeilToScale(v) == DivCeil(v, Unit) * Unit
FloorToScale(v) == (v \div Unit) * Unit

\* the profit the broker credits at least
ExpectedProfit(stake, payout) == FloorToScale((stake * payout) \div Percent)

\* Mutant: the target is not rounded up to the grid
Target_Exact(payout) == ledger.streak + ExpectedProfit(base, payout)

Target(payout) == CeilToScale(ledger.streak + ExpectedProfit(base, payout))

\* Mutant: one step of the grid too much
MartingaleStake_Above(payout) == CeilToScale(DivCeil(Target(payout) * Percent, payout)) + Unit

\* the smallest stake whose profit covers the target
MartingaleStake(payout) == CeilToScale(DivCeil(Target(payout) * Percent, payout))

-----------------------------------------------------------------------------
(* The decision *)

Step == IF Martingale THEN ledger.losses + 1 ELSE 1

Candidate(payout) == IF Martingale /\ Step > 1 THEN MartingaleStake(payout) ELSE base

RealizedLoss == IF ledger.net < 0 THEN -ledger.net ELSE 0

MaxStake == MaxStakeTimes * base
MaxSessionLoss == MaxLossTimes * base

\* Mutant: the loss so far is compared, without the stake
LossExceeds_Realized(stake) == RealizedLoss > MaxSessionLoss

LossExceeds(stake) == RealizedLoss + stake > MaxSessionLoss

\* the Martingale's limits, in their order
Limited(payout, late) ==
  IF late THEN "session_duration_exceeded"
  ELSE IF Step > MaxSteps THEN "max_steps_exceeded"
  ELSE IF payout = 0 THEN "invalid_payout"
  ELSE IF Candidate(payout) > MaxStake THEN "max_stake_exceeded"
  ELSE IF LossExceeds(Candidate(payout)) THEN "max_session_loss_exceeded"
  ELSE "none"

\* next()
Answer(payout, min, available, late) ==
  IF open # NoTrade THEN "unresolved_trade"
  ELSE IF Martingale /\ Limited(payout, late) # "none" THEN Limited(payout, late)
  ELSE IF Candidate(payout) < min THEN "below_min_trade_amount"
  ELSE IF Candidate(payout) > available THEN "insufficient_balance"
  ELSE "stake"

\* an attempt asks the sizer and opens the trade it answers
Ask(payout, min, available, late) ==
  /\ decision' = Answer(payout, min, available, late)
  /\ IF decision' = "stake"
       THEN /\ ledger.trades < MaxTrades
            /\ open' = [stake |-> Candidate(payout), payout |-> payout]
            /\ plain' = IF payout = plain THEN plain ELSE 0
       ELSE UNCHANGED <<open, plain>>
  /\ UNCHANGED <<base, ledger, won>>

-----------------------------------------------------------------------------
(* The trade *)

Opened == open # NoTrade

\* the order never opened: the streak is as it was
Rejected ==
  /\ Opened
  /\ open' = NoTrade
  /\ UNCHANGED <<base, ledger, decision, won, plain>>

\* one settled trade of readHistory
Counted(profit) ==
  [trades |-> ledger.trades + 1,
   net |-> ledger.net + profit,
   losses |-> IF profit > 0 THEN 0 ELSE IF profit < 0 THEN ledger.losses + 1 ELSE ledger.losses,
   streak |-> IF profit > 0 THEN 0 ELSE ledger.streak - profit]

\* the broker credits at least ExpectedProfit, at the payout it opened the trade with
Settle(profit, paid) ==
  /\ Opened
  /\ profit >= -open.stake
  /\ profit > 0 => profit >= ExpectedProfit(open.stake, paid)
  /\ ledger' = Counted(profit)
  /\ won' = IF profit > 0
              THEN [payout |-> open.payout, paid |-> paid, gain |-> ledger.net + profit - won.net,
                    net |-> ledger.net + profit]
              ELSE won
  /\ plain' = IF profit = -open.stake THEN plain ELSE 0
  /\ open' = NoTrade
  /\ UNCHANGED <<base, decision>>

Next ==
  \/ \E payout \in Payouts, min \in Minimums, available \in Balances, late \in BOOLEAN :
       Ask(payout, min, available, late)
  \/ Rejected
  \/ \E paid \in Payouts \ {0} :
       \E profit \in (-open.stake) .. ((open.stake * paid) \div Percent) : Settle(profit, paid)

Spec == Init /\ [][Next]_vars

-----------------------------------------------------------------------------
(* Properties *)

SizerTypeOK ==
  /\ base \in Bases
  /\ ledger.trades \in 0..MaxTrades /\ ledger.losses \in 0..ledger.trades
  /\ ledger.streak \in Nat /\ ledger.net \in Int
  /\ ledger.losses = 0 <=> ledger.streak = 0
  /\ open = NoTrade \/ open.stake > 0

\* No trade can take a Martingale session past maxSessionLoss, the open one included.
LossBounded ==
  Martingale => ledger.net - open.stake >= -MaxSessionLoss

\* A stake is on the grid, so it can be sent, and within maxStake.
StakeFits ==
  Opened => open.stake % Unit = 0 /\ (Martingale => open.stake <= MaxStake)

\* A win at the payout of its decision pays back everything its streak lost, ties and rejected
\* orders between, and the profit of the base stake on top.
WinRecovers ==
  Martingale /\ won.paid >= won.payout => won.gain >= ExpectedProfit(base, won.payout)

\* The stake is the smallest that does so (docs/stake.md, Formula).
LeastStake ==
  Martingale /\ Opened /\ ledger.losses > 0 =>
    ExpectedProfit(open.stake - Unit, open.payout) < Target(open.payout)

=============================================================================
