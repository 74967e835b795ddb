--------------------------- MODULE SessionsProofs ---------------------------
(***************************************************************************)
(* The sizer's guarantees for every grid, payout table, base, limit and    *)
(* history.  The arithmetic comes first: what rounding up and down bounds, *)
(* then that a stake of the formula earns its target and a step less does  *)
(* not.  The invariant adds what links the ledger to the last win and the  *)
(* open trade to the formula.  Then the orchestrator's ticks, for every    *)
(* number of sessions and all times of its configuration, and the notices  *)
(* of a session: its messages, its columns and what a turn remembers of a  *)
(* row, kept in step by every action.                                      *)
(***************************************************************************)
EXTENDS StakeSizer, SessionOrchestrator, SessionNotices, FiniteSetTheorems, WellFoundedInduction,
        NaturalsInduction, TLAPS

-----------------------------------------------------------------------------
(* Arithmetic *)

\* The floor of a division and its remainder: what divCeil and floorToScale are made of.
LEMMA DivBounds ==
  ASSUME NEW a \in Nat, NEW b \in Nat \ {0}
  PROVE  a \div b \in Nat /\ b * (a \div b) <= a /\ a < b * (a \div b) + b
OBVIOUS

\* A factor keeps the order.
LEMMA MulMonotone ==
  ASSUME NEW a \in Nat, NEW b \in Nat, NEW c \in Nat, a <= b
  PROVE  a * c <= b * c /\ c * a <= c * b
OBVIOUS

\* A product that is smaller has the smaller factor.
LEMMA MulStrict ==
  ASSUME NEW a \in Nat, NEW b \in Nat, NEW c \in Nat, a * c < b * c
  PROVE  a < b
OBVIOUS

\* Products of naturals are naturals.
LEMMA MulNat ==
  ASSUME NEW a \in Nat, NEW b \in Nat
  PROVE  a * b \in Nat /\ a * b = b * a
OBVIOUS

\* A multiple of the unit is on the grid, and dividing undoes the product.
LEMMA Multiple ==
  ASSUME NEW a \in Nat, NEW b \in Nat \ {0}
  PROVE  (a * b) % b = 0 /\ (a * b) \div b = a
OBVIOUS

\* A value on the grid is a multiple of the unit.
LEMMA OnGrid ==
  ASSUME NEW a \in Nat, NEW b \in Nat \ {0}, a % b = 0
  PROVE  a = (a \div b) * b
OBVIOUS

\* The floor of a division does not fall when the dividend grows.
LEMMA DivMonotone ==
  ASSUME NEW a \in Nat, NEW c \in Nat, NEW b \in Nat \ {0}, a <= c
  PROVE  a \div b <= c \div b
OBVIOUS

\* A dividend of at least q times the divisor has a floor of at least q.
LEMMA DivAtLeast ==
  ASSUME NEW a \in Nat, NEW q \in Nat, NEW b \in Nat \ {0}, q * b <= a
  PROVE  q <= a \div b
<1>1. (q * b) \in Nat /\ (q * b) \div b = q
  BY Multiple, MulNat
<1> QED
  BY <1>1, DivMonotone

\* A dividend below q times the divisor has a floor below q.
LEMMA DivBelow ==
  ASSUME NEW a \in Nat, NEW q \in Nat, NEW b \in Nat \ {0}, a < q * b
  PROVE  a \div b < q
<1>1. a \div b \in Nat /\ b * (a \div b) <= a
  BY DivBounds
<1>2. (a \div b) * b <= a
  BY <1>1, MulNat
<1>3. (a \div b) * b < q * b
  BY <1>1, <1>2, MulNat
<1> QED
  BY <1>1, <1>3, MulStrict

\* divCeil: the least quotient that covers the dividend.
LEMMA DivCeilBounds ==
  ASSUME NEW a \in Nat, NEW b \in Nat \ {0}
  PROVE  /\ DivCeil(a, b) \in Nat
         /\ a <= DivCeil(a, b) * b
         /\ DivCeil(a, b) * b < a + b
<1> DEFINE q == (a + b - 1) \div b
<1>1. a + b - 1 \in Nat
  OBVIOUS
<1>2. q \in Nat /\ b * q <= a + b - 1 /\ a + b - 1 < b * q + b
  BY <1>1, DivBounds
<1>3. b * q = q * b /\ b * q \in Nat
  BY <1>2, MulNat
<1>4. DivCeil(a, b) = q
  BY DEF DivCeil
<1> HIDE DEF q
<1> QED
  BY <1>2, <1>3, <1>4

\* ceilToScale: on the grid, at least the value and less than a step above it.
LEMMA CeilBounds ==
  ASSUME NEW v \in Nat
  PROVE  /\ CeilToScale(v) \in Nat /\ CeilToScale(v) % Unit = 0
         /\ v <= CeilToScale(v) /\ CeilToScale(v) < v + Unit
<1>1. Unit \in Nat \ {0}
  BY SizerAssumption DEF SizerAssumption
<1> DEFINE q == DivCeil(v, Unit)
<1>2. q \in Nat /\ v <= q * Unit /\ q * Unit < v + Unit
  BY <1>1, DivCeilBounds
<1> HIDE DEF q
<1>3. q * Unit \in Nat /\ (q * Unit) % Unit = 0
  BY <1>1, <1>2, MulNat, Multiple
<1>4. CeilToScale(v) = q * Unit
  BY DEF CeilToScale, q
<1> QED
  BY <1>2, <1>3, <1>4

\* floorToScale never rounds up.
LEMMA FloorBounds ==
  ASSUME NEW v \in Nat
  PROVE  FloorToScale(v) \in Nat /\ FloorToScale(v) <= v
<1>1. Unit \in Nat \ {0}
  BY SizerAssumption DEF SizerAssumption
<1>2. v \div Unit \in Nat /\ Unit * (v \div Unit) <= v
  BY <1>1, DivBounds
<1>3. (v \div Unit) * Unit \in Nat /\ (v \div Unit) * Unit = Unit * (v \div Unit)
  BY <1>1, <1>2, MulNat
<1> QED
  BY <1>2, <1>3 DEF FloorToScale

\* A value on the grid stays below the rounding of whatever is at least as large.
LEMMA FloorKeepsGrid ==
  ASSUME NEW v \in Nat, NEW g \in Nat, g % Unit = 0, g <= v
  PROVE  g <= FloorToScale(v)
<1>1. Unit \in Nat \ {0}
  BY SizerAssumption DEF SizerAssumption
<1>2. g = (g \div Unit) * Unit /\ g \div Unit \in Nat
  BY <1>1, OnGrid, DivBounds
<1>3. g \div Unit <= v \div Unit /\ v \div Unit \in Nat
  BY <1>1, DivMonotone, DivBounds
<1>4. (g \div Unit) * Unit <= (v \div Unit) * Unit
  BY <1>1, <1>2, <1>3, MulMonotone
<1> QED
  BY <1>2, <1>4 DEF FloorToScale

\* floorToScale does not fall when its value grows.
LEMMA FloorMonotone ==
  ASSUME NEW v \in Nat, NEW w \in Nat, v <= w
  PROVE  FloorToScale(v) <= FloorToScale(w)
<1>1. Unit \in Nat \ {0}
  BY SizerAssumption DEF SizerAssumption
<1>2. v \div Unit \in Nat /\ w \div Unit \in Nat /\ v \div Unit <= w \div Unit
  BY <1>1, DivMonotone, DivBounds
<1> QED
  BY <1>1, <1>2, MulMonotone DEF FloorToScale

-----------------------------------------------------------------------------
(* The formula *)

\* The profit of a stake is a natural number and grows with the stake's payout.
LEMMA ProfitBounds ==
  ASSUME NEW stake \in Nat, NEW low \in Nat, NEW high \in Nat, low <= high
  PROVE  /\ ExpectedProfit(stake, low) \in Nat
         /\ ExpectedProfit(stake, low) <= ExpectedProfit(stake, high)
<1>1. Percent \in Nat \ {0}
  BY SizerAssumption DEF SizerAssumption
<1>2. stake * low \in Nat /\ stake * high \in Nat /\ stake * low <= stake * high
  BY MulNat, MulMonotone
<1>3. /\ (stake * low) \div Percent \in Nat /\ (stake * high) \div Percent \in Nat
      /\ (stake * low) \div Percent <= (stake * high) \div Percent
  BY <1>1, <1>2, DivMonotone, DivBounds
<1> QED
  BY <1>3, FloorBounds, FloorMonotone DEF ExpectedProfit

\* A stake rounded up from the quotient earns a target on the grid.
LEMMA StakeEarns ==
  ASSUME NEW target \in Nat, target % Unit = 0, NEW payout \in Nat \ {0}
  PROVE  target <= ExpectedProfit(CeilToScale(DivCeil(target * Percent, payout)), payout)
<1>1. Percent \in Nat \ {0}
  BY SizerAssumption DEF SizerAssumption
<1> DEFINE need == DivCeil(target * Percent, payout)
<1> DEFINE stake == CeilToScale(need)
<1>2. target * Percent \in Nat
  BY <1>1, MulNat
<1>3. need \in Nat /\ target * Percent <= need * payout
  BY <1>2, DivCeilBounds
<1> HIDE DEF need
<1>4. stake \in Nat /\ need <= stake
  BY <1>3, CeilBounds
<1> HIDE DEF stake
<1>5. need * payout <= stake * payout /\ need * payout \in Nat /\ stake * payout \in Nat
  BY <1>3, <1>4, MulMonotone, MulNat
<1>6. target * Percent <= stake * payout
  BY <1>2, <1>3, <1>5
<1>7. target <= (stake * payout) \div Percent /\ (stake * payout) \div Percent \in Nat
  BY <1>1, <1>5, <1>6, DivAtLeast, DivBounds
<1>8. target <= FloorToScale((stake * payout) \div Percent)
  BY <1>7, FloorKeepsGrid
<1> QED
  BY <1>8 DEF ExpectedProfit, stake, need

\* One step of the grid less does not.
LEMMA LessEarnsLess ==
  ASSUME NEW target \in Nat, NEW payout \in Nat \ {0},
         Unit <= CeilToScale(DivCeil(target * Percent, payout))
  PROVE  ExpectedProfit(CeilToScale(DivCeil(target * Percent, payout)) - Unit, payout) < target
<1>1. Percent \in Nat \ {0} /\ Unit \in Nat \ {0}
  BY SizerAssumption DEF SizerAssumption
<1> DEFINE need == DivCeil(target * Percent, payout)
<1> DEFINE less == CeilToScale(need) - Unit
<1>2. target * Percent \in Nat
  BY <1>1, MulNat
<1>3. need \in Nat /\ need * payout < target * Percent + payout
  BY <1>2, DivCeilBounds
<1>4. Unit <= CeilToScale(need)
  OBVIOUS
<1> HIDE DEF need
<1>5. less \in Nat /\ less + 1 <= need
  BY <1>1, <1>3, <1>4, CeilBounds
<1> HIDE DEF less
<1>6. (less + 1) * payout <= need * payout /\ need * payout \in Nat /\ (less + 1) * payout \in Nat
  BY <1>3, <1>5, MulMonotone, MulNat
<1>7. (less + 1) * payout = less * payout + payout /\ less * payout \in Nat
  BY <1>5, MulNat
<1>8. less * payout < target * Percent
  BY <1>2, <1>3, <1>6, <1>7
<1>9. (less * payout) \div Percent < target /\ (less * payout) \div Percent \in Nat
  BY <1>1, <1>7, <1>8, DivBelow, DivBounds
<1>10. FloorToScale((less * payout) \div Percent) < target
  BY <1>9, FloorBounds
<1> QED
  BY <1>10 DEF ExpectedProfit, less, need

-----------------------------------------------------------------------------
(* The invariant *)

LedgerOK ==
  /\ ledger \in [trades : 0..MaxTrades, losses : Nat, streak : Nat, net : Int]
  /\ ledger.losses <= ledger.trades
  /\ ledger.losses = 0 <=> ledger.streak = 0

\* The open trade is a decision of the sizer over the ledger as it still is.
OpenOK ==
  \/ open = NoTrade
  \/ /\ open \in [stake : Nat \ {0}, payout : Payouts]
     /\ open.stake % Unit = 0
     /\ ledger.trades < MaxTrades
     /\ Martingale => open.stake <= MaxStake
     /\ Martingale /\ ledger.losses > 0 =>
          open.payout > 0 /\ open.stake = MartingaleStake(open.payout)
     /\ Martingale /\ ledger.losses = 0 => open.stake = base

\* Since the last win the session's sum fell by what the streak lost, and by nothing else.
WonOK ==
  /\ won \in [payout : Payouts \cup {0}, paid : Nat, gain : Int, net : Int]
  /\ won.net - ledger.net = ledger.streak

SizerInv ==
  /\ base \in Bases
  /\ LedgerOK /\ OpenOK /\ WonOK
  /\ LossBounded /\ WinRecovers

\* What the assumption says of a base stake.
LEMMA BaseOnGrid ==
  ASSUME base \in Bases
  PROVE  /\ base \in Nat \ {0} /\ base % Unit = 0 /\ Unit \in Nat \ {0} /\ Percent \in Nat \ {0}
         /\ MaxStake \in Nat /\ base <= MaxStake /\ MaxSessionLoss \in Nat
<1>1. base \in Nat \ {0} /\ base % Unit = 0 /\ Unit \in Nat \ {0} /\ Percent \in Nat \ {0}
  BY SizerAssumption DEF SizerAssumption
<1>2. MaxStakeTimes \in Nat \ {0} /\ MaxLossTimes \in Nat
  BY SizerAssumption DEF SizerAssumption
<1>3. MaxStakeTimes * base \in Nat /\ MaxLossTimes * base \in Nat /\ 1 * base <= MaxStakeTimes * base
  BY <1>1, <1>2, MulNat, MulMonotone
<1> QED
  BY <1>1, <1>3 DEF MaxStake, MaxSessionLoss

\* The target is on the grid and covers the streak and the base stake's profit.
LEMMA TargetCovers ==
  ASSUME base \in Bases, LedgerOK, NEW payout \in Nat
  PROVE  /\ Target(payout) \in Nat /\ Target(payout) % Unit = 0
         /\ ledger.streak + ExpectedProfit(base, payout) <= Target(payout)
         /\ ExpectedProfit(base, payout) \in Nat
<1>1. base \in Nat
  BY BaseOnGrid
<1>2. ExpectedProfit(base, payout) \in Nat
  BY <1>1, ProfitBounds
<1>3. ledger.streak \in Nat
  BY DEF LedgerOK
<1>4. ledger.streak + ExpectedProfit(base, payout) \in Nat
  BY <1>2, <1>3
<1> QED
  BY <1>2, <1>4, CeilBounds DEF Target

\* A stake of the formula is on the grid and positive once something was lost.
LEMMA FormulaStake ==
  ASSUME base \in Bases, LedgerOK, NEW payout \in Nat \ {0}
  PROVE  /\ MartingaleStake(payout) \in Nat /\ MartingaleStake(payout) % Unit = 0
         /\ ledger.losses > 0 => MartingaleStake(payout) > 0
<1> DEFINE target == Target(payout)
<1>1. target \in Nat /\ ledger.streak <= target
  <2>1. /\ target \in Nat
        /\ ledger.streak + ExpectedProfit(base, payout) <= target
        /\ ExpectedProfit(base, payout) \in Nat
    BY TargetCovers
  <2>2. ledger.streak \in Nat
    BY DEF LedgerOK
  <2> HIDE DEF target
  <2> QED
    BY <2>1, <2>2
<1>2. Percent \in Nat \ {0} /\ Unit \in Nat \ {0}
  BY SizerAssumption DEF SizerAssumption
<1> DEFINE need == DivCeil(target * Percent, payout)
<1>3. MartingaleStake(payout) = CeilToScale(need)
  BY DEF MartingaleStake
<1> HIDE DEF target
<1>4. target * Percent \in Nat
  BY <1>1, <1>2, MulNat
<1>5. need \in Nat /\ target * Percent <= need * payout
  BY <1>4, DivCeilBounds
<1> HIDE DEF need
<1>6. CeilToScale(need) \in Nat /\ CeilToScale(need) % Unit = 0 /\ need <= CeilToScale(need)
  BY <1>5, CeilBounds
<1>7. ASSUME ledger.losses > 0 PROVE need > 0
  <2>1. ledger.streak \in Nat /\ ledger.streak > 0
    BY <1>7 DEF LedgerOK
  <2>2. target > 0
    BY <1>1, <2>1
  <2>3. 1 * Percent <= target * Percent
    BY <1>1, <1>2, <2>2, MulMonotone
  <2>4. target * Percent > 0
    BY <1>2, <1>4, <2>3
  <2>5. need # 0
    BY <1>4, <1>5, <2>4
  <2> QED
    BY <1>5, <2>5
<1> QED
  BY <1>3, <1>5, <1>6, <1>7

-----------------------------------------------------------------------------
(* The steps *)

LEMMA InitHolds == Init => SizerInv
<1> SUFFICES ASSUME Init PROVE SizerInv
  OBVIOUS
<1>1. base \in Bases /\ base \in Nat /\ MaxSessionLoss \in Nat /\ MaxTrades \in Nat
  BY BaseOnGrid, SizerAssumption DEF Init, SizerAssumption
<1>2. LedgerOK /\ OpenOK /\ WonOK
  BY <1>1 DEF Init, LedgerOK, OpenOK, WonOK
<1>3. LossBounded
  BY <1>1 DEF Init, LossBounded, NoTrade
<1>4. ExpectedProfit(base, 0) = 0
  <2>1. Percent \in Nat \ {0}
    BY SizerAssumption DEF SizerAssumption
  <2>2. base * 0 = 0 /\ 0 \div Percent = 0
    BY <1>1, <2>1
  <2>3. FloorToScale(0) = 0
    BY FloorBounds
  <2> QED
    BY <2>2, <2>3 DEF ExpectedProfit
<1>5. WinRecovers
  BY <1>4 DEF Init, WinRecovers
<1> QED
  BY <1>1, <1>2, <1>3, <1>5 DEF SizerInv

\* What an answered stake has passed.
LEMMA AnsweredStake ==
  ASSUME SizerInv, NEW payout \in Payouts, NEW min \in Minimums, NEW available \in Balances,
         NEW expired \in BOOLEAN, Answer(payout, min, available, expired) = "stake"
  PROVE  /\ open = NoTrade
         /\ Candidate(payout) \in Nat \ {0} /\ Candidate(payout) % Unit = 0
         /\ Martingale => /\ Candidate(payout) <= MaxStake
                          /\ RealizedLoss + Candidate(payout) <= MaxSessionLoss
                          /\ payout > 0
                          /\ ledger.losses > 0 => Candidate(payout) = MartingaleStake(payout)
                          /\ ledger.losses = 0 => Candidate(payout) = base
<1>1. base \in Bases /\ LedgerOK
  BY DEF SizerInv
<1>2. /\ base \in Nat \ {0} /\ base % Unit = 0 /\ Unit \in Nat \ {0}
      /\ MaxStake \in Nat /\ MaxSessionLoss \in Nat
  BY <1>1, BaseOnGrid
<1>3. payout \in Nat
  BY SizerAssumption DEF SizerAssumption
<1>4. ledger.losses \in Nat /\ ledger.net \in Int /\ RealizedLoss \in Nat
  BY <1>1 DEF LedgerOK, RealizedLoss
<1>5. open = NoTrade /\ (Martingale => Limited(payout, expired) = "none")
  <2>1. Limited(payout, expired) # "stake"
    BY DEF Limited
  <2> QED
    BY <2>1 DEF Answer
<1>6. CASE ~Martingale
  <2>1. Candidate(payout) = base
    BY <1>6 DEF Candidate
  <2> QED
    BY <1>2, <1>5, <1>6, <2>1
<1>7. CASE Martingale
  <2>1. /\ payout # 0
        /\ ~(Candidate(payout) > MaxStake)
        /\ ~LossExceeds(Candidate(payout))
    BY <1>5, <1>7 DEF Limited
  <2>2. payout \in Nat \ {0}
    BY <1>3, <2>1
  <2>3. Step = ledger.losses + 1
    BY <1>7 DEF Step
  <2>4. /\ ledger.losses > 0 => Candidate(payout) = MartingaleStake(payout)
        /\ ledger.losses = 0 => Candidate(payout) = base
    BY <1>4, <1>7, <2>3 DEF Candidate
  <2>5. /\ MartingaleStake(payout) \in Nat /\ MartingaleStake(payout) % Unit = 0
        /\ ledger.losses > 0 => MartingaleStake(payout) > 0
    BY <1>1, <2>2, FormulaStake
  <2>6. Candidate(payout) \in Nat \ {0} /\ Candidate(payout) % Unit = 0
    BY <1>2, <1>4, <2>4, <2>5
  <2>7. Candidate(payout) <= MaxStake /\ RealizedLoss + Candidate(payout) <= MaxSessionLoss
    BY <1>2, <1>4, <2>1, <2>6 DEF LossExceeds
  <2> QED
    BY <1>5, <2>2, <2>4, <2>6, <2>7
<1> QED
  BY <1>6, <1>7

LEMMA AskHolds ==
  ASSUME SizerInv, NEW payout \in Payouts, NEW min \in Minimums, NEW available \in Balances,
         NEW expired \in BOOLEAN, Ask(payout, min, available, expired)
  PROVE  SizerInv'
<1> USE DEF SizerInv
<1>1. base' = base /\ ledger' = ledger /\ won' = won
  BY DEF Ask
<1>2. (base \in Bases)' /\ LedgerOK' /\ WonOK'
  BY <1>1 DEF LedgerOK, WonOK
<1>3. WinRecovers'
  BY <1>1 DEF WinRecovers, ExpectedProfit, FloorToScale
<1>4. CASE open' = open
  <2>1. OpenOK'
    BY <1>1, <1>4 DEF OpenOK, MaxStake, MartingaleStake, Target, ExpectedProfit, FloorToScale,
                      CeilToScale, DivCeil
  <2>2. LossBounded'
    BY <1>1, <1>4 DEF LossBounded, MaxSessionLoss
  <2> QED
    BY <1>2, <1>3, <2>1, <2>2
<1>5. CASE open' # open
  <2>1. /\ Answer(payout, min, available, expired) = "stake"
        /\ ledger.trades < MaxTrades
        /\ open' = [stake |-> Candidate(payout), payout |-> payout]
    BY <1>5 DEF Ask
  <2>2. /\ Candidate(payout) \in Nat \ {0} /\ Candidate(payout) % Unit = 0
        /\ Martingale => /\ Candidate(payout) <= MaxStake
                         /\ RealizedLoss + Candidate(payout) <= MaxSessionLoss
                         /\ payout > 0
                         /\ ledger.losses > 0 => Candidate(payout) = MartingaleStake(payout)
                         /\ ledger.losses = 0 => Candidate(payout) = base
    BY <2>1, AnsweredStake
  <2>3. open'.stake = Candidate(payout) /\ open'.payout = payout
    BY <2>1
  <2>4. MaxStake' = MaxStake /\ MaxSessionLoss' = MaxSessionLoss
    BY <1>1 DEF MaxStake, MaxSessionLoss
  <2>5. MartingaleStake(open.payout)' = MartingaleStake(payout)
    BY <1>1, <2>3 DEF MartingaleStake, Target, ExpectedProfit, FloorToScale, CeilToScale, DivCeil
  <2>6. open' \in [stake : Nat \ {0}, payout : Payouts]
    BY <2>1, <2>2
  <2>7. OpenOK'
    <3>1. Martingale => open'.stake <= MaxStake'
      BY <2>2, <2>3, <2>4
    <3>2. Martingale /\ ledger'.losses > 0 =>
            open'.payout > 0 /\ open'.stake = MartingaleStake(open.payout)'
      BY <1>1, <2>2, <2>3, <2>5
    <3>3. Martingale /\ ledger'.losses = 0 => open'.stake = base'
      BY <1>1, <2>2, <2>3
    <3> QED
      BY <1>1, <2>1, <2>2, <2>3, <2>6, <3>1, <3>2, <3>3 DEF OpenOK
  <2>8. LossBounded'
    <3>1. ledger.net \in Int
      BY DEF LedgerOK
    <3>2. MaxSessionLoss \in Nat
      BY BaseOnGrid
    <3>3. Martingale => ledger.net - Candidate(payout) >= -MaxSessionLoss
      BY <2>2, <3>1, <3>2 DEF RealizedLoss
    <3> QED
      BY <1>1, <2>3, <2>4, <3>3 DEF LossBounded
  <2> QED
    BY <1>2, <1>3, <2>7, <2>8
<1> QED
  BY <1>4, <1>5

LEMMA RejectedHolds ==
  ASSUME SizerInv, Rejected
  PROVE  SizerInv'
<1> USE DEF SizerInv
<1>1. base' = base /\ ledger' = ledger /\ won' = won /\ open' = NoTrade /\ open # NoTrade
  BY DEF Rejected, Opened
<1>2. (base \in Bases)' /\ LedgerOK' /\ WonOK' /\ OpenOK'
  BY <1>1 DEF LedgerOK, WonOK, OpenOK
<1>3. WinRecovers'
  BY <1>1 DEF WinRecovers, ExpectedProfit, FloorToScale
<1>4. LossBounded'
  <2>1. open.stake \in Nat /\ ledger.net \in Int /\ MaxSessionLoss \in Nat
    BY <1>1, BaseOnGrid DEF OpenOK, LedgerOK
  <2>2. open'.stake = 0 /\ MaxSessionLoss' = MaxSessionLoss /\ ledger'.net = ledger.net
    BY <1>1 DEF NoTrade, MaxSessionLoss
  <2>3. Martingale => ledger.net - open.stake >= -MaxSessionLoss
    BY DEF LossBounded
  <2>4. Martingale => ledger.net - 0 >= -MaxSessionLoss
    BY <2>1, <2>3
  <2> QED
    BY <2>2, <2>4 DEF LossBounded
<1> QED
  BY <1>2, <1>3, <1>4

\* A win earns at least what its decision aimed at.
LEMMA WinEarns ==
  ASSUME SizerInv, Martingale, Opened, NEW paid \in Payouts \ {0}, paid >= open.payout,
         NEW profit \in Int, profit >= ExpectedProfit(open.stake, paid)
  PROVE  profit - ledger.streak >= ExpectedProfit(base, open.payout)
<1>1. base \in Bases /\ LedgerOK /\ OpenOK /\ open # NoTrade
  BY DEF SizerInv, Opened
<1>2. /\ open.stake \in Nat \ {0} /\ open.payout \in Payouts
      /\ ledger.losses > 0 => open.payout > 0 /\ open.stake = MartingaleStake(open.payout)
      /\ ledger.losses = 0 => open.stake = base
  BY <1>1 DEF OpenOK
<1>3. paid \in Nat /\ open.payout \in Nat
  BY <1>2, SizerAssumption DEF SizerAssumption
<1>4. /\ ExpectedProfit(open.stake, open.payout) \in Nat
      /\ ExpectedProfit(open.stake, open.payout) <= ExpectedProfit(open.stake, paid)
      /\ ExpectedProfit(open.stake, paid) \in Nat
  <2>1. open.stake \in Nat /\ open.payout <= paid /\ paid <= paid
    BY <1>2, <1>3
  <2>2. ExpectedProfit(open.stake, paid) \in Nat
    BY <1>3, <2>1, ProfitBounds
  <2> QED
    BY <1>3, <2>1, <2>2, ProfitBounds
<1>5. profit >= ExpectedProfit(open.stake, open.payout)
  BY <1>4
<1>6. ledger.losses \in Nat /\ ledger.streak \in Nat /\ (ledger.losses = 0 => ledger.streak = 0)
  BY <1>1 DEF LedgerOK
<1>7. CASE ledger.losses = 0
  BY <1>2, <1>4, <1>5, <1>6, <1>7
<1>8. CASE ledger.losses > 0
  <2>1. /\ Target(open.payout) \in Nat /\ Target(open.payout) % Unit = 0
        /\ ledger.streak + ExpectedProfit(base, open.payout) <= Target(open.payout)
        /\ ExpectedProfit(base, open.payout) \in Nat
    BY <1>1, <1>3, TargetCovers
  <2>2. open.payout \in Nat \ {0}
    BY <1>2, <1>3, <1>8
  <2>3. Target(open.payout) <= ExpectedProfit(MartingaleStake(open.payout), open.payout)
    BY <2>1, <2>2, StakeEarns DEF MartingaleStake
  <2>4. Target(open.payout) <= ExpectedProfit(open.stake, open.payout)
    BY <1>2, <1>8, <2>3
  <2> QED
    BY <1>4, <1>5, <1>6, <2>1, <2>4
<1> QED
  BY <1>6, <1>7, <1>8

LEMMA SettleHolds ==
  ASSUME SizerInv, NEW paid \in Payouts \ {0}, NEW profit \in Int, Settle(profit, paid)
  PROVE  SizerInv'
<1> USE DEF SizerInv
<1>1. /\ base' = base /\ open' = NoTrade /\ open # NoTrade /\ Opened
      /\ profit >= -open.stake
      /\ profit > 0 => profit >= ExpectedProfit(open.stake, paid)
      /\ ledger' = Counted(profit)
      /\ won' = IF profit > 0
                  THEN [payout |-> open.payout, paid |-> paid,
                        gain |-> ledger.net + profit - won.net, net |-> ledger.net + profit]
                  ELSE won
  BY DEF Settle, Opened
<1>2. /\ open.stake \in Nat \ {0} /\ open.payout \in Payouts /\ ledger.trades < MaxTrades
  BY <1>1 DEF OpenOK
<1>3. /\ ledger.trades \in 0..MaxTrades /\ ledger.losses \in Nat /\ ledger.streak \in Nat
      /\ ledger.net \in Int /\ ledger.losses <= ledger.trades
      /\ (ledger.losses = 0 <=> ledger.streak = 0) /\ MaxTrades \in Nat
  BY SizerAssumption DEF LedgerOK, SizerAssumption
<1>4. /\ ledger'.trades = ledger.trades + 1
      /\ ledger'.net = ledger.net + profit
      /\ ledger'.losses = IF profit > 0 THEN 0
                          ELSE IF profit < 0 THEN ledger.losses + 1 ELSE ledger.losses
      /\ ledger'.streak = IF profit > 0 THEN 0 ELSE ledger.streak - profit
      /\ ledger' = [trades |-> ledger'.trades, net |-> ledger'.net,
                    losses |-> ledger'.losses, streak |-> ledger'.streak]
  BY <1>1 DEF Counted
<1>5. (base \in Bases)' /\ OpenOK'
  BY <1>1 DEF OpenOK
<1>6. LedgerOK'
  <2>1. ledger'.trades \in 0..MaxTrades /\ ledger'.net \in Int /\ ledger'.losses \in Nat
    BY <1>2, <1>3, <1>4
  <2>2. ledger'.streak \in Nat
    BY <1>3, <1>4
  <2>3. ledger'.losses <= ledger'.trades
    BY <1>3, <1>4
  <2>4. ledger'.losses = 0 <=> ledger'.streak = 0
    BY <1>3, <1>4
  <2>5. ledger' \in [trades : 0..MaxTrades, losses : Nat, streak : Nat, net : Int]
    BY <1>4, <2>1, <2>2
  <2> QED
    BY <2>3, <2>4, <2>5 DEF LedgerOK
<1>7. /\ won \in [payout : Payouts \cup {0}, paid : Nat, gain : Int, net : Int]
      /\ won.net - ledger.net = ledger.streak /\ won.net \in Int
  BY DEF WonOK
<1>8. paid \in Nat
  BY SizerAssumption DEF SizerAssumption
<1>9. WonOK'
  <2>1. CASE profit > 0
    <3>1. won'.net = ledger.net + profit
      BY <1>1, <2>1
    <3>2. won' \in [payout : Payouts \cup {0}, paid : Nat, gain : Int, net : Int]
      BY <1>1, <1>2, <1>3, <1>7, <1>8, <2>1
    <3>3. won'.net - ledger'.net = ledger'.streak
      BY <1>3, <1>4, <2>1, <3>1
    <3> QED
      BY <3>2, <3>3 DEF WonOK
  <2>2. CASE ~(profit > 0)
    <3>1. won' = won
      BY <1>1, <2>2
    <3>2. ledger'.net = ledger.net + profit /\ ledger'.streak = ledger.streak - profit
      BY <1>4, <2>2
    <3>3. won.net - ledger'.net = ledger'.streak
      BY <1>3, <1>7, <3>2
    <3> QED
      BY <1>7, <3>1, <3>3 DEF WonOK
  <2> QED
    BY <2>1, <2>2
<1>10. LossBounded'
  <2>1. MaxSessionLoss \in Nat /\ MaxSessionLoss' = MaxSessionLoss
    BY <1>1, BaseOnGrid DEF MaxSessionLoss
  <2>2. open'.stake = 0
    BY <1>1 DEF NoTrade
  <2>3. Martingale => ledger.net - open.stake >= -MaxSessionLoss
    BY DEF LossBounded
  <2>4. Martingale => ledger.net + profit - 0 >= -MaxSessionLoss
    BY <1>1, <1>2, <1>3, <2>1, <2>3
  <2>5. ledger'.net - open'.stake = ledger.net + profit - 0
    <3>1. ledger'.net = ledger.net + profit
      BY <1>4
    <3>2. ledger.net \in Int
      BY <1>3
    <3> QED
      BY <2>2, <3>1, <3>2
  <2>6. Martingale => ledger'.net - open'.stake >= -MaxSessionLoss'
    BY <2>1, <2>4, <2>5
  <2> QED
    BY <2>6 DEF LossBounded
<1>11. WinRecovers'
  <2>1. ASSUME NEW payout \in Nat
        PROVE  ExpectedProfit(base, payout)' = ExpectedProfit(base, payout)
    BY <1>1 DEF ExpectedProfit, FloorToScale
  <2>2. CASE profit > 0
    <3>1. /\ won'.payout = open.payout /\ won'.paid = paid
          /\ won'.gain = ledger.net + profit - won.net
      BY <1>1, <2>2
    <3>2. won'.gain = profit - ledger.streak
      BY <1>3, <1>7, <3>1
    <3>3. ASSUME Martingale, paid >= open.payout
          PROVE  won'.gain >= ExpectedProfit(base, open.payout)
      BY <1>1, <2>2, <3>2, <3>3, WinEarns
    <3>4. ExpectedProfit(base, won.payout)' = ExpectedProfit(base, open.payout)
      BY <1>1, <3>1 DEF ExpectedProfit, FloorToScale
    <3> QED
      BY <3>1, <3>3, <3>4 DEF WinRecovers
  <2>3. CASE ~(profit > 0)
    BY <1>1, <2>3 DEF WinRecovers, ExpectedProfit, FloorToScale
  <2> QED
    BY <2>2, <2>3
<1> QED
  BY <1>5, <1>6, <1>9, <1>10, <1>11

\* Every step of the sizer and of the trade keeps the invariant.
LEMMA StepHolds == SizerInv /\ [Next]_vars => SizerInv'
<1> SUFFICES ASSUME SizerInv, [Next]_vars PROVE SizerInv'
  OBVIOUS
<1>1. ASSUME NEW payout \in Payouts, NEW min \in Minimums, NEW available \in Balances,
             NEW expired \in BOOLEAN, Ask(payout, min, available, expired)
      PROVE  SizerInv'
  BY <1>1, AskHolds
<1>2. CASE Rejected
  BY <1>2, RejectedHolds
<1>3. ASSUME NEW paid \in Payouts \ {0},
             NEW profit \in (-open.stake) .. ((open.stake * paid) \div Percent),
             Settle(profit, paid)
      PROVE  SizerInv'
  <2>1. profit \in Int
    OBVIOUS
  <2> QED
    BY <1>3, <2>1, SettleHolds
<1>4. CASE UNCHANGED vars
  BY <1>4 DEF SizerInv, LedgerOK, OpenOK, WonOK, LossBounded, WinRecovers, MaxStake, MaxSessionLoss,
              MartingaleStake, Target, ExpectedProfit, FloorToScale, CeilToScale, DivCeil, vars
<1> QED
  BY <1>1, <1>2, <1>3, <1>4 DEF Next

\* The invariant holds in every state of every history.
THEOREM InvariantHolds == Spec => []SizerInv
<1>1. Init => SizerInv
  BY InitHolds
<1>2. SizerInv /\ [Next]_vars => SizerInv'
  BY StepHolds
<1> QED
  BY <1>1, <1>2, PTL DEF Spec

\* The ledger counts what was settled, and a positive stake is open or none.
THEOREM TypeHolds == Spec => []SizerTypeOK
<1>1. SizerInv => SizerTypeOK
  <2> SUFFICES ASSUME SizerInv PROVE SizerTypeOK
    OBVIOUS
  <2>1. base \in Bases /\ LedgerOK /\ OpenOK /\ MaxTrades \in Nat
    BY SizerAssumption DEF SizerInv, SizerAssumption
  <2>2. open = NoTrade \/ open.stake > 0
    BY <2>1 DEF OpenOK
  <2> QED
    BY <2>1, <2>2 DEF LedgerOK, SizerTypeOK
<1> QED
  BY <1>1, InvariantHolds, PTL

\* size.ts max_session_loss_exceeded: no open trade can take the session past its loss limit.
THEOREM LossIsBounded == Spec => []LossBounded
<1>1. SizerInv => LossBounded
  BY DEF SizerInv
<1> QED
  BY <1>1, InvariantHolds, PTL

\* Every stake that leaves next() is on the catalog's grid and within maxStake.
THEOREM StakeIsSendable == Spec => []StakeFits
<1>1. SizerInv => StakeFits
  BY DEF SizerInv, OpenOK, StakeFits, Opened
<1> QED
  BY <1>1, InvariantHolds, PTL

\* docs/stake.md, Formula: one win recovers the streak and the base stake's profit.
THEOREM WinPaysBack == Spec => []WinRecovers
<1>1. SizerInv => WinRecovers
  BY DEF SizerInv
<1> QED
  BY <1>1, InvariantHolds, PTL

\* docs/stake.md, Formula: and no smaller stake of the grid would.
THEOREM StakeIsLeast == Spec => []LeastStake
<1>1. SizerInv => LeastStake
  <2> SUFFICES ASSUME SizerInv, Martingale, Opened, ledger.losses > 0
               PROVE  ExpectedProfit(open.stake - Unit, open.payout) < Target(open.payout)
    BY DEF LeastStake
  <2>1. base \in Bases /\ LedgerOK /\ OpenOK /\ open # NoTrade /\ Unit \in Nat \ {0}
    BY SizerAssumption DEF SizerInv, Opened, SizerAssumption
  <2>2. /\ open.stake \in Nat \ {0} /\ open.stake % Unit = 0 /\ open.payout \in Payouts
        /\ open.payout > 0 /\ open.stake = MartingaleStake(open.payout)
    BY <2>1 DEF OpenOK
  <2>3. open.payout \in Nat \ {0}
    <3>1. open.payout \in Nat
      BY <2>2, SizerAssumption DEF SizerAssumption
    <3> QED
      BY <2>2, <3>1
  <2>4. Target(open.payout) \in Nat
    BY <2>1, <2>3, TargetCovers
  <2>5. Unit <= open.stake
    <3>1. open.stake = (open.stake \div Unit) * Unit /\ open.stake \div Unit \in Nat
      BY <2>1, <2>2, OnGrid, DivBounds
    <3>2. open.stake \div Unit >= 1
      BY <2>1, <2>2, <3>1
    <3>3. 1 * Unit <= (open.stake \div Unit) * Unit
      BY <2>1, <3>1, <3>2, MulMonotone
    <3> QED
      BY <2>1, <3>1, <3>3
  <2> QED
    BY <2>2, <2>3, <2>4, <2>5, LessEarnsLess DEF MartingaleStake
<1> QED
  BY <1>1, InvariantHolds, PTL

-----------------------------------------------------------------------------
(* The orchestrator *)

\* How long the last sweeps may be ago.
SweepBound(m) == (1 + m) * Tick + Deadline

\* Between ticks the interval's next tick comes in time; a tick with the sweeps has just run them,
\* and one without began within a tick of the last, with a full one behind it or the interval's due.
SweepClock ==
  /\ tick.at = "none" => sinceFull + timer <= SweepBound(missed)
  /\ tick.at = "sweep" => tick.full /\ tick.age = 0
  /\ tick.at \notin {"none", "sweep"} /\ tick.full => sinceFull = tick.age
  /\ tick.at \notin {"none", "sweep"} /\ ~tick.full =>
       sinceFull < Tick + tick.age /\ (pendingFull \/ sinceFull + timer <= SweepBound(missed))

OrchestratorInv == WakesAreServed /\ SweepClock

\* The configuration's times are naturals.
LEMMA ConfigTimes ==
  /\ Tick \in Nat \ {0} /\ Deadline \in Nat \ {0}
  /\ Check \in Nat /\ Retry \in Nat /\ Tick <= Retry
BY OrchestratorAssumption DEF OrchestratorAssumption, sessionOrchestratorConfigHolds

\* The bound leaves a tick and a batch, and a failed sweep adds a tick.
LEMMA BoundGrows ==
  ASSUME NEW m \in Nat
  PROVE  /\ SweepBound(m) \in Nat /\ Tick + Deadline <= SweepBound(m)
         /\ SweepBound(m + 1) = SweepBound(m) + Tick
<1>1. Tick \in Nat /\ Deadline \in Nat  BY ConfigTimes
<1>2. m * Tick \in Nat  BY <1>1
<1>3. (1 + m) * Tick = m * Tick + Tick /\ (1 + (m + 1)) * Tick = m * Tick + Tick + Tick  BY <1>1
<1>4. QED  BY <1>1, <1>2, <1>3 DEF SweepBound

\* What a tick that starts is, and what it leaves pending.
Started(accounts, f) ==
  /\ tick' \in TickType
  /\ tick'.at = IF IsFull(f, accounts) THEN "sweep" ELSE "scan"
  /\ tick'.full = IsFull(f, accounts) /\ tick'.accounts = accounts /\ tick'.age = 0
  /\ pending' = FALSE /\ pendingAccounts' = {} /\ pendingFull' = FALSE

\* The record without a tick is one of the type.
LEMMA NoTickType == NoTick \in TickType /\ NoTick.at = "none"
<1>1. 0 \in 0..Deadline /\ [s \in Sessions |-> 0] \in [Sessions -> 0..Retry]  BY ConfigTimes
<1>2. QED  BY <1>1 DEF NoTick, TickType

\* A tick starts as runTick reads what was pending.
LEMMA StartGives ==
  ASSUME NEW accounts \in SUBSET Sessions, NEW f \in BOOLEAN, StartTick(accounts, f)
  PROVE  Started(accounts, f)
<1>1. IsFull(f, accounts) \in BOOLEAN  BY DEF IsFull
<1>2. 0 \in 0..Deadline /\ [s \in Sessions |-> 0] \in [Sessions -> 0..Retry]  BY ConfigTimes
<1>3. tick' = [at |-> IF IsFull(f, accounts) THEN "sweep" ELSE "scan", full |-> IsFull(f, accounts),
               accounts |-> accounts, batch |-> {}, stops |-> {}, waiting |-> {},
               holds |-> [s \in Sessions |-> 0], failed |-> {}, age |-> 0]
  BY DEF StartTick, Begun, NoTick
<1>4. QED  BY <1>1, <1>2, <1>3 DEF Started, StartTick, TickType

\* The first tick of a worker.
LEMMA FirstTickType ==
  FirstTick \in TickType /\ FirstTick.at = "sweep" /\ FirstTick.full /\ FirstTick.age = 0
BY NoTickType DEF FirstTick, NoTick, TickType

\* The initial state of a worker.
LEMMA OrchestratorInitHolds == OrchestratorInit => OrchestratorInv
<1> SUFFICES ASSUME OrchestratorInit PROVE OrchestratorInv  OBVIOUS
<1> USE DEF OrchestratorInit
<1>1. OrchestratorTypeOK
  <2>1. held \in [Sessions -> 0..Retry] /\ timer \in 0..Tick /\ sinceFull \in Nat  BY ConfigTimes
  <2>2. tick \in TickType /\ tick.at # "none"  BY FirstTickType
  <2>3. ~pending /\ ~pendingFull /\ pendingAccounts = {} /\ missed = 0 /\ asked \in Orders  OBVIOUS
  <2>4. pending \in BOOLEAN /\ pendingFull \in BOOLEAN  OBVIOUS
  <2> HIDE DEF OrchestratorInit
  <2>5. QED  BY <2>1, <2>2, <2>3, <2>4 DEF OrchestratorTypeOK
<1>2. WakeIsKept  BY DEF WakeIsKept
<1>3. SweepsNotStarved  BY ConfigTimes DEF SweepsNotStarved
<1>4. SweepClock  BY FirstTickType DEF SweepClock
<1>5. QED  BY <1>1, <1>2, <1>3, <1>4 DEF OrchestratorInv, WakesAreServed

\* What the parts of the invariant read.
Watched == <<held, pending, pendingAccounts, pendingFull, tick, timer, sinceFull, asked, owed, missed>>

\* A session is only ever stopped here.
ActiveOK == active \subseteq Sessions

\* No step of the model makes a session active.
LEMMA ActiveStays == ActiveOK /\ [OrchestratorNext]_orchestratorVars => ActiveOK'
<1> SUFFICES ASSUME ActiveOK, [OrchestratorNext]_orchestratorVars PROVE active' \subseteq active
  BY DEF ActiveOK
<1>1. CASE UNCHANGED orchestratorVars  BY <1>1 DEF orchestratorVars, world
<1>2. ASSUME NEW s \in Sessions,
             StartTrade(s) \/ EndTrade(s) \/ StopByUser(s) \/ Wake(s) \/ StopLands(s)
      PROVE  active' \subseteq active
  BY <1>2 DEF StartTrade, EndTrade, StopByUser, Wake, StopLands
<1>3. CASE Interval \/ GiveUp \/ Restart \/ TimePasses
  BY <1>3 DEF Interval, GiveUp, Restart, TimePasses, world
<1>4. CASE TickFails
  BY <1>4 DEF TickFails
<1>5. CASE TickSteps
  <2>1. CASE Sweep \/ WriteStops  BY <2>1 DEF Sweep, WriteStops
  <2>2. CASE Scan \/ Read \/ Pairs \/ Mark \/ Hold
    BY <2>2 DEF Scan, Read, Pairs, Mark, Hold, world
  <2>3. QED  BY <1>5, <2>1, <2>2 DEF TickSteps
<1>6. QED  BY <1>1, <1>2, <1>3, <1>4, <1>5 DEF OrchestratorNext

\* A step of the world leaves the invariant alone.
LEMMA UnwatchedHolds == OrchestratorInv /\ UNCHANGED Watched => OrchestratorInv'
BY DEF OrchestratorInv, WakesAreServed, OrchestratorTypeOK, WakeIsKept, SweepsNotStarved, SweepClock,
       Watched

\* A tick that ends starts what came meanwhile: the wakes that are left are pending ones, and the
\* interval's next tick comes in time unless a full one is pending.
LEMMA EndHolds ==
  ASSUME OrchestratorTypeOK, Ended, timer' = timer, sinceFull' = sinceFull, missed' \in Nat,
         held' \in [Sessions -> 0..Retry], asked' \in Orders,
         sinceFull <= SweepBound(missed'),
         pendingFull \/ sinceFull + timer <= SweepBound(missed'),
         \A s \in owed' : pendingFull \/ s \in pendingAccounts
  PROVE  OrchestratorInv'
<1>1. /\ pendingAccounts \in SUBSET Sessions /\ pendingFull \in BOOLEAN /\ pending \in BOOLEAN
      /\ sinceFull \in Nat /\ timer \in 0..Tick /\ (pendingAccounts # {} => pending)
  BY DEF OrchestratorTypeOK
<1>2. CASE pending \/ pendingFull
  <2>1. Started(pendingAccounts, pendingFull)  BY <1>1, <1>2, StartGives DEF Ended
  <2> HIDE DEF Started
  <2>2. OrchestratorTypeOK'  BY <1>1, <2>1 DEF OrchestratorTypeOK, Started
  <2>3. WakeIsKept'
    <3>1. ASSUME NEW s \in owed' PROVE tick'.full \/ s \in tick'.accounts
      BY <2>1 DEF Started, IsFull
    <3>2. tick'.at \in {"sweep", "scan"}  BY <2>1 DEF Started
    <3>3. QED  BY <3>1, <3>2 DEF WakeIsKept
  <2>4. SweepsNotStarved'  BY <1>1 DEF SweepsNotStarved, SweepBound
  <2>5. SweepClock'
    <3>1. CASE IsFull(pendingFull, pendingAccounts)
      BY <2>1, <3>1 DEF SweepClock, Started
    <3>2. CASE ~IsFull(pendingFull, pendingAccounts)
      <4>1. ~pendingFull /\ sinceFull < Tick  BY <1>1, <3>2, ConfigTimes DEF IsFull
      <4>2. tick'.at = "scan" /\ tick'.full = FALSE /\ tick'.age = 0  BY <2>1, <3>2 DEF Started
      <4>3. QED  BY <1>1, <4>1, <4>2, ConfigTimes DEF SweepClock
    <3>3. QED  BY <3>1, <3>2
  <2>6. QED  BY <2>2, <2>3, <2>4, <2>5 DEF OrchestratorInv, WakesAreServed
<1>3. CASE ~(pending \/ pendingFull)
  <2>1. /\ tick' = NoTick /\ pending' = FALSE /\ pendingFull' = FALSE
        /\ pendingAccounts = {} /\ pendingAccounts' = {}
    BY <1>1, <1>3 DEF Ended
  <2>2. OrchestratorTypeOK'  BY <1>1, <2>1, NoTickType DEF OrchestratorTypeOK
  <2>3. WakeIsKept'  BY <1>3, <2>1 DEF WakeIsKept
  <2>4. SweepsNotStarved'  BY <1>1 DEF SweepsNotStarved, SweepBound
  <2>5. SweepClock'  BY <1>1, <1>3, <2>1, NoTickType DEF SweepClock
  <2>6. QED  BY <2>2, <2>3, <2>4, <2>5 DEF OrchestratorInv, WakesAreServed
<1>4. QED  BY <1>2, <1>3

\* At the end of a tick that is past its sweeps the interval's next one comes in time.
LEMMA ClockAtEnd ==
  ASSUME OrchestratorInv, tick.at \notin {"none", "sweep"}
  PROVE  /\ sinceFull <= SweepBound(missed)
         /\ pendingFull \/ sinceFull + timer <= SweepBound(missed)
<1>1. /\ tick.full \in BOOLEAN /\ tick.age \in 0..Deadline /\ timer \in 0..Tick /\ sinceFull \in Nat
      /\ missed \in Nat
  BY DEF OrchestratorInv, WakesAreServed, OrchestratorTypeOK, TickType
<1>2. SweepBound(missed) \in Nat /\ Tick + Deadline <= SweepBound(missed)  BY <1>1, BoundGrows
<1>3. sinceFull <= SweepBound(missed)
  BY DEF OrchestratorInv, WakesAreServed, SweepsNotStarved, SweepBound
<1>4. CASE tick.full
  BY <1>1, <1>2, <1>3, <1>4, ConfigTimes DEF OrchestratorInv, SweepClock
<1>5. CASE ~tick.full  BY <1>3, <1>5 DEF OrchestratorInv, SweepClock
<1>6. QED  BY <1>4, <1>5

\* The scan serves the wakes it sees.
LEMMA ScanHolds == OrchestratorInv /\ ActiveOK /\ Scan => OrchestratorInv'
<1> SUFFICES ASSUME OrchestratorInv, ActiveOK, Scan PROVE OrchestratorInv'  OBVIOUS
<1>1. /\ OrchestratorTypeOK /\ tick \in TickType /\ tick.at = "scan" /\ missed \in Nat
      /\ UNCHANGED <<held, timer, sinceFull, missed, asked>>
  BY DEF OrchestratorInv, WakesAreServed, OrchestratorTypeOK, Scan, world
<1>2. \A s \in owed' : pendingFull \/ s \in pendingAccounts
  BY <1>1 DEF OrchestratorInv, WakesAreServed, WakeIsKept, Scan, TickType
<1>3. CASE Batch = {}
  <2>1. Ended  BY <1>3 DEF Scan
  <2>2. held' \in [Sessions -> 0..Retry] /\ asked' \in Orders  BY <1>1 DEF OrchestratorTypeOK
  <2>3. sinceFull <= SweepBound(missed) /\ (pendingFull \/ sinceFull + timer <= SweepBound(missed))
    BY <1>1, ClockAtEnd
  <2>4. QED  BY <1>1, <1>2, <2>1, <2>2, <2>3, EndHolds
<1>4. CASE Batch # {}
  <2>1. tick' = [tick EXCEPT !.at = "read", !.batch = Batch]
        /\ UNCHANGED <<pending, pendingAccounts, pendingFull>>
    BY <1>4 DEF Scan
  <2>2. Batch \in SUBSET Sessions
    BY DEF Batch, Runnable, ActiveOK
  <2>3. tick' \in TickType /\ tick'.at = "read" /\ tick'.full = tick.full /\ tick'.age = tick.age
    BY <1>1, <2>1, <2>2 DEF TickType
  <2>4. OrchestratorTypeOK'  BY <1>1, <2>1, <2>3 DEF OrchestratorTypeOK
  <2>5. WakeIsKept'  BY <1>2, <2>1, <2>3 DEF WakeIsKept
  <2>6. SweepsNotStarved' /\ SweepClock'
    BY <1>1, <2>1, <2>3 DEF OrchestratorInv, WakesAreServed, SweepsNotStarved, SweepClock
  <2>7. QED  BY <2>4, <2>5, <2>6 DEF OrchestratorInv, WakesAreServed
<1>5. QED  BY <1>3, <1>4

\* The steps of a batch, from the reads to the marks.
Batching == {"read", "pairs", "stop", "mark", "hold"}

\* A step inside a batch keeps the tick's kind and its age.
LEMMA BatchStep ==
  ASSUME OrchestratorInv, tick.at \in Batching, tick' \in TickType, tick'.at \in Batching,
         tick'.full = tick.full, tick'.age = tick.age, asked' \in Orders,
         UNCHANGED <<held, pending, pendingAccounts, pendingFull, timer, sinceFull, owed, missed>>
  PROVE  OrchestratorInv'
<1>1. OrchestratorTypeOK'  BY DEF OrchestratorInv, WakesAreServed, OrchestratorTypeOK, Batching
<1>2. WakeIsKept'  BY DEF OrchestratorInv, WakesAreServed, WakeIsKept, Batching
<1>3. SweepsNotStarved' /\ SweepClock'
  BY DEF OrchestratorInv, WakesAreServed, SweepsNotStarved, SweepClock, Batching
<1>4. QED  BY <1>1, <1>2, <1>3 DEF OrchestratorInv, WakesAreServed

\* The reads.
LEMMA ReadHolds == OrchestratorInv /\ Read => OrchestratorInv'
<1> SUFFICES ASSUME OrchestratorInv, Read PROVE OrchestratorInv'  OBVIOUS
<1>1. tick \in TickType /\ tick.at = "read" /\ asked' \in Orders
  BY DEF OrchestratorInv, WakesAreServed, OrchestratorTypeOK, Read, world
<1>2. PICK stops \in SUBSET ((tick.batch \cap due) \ live) :
        tick' = [tick EXCEPT !.at = "pairs", !.stops = stops, !.waiting = tick.batch \ (stops \cup live)]
  BY DEF Read
<1>3. stops \in SUBSET Sessions /\ tick.batch \ (stops \cup live) \in SUBSET Sessions
  BY <1>1 DEF TickType
<1>4. tick' \in TickType /\ tick'.at = "pairs" /\ tick'.full = tick.full /\ tick'.age = tick.age
  BY <1>1, <1>2, <1>3 DEF TickType
<1>5. UNCHANGED <<held, pending, pendingAccounts, pendingFull, timer, sinceFull, owed, missed>>  BY DEF Read
<1>6. QED  BY <1>1, <1>4, <1>5, BatchStep DEF Batching

\* The decisions at the pairs.
LEMMA PairsHolds == OrchestratorInv /\ Pairs => OrchestratorInv'
<1> SUFFICES ASSUME OrchestratorInv, Pairs PROVE OrchestratorInv'  OBVIOUS
<1>1. tick \in TickType /\ tick.at = "pairs" /\ asked' \in Orders
  BY DEF OrchestratorInv, WakesAreServed, OrchestratorTypeOK, Pairs, world
<1>2. PICK fresh \in BOOLEAN, failed \in SUBSET tick.waiting :
        LET stops == IF fresh THEN (tick.waiting \cap due) \ failed ELSE {}
        IN \E hold \in [tick.waiting \ stops -> IF fresh THEN Tick..Retry ELSE {Retry}] :
             /\ \A s \in failed : hold[s] = Retry
             /\ tick' = [tick EXCEPT !.at = "stop", !.stops = @ \cup stops, !.failed = failed,
                          !.holds = [s \in Sessions |-> IF s \in DOMAIN hold THEN hold[s] ELSE 0]]
  BY DEF Pairs
<1> DEFINE stops == IF fresh THEN (tick.waiting \cap due) \ failed ELSE {}
<1>3. PICK hold \in [tick.waiting \ stops -> IF fresh THEN Tick..Retry ELSE {Retry}] :
        tick' = [tick EXCEPT !.at = "stop", !.stops = @ \cup stops, !.failed = failed,
                  !.holds = [s \in Sessions |-> IF s \in DOMAIN hold THEN hold[s] ELSE 0]]
  BY <1>2
<1> DEFINE holds == [s \in Sessions |-> IF s \in DOMAIN hold THEN hold[s] ELSE 0]
<1>4. holds \in [Sessions -> 0..Retry]
  <2>1. ASSUME NEW s \in Sessions PROVE (IF s \in DOMAIN hold THEN hold[s] ELSE 0) \in 0..Retry
    <3>1. 0 \in 0..Retry /\ Tick..Retry \subseteq 0..Retry /\ {Retry} \subseteq 0..Retry  BY ConfigTimes
    <3>2. QED  BY <3>1
  <2>2. QED  BY <2>1
<1>5. stops \in SUBSET Sessions /\ failed \in SUBSET Sessions  BY <1>1 DEF TickType
<1>6. tick' = [tick EXCEPT !.at = "stop", !.stops = @ \cup stops, !.failed = failed, !.holds = holds]
  BY <1>3
<1> HIDE DEF stops, holds
<1>7. tick' \in TickType /\ tick'.at = "stop" /\ tick'.full = tick.full /\ tick'.age = tick.age
  BY <1>1, <1>4, <1>5, <1>6 DEF TickType
<1>8. UNCHANGED <<held, pending, pendingAccounts, pendingFull, timer, sinceFull, owed, missed>>  BY DEF Pairs
<1>9. QED  BY <1>1, <1>7, <1>8, BatchStep DEF Batching

\* The writes of the batch.
LEMMA WritesHold == OrchestratorInv /\ (WriteStops \/ Mark) => OrchestratorInv'
<1> SUFFICES ASSUME OrchestratorInv, WriteStops \/ Mark PROVE OrchestratorInv'  OBVIOUS
<1>1. tick \in TickType /\ tick.at \in {"stop", "mark"} /\ asked \in Orders
  BY DEF OrchestratorInv, WakesAreServed, OrchestratorTypeOK, WriteStops, Mark
<1>2. asked' \in Orders  BY <1>1 DEF WriteStops, Mark, Redecided
<1>3. tick' = [tick EXCEPT !.at = "mark"] \/ tick' = [tick EXCEPT !.at = "hold"]
  BY DEF WriteStops, Mark
<1>4. tick' \in TickType /\ tick'.at \in Batching /\ tick'.full = tick.full /\ tick'.age = tick.age
  BY <1>1, <1>3 DEF TickType, Batching
<1>5. UNCHANGED <<held, pending, pendingAccounts, pendingFull, timer, sinceFull, owed, missed>>
  BY DEF WriteStops, Mark
<1>6. QED  BY <1>1, <1>2, <1>4, <1>5, BatchStep DEF Batching

\* Outside the sweeps and the scan a wake is kept as a pending one.
LEMMA KeptPending ==
  ASSUME OrchestratorInv, tick.at \notin {"sweep", "scan"}
  PROVE  \A s \in owed : pendingFull \/ s \in pendingAccounts
BY DEF OrchestratorInv, WakesAreServed, WakeIsKept

\* The hold-backs end the tick.
LEMMA HoldHolds == OrchestratorInv /\ Hold => OrchestratorInv'
<1> SUFFICES ASSUME OrchestratorInv, Hold PROVE OrchestratorInv'  OBVIOUS
<1>1. /\ OrchestratorTypeOK /\ tick \in TickType /\ tick.at = "hold" /\ missed \in Nat /\ Ended
      /\ UNCHANGED <<timer, sinceFull, missed, asked, owed>>
  BY DEF OrchestratorInv, WakesAreServed, OrchestratorTypeOK, Hold, world
<1>2. held' \in [Sessions -> 0..Retry]
  <2>1. ASSUME NEW s \in Sessions
        PROVE  (IF tick.holds[s] = 0 THEN held[s]
                ELSE IF tick.holds[s] > tick.age THEN tick.holds[s] - tick.age ELSE 0) \in 0..Retry
    <3>1. tick.holds[s] \in 0..Retry /\ tick.age \in Nat /\ held[s] \in 0..Retry
      BY <1>1, ConfigTimes DEF TickType, OrchestratorTypeOK
    <3>2. QED  BY <3>1, ConfigTimes
  <2>2. QED  BY <2>1 DEF Hold
<1>3. asked' \in Orders  BY <1>1 DEF OrchestratorTypeOK
<1>4. QED  BY <1>1, <1>2, <1>3, KeptPending, ClockAtEnd, EndHolds

\* A batch that is given up ends the tick as well.
LEMMA GiveUpHolds == OrchestratorInv /\ GiveUp => OrchestratorInv'
<1> SUFFICES ASSUME OrchestratorInv, GiveUp PROVE OrchestratorInv'  OBVIOUS
<1>1. /\ OrchestratorTypeOK /\ tick.at \in Batching /\ missed \in Nat /\ Ended
      /\ UNCHANGED <<timer, sinceFull, missed, owed, held>>
  BY DEF OrchestratorInv, WakesAreServed, OrchestratorTypeOK, GiveUp, Batching
<1>2. held' \in [Sessions -> 0..Retry] /\ asked' \in Orders
  BY <1>1 DEF OrchestratorTypeOK, GiveUp, InFlight, Redecided
<1>3. tick.at \notin {"none", "sweep", "scan"}  BY <1>1 DEF Batching
<1>4. QED  BY <1>1, <1>2, <1>3, KeptPending, ClockAtEnd, EndHolds

\* A tick that fails before its batch loses what woke it; a failed sweep leaves the interval a tick.
LEMMA TickFailsHolds == OrchestratorInv /\ TickFails => OrchestratorInv'
<1> SUFFICES ASSUME OrchestratorInv, TickFails PROVE OrchestratorInv'  OBVIOUS
<1>1. /\ OrchestratorTypeOK /\ tick \in TickType /\ missed \in Nat /\ Ended
      /\ UNCHANGED <<timer, sinceFull, held, asked>>
      /\ sinceFull \in Nat /\ timer \in 0..Tick
  BY DEF OrchestratorInv, WakesAreServed, OrchestratorTypeOK, TickFails
<1>2. held' \in [Sessions -> 0..Retry] /\ asked' \in Orders  BY <1>1 DEF OrchestratorTypeOK
<1>3. \A s \in owed' : pendingFull \/ s \in pendingAccounts
  BY <1>1 DEF OrchestratorInv, WakesAreServed, WakeIsKept, TickFails, TickType
<1>4. CASE tick.at = "scan"
  <2>1. missed' = missed  BY <1>4 DEF TickFails
  <2>2. QED  BY <1>1, <1>2, <1>3, <1>4, <2>1, ClockAtEnd, EndHolds
<1>5. CASE tick.at = "sweep"
  <2>1. missed' = missed + 1  BY <1>5 DEF TickFails
  <2>2. sinceFull <= SweepBound(missed)
    BY DEF OrchestratorInv, WakesAreServed, SweepsNotStarved, SweepBound
  <2>3. SweepBound(missed) \in Nat /\ SweepBound(missed') = SweepBound(missed) + Tick
    BY <1>1, <2>1, BoundGrows
  <2>4. sinceFull <= SweepBound(missed') /\ sinceFull + timer <= SweepBound(missed')
    BY <1>1, <2>2, <2>3, ConfigTimes
  <2>5. missed' \in Nat  BY <1>1, <2>1
  <2>6. QED  BY <1>1, <1>2, <1>3, <2>4, <2>5, EndHolds
<1>6. QED  BY <1>4, <1>5 DEF TickFails

\* The sweeps start the clock again.
LEMMA SweepHolds == OrchestratorInv /\ Sweep => OrchestratorInv'
<1> SUFFICES ASSUME OrchestratorInv, Sweep PROVE OrchestratorInv'  OBVIOUS
<1>1. /\ tick \in TickType /\ tick.at = "sweep" /\ tick.full /\ tick.age = 0
      /\ UNCHANGED <<held, pending, pendingAccounts, pendingFull, timer, asked, owed>>
      /\ sinceFull' = 0 /\ missed' = 0 /\ tick' = [tick EXCEPT !.at = "scan"]
  BY DEF OrchestratorInv, WakesAreServed, OrchestratorTypeOK, SweepClock, Sweep
<1>2. tick' \in TickType /\ tick'.at = "scan" /\ tick'.full = tick.full /\ tick'.age = 0
  BY <1>1 DEF TickType
<1>3. OrchestratorTypeOK'  BY <1>1, <1>2 DEF OrchestratorInv, WakesAreServed, OrchestratorTypeOK
<1>4. WakeIsKept'  BY <1>1, <1>2 DEF WakeIsKept
<1>5. SweepsNotStarved'  BY <1>1, ConfigTimes DEF SweepsNotStarved
<1>6. SweepClock'  BY <1>1, <1>2 DEF SweepClock
<1>7. QED  BY <1>3, <1>4, <1>5, <1>6 DEF OrchestratorInv, WakesAreServed

\* A wake starts a tick or is kept for the next one.
LEMMA WakeHolds ==
  ASSUME OrchestratorInv, NEW s \in Sessions, Wake(s)
  PROVE  OrchestratorInv'
<1>1. /\ OrchestratorTypeOK /\ tick \in TickType /\ pendingFull \in BOOLEAN /\ pending \in BOOLEAN
      /\ pendingAccounts \subseteq Sessions /\ sinceFull \in Nat /\ missed \in Nat /\ timer \in 0..Tick
      /\ UNCHANGED <<held, timer, sinceFull, missed, asked>> /\ owed' = owed \cup {s}
  BY DEF OrchestratorInv, WakesAreServed, OrchestratorTypeOK, Wake
<1>2. PICK named \in BOOLEAN :
        LET accounts == IF named THEN pendingAccounts \cup {s} ELSE pendingAccounts
            f == pendingFull \/ ~named
        IN IF tick.at = "none" THEN StartTick(accounts, f)
           ELSE Keep(accounts, f) /\ UNCHANGED tick
  BY DEF Wake
<1> DEFINE accounts == IF named THEN pendingAccounts \cup {s} ELSE pendingAccounts
           f == pendingFull \/ ~named
<1>3. accounts \in SUBSET Sessions /\ f \in BOOLEAN /\ pendingAccounts \subseteq accounts
      /\ (pendingFull => f) /\ (f \/ s \in accounts)
  BY <1>1
<1>4. CASE tick.at = "none"
  <2>1. StartTick(accounts, f)  BY <1>2, <1>4
  <2>2. ~pending /\ pendingAccounts = {} /\ ~pendingFull  BY <1>1, <1>4 DEF OrchestratorTypeOK
  <2> HIDE DEF accounts, f
  <2>3. Started(accounts, f)  BY <1>3, <2>1, StartGives
  <2>4. OrchestratorTypeOK'  BY <1>1, <2>3 DEF OrchestratorTypeOK, Started
  <2>5. owed = {}  BY <1>4, <2>2, KeptPending
  <2>6. WakeIsKept'
    <3>1. tick'.full \/ s \in tick'.accounts  BY <1>3, <2>3 DEF Started, IsFull
    <3>2. tick'.at \in {"sweep", "scan"}  BY <2>3 DEF Started
    <3>3. QED  BY <1>1, <2>5, <3>1, <3>2 DEF WakeIsKept
  <2>7. SweepsNotStarved'  BY <1>1 DEF OrchestratorInv, WakesAreServed, SweepsNotStarved
  <2>8. SweepClock'
    <3>1. sinceFull + timer <= SweepBound(missed)  BY <1>4 DEF OrchestratorInv, SweepClock
    <3>2. CASE IsFull(f, accounts)  BY <2>3, <3>2 DEF SweepClock, Started
    <3>3. CASE ~IsFull(f, accounts)
      <4>1. sinceFull < Tick  BY <1>1, <3>3, ConfigTimes DEF IsFull
      <4>2. tick'.at = "scan" /\ tick'.full = FALSE /\ tick'.age = 0  BY <2>3, <3>3 DEF Started
      <4>3. QED  BY <1>1, <3>1, <4>1, <4>2, ConfigTimes DEF SweepClock
    <3>4. QED  BY <3>2, <3>3
  <2>9. QED  BY <2>4, <2>6, <2>7, <2>8 DEF OrchestratorInv, WakesAreServed
<1>5. CASE tick.at # "none"
  <2>1. Keep(accounts, f) /\ tick' = tick  BY <1>2, <1>5
  <2> HIDE DEF accounts, f
  <2>2. pending' = TRUE /\ pendingAccounts' = accounts /\ pendingFull' = f  BY <2>1 DEF Keep
  <2>3. OrchestratorTypeOK'  BY <1>1, <1>3, <1>5, <2>1, <2>2 DEF OrchestratorTypeOK
  <2>4. WakeIsKept'
    <3>1. ASSUME NEW u \in owed' PROVE
            \/ (tick.at \in {"sweep", "scan"} /\ (tick.full \/ u \in tick.accounts))
            \/ (f \/ u \in accounts)
      BY <1>1, <1>3 DEF OrchestratorInv, WakesAreServed, WakeIsKept
    <3>2. QED  BY <1>5, <2>1, <2>2, <3>1 DEF WakeIsKept
  <2>5. SweepsNotStarved'  BY <1>1 DEF OrchestratorInv, WakesAreServed, SweepsNotStarved
  <2>6. SweepClock'  BY <1>1, <1>3, <1>5, <2>1, <2>2 DEF OrchestratorInv, SweepClock
  <2>7. QED  BY <2>3, <2>4, <2>5, <2>6 DEF OrchestratorInv, WakesAreServed
<1>6. QED  BY <1>4, <1>5

\* The interval's tick, or the full one it asks of a woken tick.
LEMMA IntervalHolds == OrchestratorInv /\ Interval => OrchestratorInv'
<1> SUFFICES ASSUME OrchestratorInv, Interval PROVE OrchestratorInv'  OBVIOUS
<1>1. /\ OrchestratorTypeOK /\ tick \in TickType /\ pendingFull \in BOOLEAN /\ pending \in BOOLEAN
      /\ pendingAccounts \subseteq Sessions /\ sinceFull \in Nat /\ missed \in Nat
      /\ tick.full \in BOOLEAN /\ tick.age \in 0..Deadline
      /\ UNCHANGED <<held, sinceFull, missed, asked, owed>> /\ timer = 0 /\ timer' = Tick
  BY DEF OrchestratorInv, WakesAreServed, OrchestratorTypeOK, Interval, world, TickType
<1>2. timer' \in 0..Tick  BY <1>1, ConfigTimes
<1>3. CASE tick.at = "none"
  <2>1. ~pending /\ pendingAccounts = {} /\ ~pendingFull  BY <1>1, <1>3 DEF OrchestratorTypeOK
  <2>2. StartTick({}, FALSE)  BY <1>1, <1>3, <2>1 DEF Interval
  <2>3. Started({}, FALSE)  BY <2>2, StartGives
  <2>4. tick' \in TickType /\ tick'.at = "sweep" /\ tick'.full = TRUE /\ tick'.age = 0
        /\ pending' = FALSE /\ pendingAccounts' = {} /\ pendingFull' = FALSE
    BY <2>3 DEF Started, IsFull
  <2>5. OrchestratorTypeOK'  BY <1>1, <1>2, <2>4 DEF OrchestratorTypeOK
  <2>6. WakeIsKept' /\ SweepClock'  BY <2>4 DEF WakeIsKept, SweepClock
  <2>7. SweepsNotStarved'  BY <1>1 DEF OrchestratorInv, WakesAreServed, SweepsNotStarved
  <2>8. QED  BY <2>5, <2>6, <2>7 DEF OrchestratorInv, WakesAreServed
<1>4. CASE tick.at # "none"
  <2>1. pendingFull' = (pendingFull \/ ~tick.full) /\ UNCHANGED <<tick, pending, pendingAccounts>>
    BY <1>4 DEF Interval
  <2>2. pendingFull' \in BOOLEAN /\ (pendingFull => pendingFull') /\ (~tick.full => pendingFull')
    BY <1>1, <2>1
  <2>3. OrchestratorTypeOK'  BY <1>1, <1>2, <1>4, <2>1, <2>2 DEF OrchestratorTypeOK
  <2>4. WakeIsKept'
    BY <1>1, <2>1, <2>2 DEF OrchestratorInv, WakesAreServed, WakeIsKept
  <2>5. SweepsNotStarved'  BY <1>1 DEF OrchestratorInv, WakesAreServed, SweepsNotStarved
  <2>6. SweepClock'  BY <1>1, <1>4, <2>1, <2>2 DEF OrchestratorInv, SweepClock
  <2>7. QED  BY <2>3, <2>4, <2>5, <2>6 DEF OrchestratorInv, WakesAreServed
<1>5. QED  BY <1>3, <1>4

\* A restart begins with a full tick.
LEMMA RestartHolds == OrchestratorInv /\ Restart => OrchestratorInv'
<1> SUFFICES ASSUME OrchestratorInv, Restart PROVE OrchestratorInv'  OBVIOUS
<1>1. /\ sinceFull \in Nat /\ missed \in Nat /\ asked \in Orders /\ missed' = missed
      /\ sinceFull' = (IF sinceFull < Tick THEN Tick ELSE sinceFull)
      /\ tick' = FirstTick /\ timer' = Tick
      /\ pending' = FALSE /\ pendingAccounts' = {} /\ pendingFull' = FALSE
      /\ sinceFull <= SweepBound(missed)
  BY DEF OrchestratorInv, WakesAreServed, OrchestratorTypeOK, Restart, SweepsNotStarved, SweepBound
<1>2. held' \in [Sessions -> 0..Retry]  BY ConfigTimes DEF Restart
<1>3. asked' \in Orders  BY <1>1 DEF Restart, InFlight, Redecided
<1>4. sinceFull' \in Nat /\ timer' \in 0..Tick  BY <1>1, ConfigTimes
<1>5. OrchestratorTypeOK'  BY <1>1, <1>2, <1>3, <1>4, FirstTickType DEF OrchestratorTypeOK
<1>6. WakeIsKept' /\ SweepClock'  BY <1>1, FirstTickType DEF WakeIsKept, SweepClock
<1>7. SweepsNotStarved'
  <2>1. Tick + Deadline <= SweepBound(missed) /\ SweepBound(missed) \in Nat  BY <1>1, BoundGrows
  <2>2. sinceFull' <= SweepBound(missed')  BY <1>1, <2>1, ConfigTimes
  <2>3. QED  BY <2>2 DEF SweepsNotStarved, SweepBound
<1>8. QED  BY <1>5, <1>6, <1>7 DEF OrchestratorInv, WakesAreServed

\* Time between ticks is the interval's; inside a batch it is the batch's.
LEMMA TimeHolds == OrchestratorInv /\ TimePasses => OrchestratorInv'
<1> SUFFICES ASSUME OrchestratorInv, TimePasses PROVE OrchestratorInv'  OBVIOUS
<1>1. /\ OrchestratorTypeOK /\ tick \in TickType /\ sinceFull \in Nat /\ missed \in Nat
      /\ timer \in 0..Tick /\ timer > 0 /\ tick.age \in 0..Deadline /\ tick.age < Deadline
      /\ tick.full \in BOOLEAN /\ tick.at \in Batching \cup {"none"}
      /\ UNCHANGED <<pending, pendingAccounts, pendingFull, missed, asked, owed>>
      /\ timer' = timer - 1 /\ sinceFull' = sinceFull + 1
  BY DEF OrchestratorInv, WakesAreServed, OrchestratorTypeOK, TimePasses, world, TickType, Batching
<1>2. held' \in [Sessions -> 0..Retry]
  <2>1. ASSUME NEW s \in Sessions PROVE Dec(held[s]) \in 0..Retry
    <3>1. held[s] \in 0..Retry  BY <1>1 DEF OrchestratorTypeOK
    <3>2. QED  BY <3>1, ConfigTimes DEF Dec
  <2>2. QED  BY <2>1 DEF TimePasses
<1>3. SweepBound(missed) \in Nat /\ Tick + Deadline <= SweepBound(missed)  BY <1>1, BoundGrows
<1>4. timer' \in 0..Tick /\ sinceFull' \in Nat /\ sinceFull' + timer' = sinceFull + timer
  BY <1>1, ConfigTimes
<1>5. /\ tick' \in TickType /\ tick'.at = tick.at /\ tick'.full = tick.full
      /\ tick'.accounts = tick.accounts /\ (tick.at # "none" => tick'.age = tick.age + 1)
  <2>1. CASE tick.at = "none"  BY <1>1, <2>1 DEF TimePasses
  <2>2. CASE tick.at # "none"
    <3>1. tick' = [tick EXCEPT !.age = @ + 1]  BY <2>2 DEF TimePasses
    <3>2. tick.age + 1 \in 0..Deadline  BY <1>1, ConfigTimes
    <3>3. QED  BY <1>1, <3>1, <3>2 DEF TickType
  <2>3. QED  BY <2>1, <2>2
<1>6. OrchestratorTypeOK'  BY <1>1, <1>2, <1>4, <1>5 DEF OrchestratorTypeOK
<1>7. WakeIsKept'  BY <1>1, <1>5 DEF OrchestratorInv, WakesAreServed, WakeIsKept
<1>8. SweepClock'
  <2>1. CASE tick.at = "none"
    BY <1>1, <1>4, <1>5, <2>1 DEF OrchestratorInv, SweepClock
  <2>2. CASE tick.at \in Batching
    <3>1. tick'.age = tick.age + 1 /\ tick.at \notin {"none", "sweep"}  BY <1>5, <2>2 DEF Batching
    <3>2. CASE tick.full
      <4>1. sinceFull = tick.age  BY <3>1, <3>2 DEF OrchestratorInv, SweepClock
      <4>2. QED  BY <1>1, <1>5, <3>1, <3>2, <4>1 DEF SweepClock
    <3>3. CASE ~tick.full
      <4>1. sinceFull < Tick + tick.age /\ (pendingFull \/ sinceFull + timer <= SweepBound(missed))
        BY <3>1, <3>3 DEF OrchestratorInv, SweepClock
      <4>2. sinceFull' < Tick + tick'.age  BY <1>1, <3>1, <4>1, ConfigTimes
      <4>3. QED  BY <1>1, <1>4, <1>5, <3>1, <3>3, <4>1, <4>2 DEF SweepClock
    <3>4. QED  BY <3>2, <3>3
  <2>3. QED  BY <1>1, <2>1, <2>2
<1>9. SweepsNotStarved'
  <2>1. sinceFull' <= SweepBound(missed')
    <3>1. CASE tick.at = "none"  BY <1>1, <1>3, <3>1, ConfigTimes DEF OrchestratorInv, SweepClock
    <3>2. CASE tick.at \in Batching
      <4>1. tick'.age \in 0..Deadline /\ tick'.full \in BOOLEAN /\ tick'.at \notin {"none", "sweep"}
        BY <1>5, <3>2 DEF TickType, Batching
      <4>2. CASE tick'.full
        <5>1. sinceFull' = tick'.age  BY <1>8, <4>1, <4>2 DEF SweepClock
        <5>2. QED  BY <1>1, <1>3, <4>1, <5>1, ConfigTimes
      <4>3. CASE ~tick'.full
        <5>1. sinceFull' < Tick + tick'.age  BY <1>8, <4>1, <4>3 DEF SweepClock
        <5>2. QED  BY <1>1, <1>3, <1>4, <4>1, <5>1, ConfigTimes
      <4>4. QED  BY <4>2, <4>3
    <3>3. QED  BY <1>1, <3>1, <3>2
  <2>2. QED  BY <2>1 DEF SweepsNotStarved, SweepBound
<1>10. QED  BY <1>6, <1>7, <1>8, <1>9 DEF OrchestratorInv, WakesAreServed

\* The world's steps.
LEMMA WorldHolds ==
  ASSUME OrchestratorInv, NEW s \in Sessions,
         StartTrade(s) \/ EndTrade(s) \/ StopByUser(s) \/ StopLands(s)
  PROVE  OrchestratorInv'
<1>1. UNCHANGED Watched
  BY DEF StartTrade, EndTrade, StopByUser, StopLands, orchestrator, Watched
<1>2. QED  BY <1>1, UnwatchedHolds

\* Every step keeps the invariant.
LEMMA OrchestratorStepHolds ==
  OrchestratorInv /\ ActiveOK /\ [OrchestratorNext]_orchestratorVars => OrchestratorInv'
<1> SUFFICES ASSUME OrchestratorInv, ActiveOK, [OrchestratorNext]_orchestratorVars
             PROVE  OrchestratorInv'
  OBVIOUS
<1>1. CASE UNCHANGED orchestratorVars
  <2>1. UNCHANGED Watched  BY <1>1 DEF orchestratorVars, world, orchestrator, Watched
  <2>2. QED  BY <2>1, UnwatchedHolds
<1>2. ASSUME NEW s \in Sessions,
             StartTrade(s) \/ EndTrade(s) \/ StopByUser(s) \/ Wake(s) \/ StopLands(s)
      PROVE  OrchestratorInv'
  BY <1>2, WorldHolds, WakeHolds
<1>3. CASE Interval \/ GiveUp \/ TickFails \/ Restart \/ TimePasses
  BY <1>3, IntervalHolds, GiveUpHolds, TickFailsHolds, RestartHolds, TimeHolds
<1>4. CASE TickSteps
  BY <1>4, SweepHolds, ScanHolds, ReadHolds, PairsHolds, WritesHold, HoldHolds DEF TickSteps
<1>5. QED  BY <1>1, <1>2, <1>3, <1>4 DEF OrchestratorNext

\* A wake is served by the scan that follows it, however the ticks before it end, and the sweeps run
\* within a tick and a batch of the last ones, and a tick more for each failure
\* (orchestrator.ts, runTick and tick), for any number of sessions and any times of the config.
THEOREM WakesStayServed == OrchestratorSpec => []WakesAreServed
<1>1. OrchestratorInit => OrchestratorInv /\ ActiveOK
  BY OrchestratorInitHolds DEF OrchestratorInit, ActiveOK
<1>2. OrchestratorInv /\ ActiveOK /\ [OrchestratorNext]_orchestratorVars => (OrchestratorInv /\ ActiveOK)'
  BY OrchestratorStepHolds, ActiveStays
<1>3. OrchestratorInv => WakesAreServed  BY DEF OrchestratorInv
<1>4. QED  BY <1>1, <1>2, <1>3, PTL DEF OrchestratorSpec

-----------------------------------------------------------------------------
(* The notices of a session *)

\* The trades from i up to before k, none of which was won: they are of one cycle.
OneCycle(i, k) == \A j \in i..(k - 1) : trades[j] # "won"

\* A stop button of an open block.
OpenButton(m) == chat[m].live /\ ~chat[m].stray /\ chat[m].open # 0

\* The recorded cycle message shows an open trade with a button.
BlockOpen == cycle # 0 /\ OpenButton(cycle)

BlockJob == sender.job \in {"trade", "open"}
Removing == sender.at \in {"reread", "delete", "clear"}
Sending == Removing \/ sender.at \in {"send", "record"}
InTurn == sender.at # "idle" /\ sender.job # "summary"

\* An intent has its trade still to come, and a decision without a signal is the latest only without
\* an intent; a closed session is finished and told.
SessionOK ==
  /\ intent # "none" => Len(trades) < MaxResults
  /\ waits => intent = "none"
  /\ closed => Finished /\ cursor = Len(trades) /\ waiting = 0
  /\ summary \in {"bot", "text"} => closed

\* The messages.
ChatOK ==
  \A m \in 1..Len(chat) :
    /\ chat[m].kind # "cycle" => chat[m].open = 0
    /\ chat[m].kind # "waiting" => chat[m].handed = "no"
    /\ chat[m].known => chat[m].kind \in {"cycle", "waiting"}
    /\ chat[m].kind = "summary" => m = Len(chat) /\ closed /\ summary \in {"bot", "text"}
    /\ chat[m].handed = "yes" => chat[m].live /\ m # waiting
    /\ chat[m].kind = "waiting" /\ chat[m].known /\ chat[m].live /\ ~chat[m].stray
         /\ chat[m].handed = "no" => m = waiting

\* The recorded cycle messages.
CycleOK ==
  cycle # 0 =>
    /\ chat[cycle].kind = "cycle" /\ chat[cycle].known /\ chat[cycle].first = from
    /\ from <= cursor + 1 /\ chat[cycle].shown <= cursor /\ OneCycle(from, chat[cycle].shown)

BlocksOK ==
  \A m \in 1..Len(chat) : chat[m].kind = "cycle" /\ chat[m].known /\ m # cycle =>
    m < cycle /\ ~OpenButton(m) /\ (chat[m].live => chat[m].shown < from)

\* A button of an open block: the trade is one of the message's cycle, and no waiting message
\* stands.
ButtonOK ==
  BlockOpen =>
    /\ waiting = 0 /\ from <= chat[cycle].open /\ OneCycle(from, chat[cycle].open)
    /\ chat[cycle].open <= Len(trades) \/ (chat[cycle].open = Len(trades) + 1 /\ intent = "open")

\* The trade of a button is the next to be told, or the one being told; no message is being sent.
ButtonJobOK ==
  BlockOpen =>
    /\ chat[cycle].open = cursor + (IF sender.job = "trade" THEN 0 ELSE 1)
    /\ ~(BlockJob /\ Sending) /\ sender.job \notin {"waiting", "caption"}
    /\ InTurn /\ sender.row.waits => chat[cycle].open <= sender.row.settled

\* A result told is claimed.
ToldOK == \A k \in 1..MaxResults : told[k] <= 1 /\ (told[k] # 0 => k <= cursor)

\* A row as a turn may remember it.
RowIsOK(row) ==
  /\ ~closed
  /\ waiting # 0 => row.waiting = waiting
  /\ row.open # 0 /\ row.waiting # 0 /\ ~row.blocked => row.stale
  /\ row.waits => row.open = 0
  /\ row.due => row.waits
  /\ row.settled <= Len(trades) /\ row.open \in {0, row.settled + 1}
  /\ row.open = Len(trades) + 1 => intent = "open"
  /\ row.waiting <= Len(chat)

RowOK == InTurn => RowIsOK(sender.row)

\* The steps each job takes.
StepOK ==
  /\ sender.at = "idle" => sender.job = "none"
  /\ sender.at = "serve" => sender.job = "none" /\ sender.row.notified = cursor
  /\ sender.at \in Calls \cup {"page", "caption", "record"} => sender.job # "none"
  /\ sender.job = "stale" => Removing /\ sender.row.notified = cursor
  /\ sender.job = "caption" => Removing \/ sender.at \in {"page", "caption"}
  /\ sender.at \in {"page", "caption"} => sender.job = "caption"
  /\ sender.job = "waiting" =>
       sender.at \in {"send", "record", "release"} /\ sender.row.notified = cursor
  /\ sender.job = "summary" =>
       /\ sender.at \in {"send", "release"} /\ closed /\ summary = "text"
       /\ \A m \in 1..Len(chat) : chat[m].kind # "summary"

\* The claimed trade and the claimed open block.
ClaimOK ==
  /\ sender.job = "trade" =>
       /\ sender.k = cursor /\ sender.row.notified + 1 = cursor
       /\ sender.at # "record" => /\ told[sender.k] = 0 /\ from <= sender.k
                                  /\ cycle # 0 => chat[cycle].shown < sender.k
  /\ sender.job = "open" =>
       /\ sender.k = cursor + 1 /\ sender.row.notified = cursor /\ sender.row.settled = cursor
       /\ sender.k = sender.row.open /\ sender.row.waiting = 0 /\ ~Removing

\* The block that a claim writes: of one cycle, and a new message is of a later one than the others.
BlockOK ==
  /\ sender.open # 0 => sender.job = "open" /\ sender.open = sender.k
  /\ BlockJob =>
    /\ sender.first \in 1..sender.k /\ OneCycle(sender.first, sender.k)
    /\ sender.at = "edit" => sender.target = cycle /\ cycle # 0 /\ sender.first = from
    /\ Sending => \A m \in 1..Len(chat) :
         chat[m].kind = "cycle" /\ chat[m].known /\ chat[m].live => chat[m].shown < sender.first

\* The message the sender changes: the waiting message of its row, not one the reply was drawn in.
TargetOK ==
  /\ Removing \/ sender.at \in {"page", "caption"} =>
       sender.target = sender.row.waiting /\ sender.target # 0
  /\ sender.at \in {"delete", "record"} => chat[sender.target].handed # "yes"
  /\ sender.at = "clear" => ~chat[sender.target].live \/ chat[sender.target].stray

\* The message just sent, not recorded yet.
RecordOK ==
  sender.at = "record" =>
    /\ sender.target \in 1..Len(chat) /\ ~chat[sender.target].known /\ ~chat[sender.target].stray
    /\ BlockJob =>
         /\ chat[sender.target].kind = "cycle" /\ sender.target > cycle
         /\ chat[sender.target].first = sender.first
         /\ chat[sender.target].shown <= cursor
         /\ chat[sender.target].open # 0 =>
              chat[sender.target].open = sender.k /\ sender.job = "open"
    /\ ~BlockJob => sender.job = "waiting" /\ chat[sender.target].kind = "waiting"

SenderOK == StepOK /\ ClaimOK /\ BlockOK /\ TargetOK /\ RecordOK

\* What does not depend on the sender.
WorldOK ==
  SessionOK /\ ChatOK /\ CycleOK /\ BlocksOK /\ NoRepeatedBlock /\ ButtonOK /\ ToldOK

NoticesInv ==
  /\ NoticesTypeOK /\ SessionOK /\ ChatOK /\ CycleOK /\ BlocksOK /\ NoRepeatedBlock /\ ButtonOK
  /\ ButtonJobOK /\ ToldOK /\ RowOK /\ SenderOK

-----------------------------------------------------------------------------
(* Cycles *)

\* A non-empty set of naturals below a bound has a greatest element.
LEMMA Greatest ==
  ASSUME NEW n \in Nat, NEW S \in SUBSET (0..n), S # {}
  PROVE  \E x \in S : \A y \in S : y <= x
<1> DEFINE T == {n - x : x \in S}
<1>1. T \subseteq Nat /\ T # {}
  <2>1. \A x \in S : n - x \in Nat  OBVIOUS
  <2>2. QED  BY <2>1
<1>2. PICK t \in T : \A u \in T : ~(<<u, t>> \in OpToRel(<, Nat))
  BY <1>1, NatLessThanWellFounded, WFMin, Zenon
<1>3. PICK x \in S : t = n - x  OBVIOUS
<1>4. ASSUME NEW y \in S PROVE y <= x
  <2>1. n - y \in T /\ n - y \in Nat /\ t \in Nat  BY <1>1
  <2>2. ~(<<n - y, t>> \in OpToRel(<, Nat))  BY <1>2, <2>1
  <2>3. ~(n - y < t)  BY <2>1, <2>2 DEF OpToRel
  <2>4. QED  BY <1>3, <2>1, <2>3
<1>5. QED  BY <1>4

\* What CycleStart returns: the place after the last win before k.
LEMMA CycleStartGives ==
  ASSUME NEW k \in Nat \ {0}
  PROVE  /\ CycleStart(k) \in 1..k /\ OneCycle(CycleStart(k), k)
         /\ CycleStart(k) # 1 => trades[CycleStart(k) - 1] = "won"
<1> DEFINE wins == {j \in 1..(k - 1) : trades[j] = "won"}
<1>1. CASE wins = {}
  <2>1. CycleStart(k) = 1  BY <1>1 DEF CycleStart
  <2>2. OneCycle(1, k)  BY <1>1 DEF OneCycle
  <2>3. QED  BY <2>1, <2>2
<1>2. CASE wins # {}
  <2>1. \E x \in wins : \A y \in wins : y <= x
    <3>1. wins \in SUBSET (0..k)  OBVIOUS
    <3>2. QED  BY <1>2, <3>1, Greatest
  <2> DEFINE last == CHOOSE j \in wins : \A i \in wins : i <= j
  <2>2. last \in wins /\ \A i \in wins : i <= last  BY <2>1
  <2>3. CycleStart(k) = 1 + last  BY <1>2 DEF CycleStart
  <2> HIDE DEF last
  <2>4. OneCycle(1 + last, k)
    <3>1. ASSUME NEW j \in (1 + last)..(k - 1), trades[j] = "won" PROVE FALSE
      <4>1. j \in wins  BY <2>2, <3>1
      <4>2. QED  BY <2>2, <4>1
    <3>2. QED  BY <3>1 DEF OneCycle
  <2>5. QED  BY <2>2, <2>3, <2>4
<1>3. QED  BY <1>1, <1>2

\* A later trade is of the cycle of an earlier one when no win lies between.
LEMMA SameStart ==
  ASSUME NEW i \in Nat \ {0}, NEW k \in Nat \ {0}, i <= k
  PROVE  /\ CycleStart(i) = CycleStart(k) <=> OneCycle(i, k)
         /\ CycleStart(i) # CycleStart(k) => CycleStart(k) > i
<1> DEFINE a == CycleStart(i)
           b == CycleStart(k)
<1>1. /\ a \in 1..i /\ OneCycle(a, i) /\ (a # 1 => trades[a - 1] = "won")
      /\ b \in 1..k /\ OneCycle(b, k) /\ (b # 1 => trades[b - 1] = "won")
  BY CycleStartGives
<1> HIDE DEF a, b
<1>2. CASE b <= i
  <2>1. OneCycle(i, k)  BY <1>1, <1>2 DEF OneCycle
  <2>2. a = b
    <3>1. CASE a < b
      <4>1. b # 1 /\ b - 1 \in a..(i - 1)  BY <1>1, <1>2, <3>1
      <4>2. QED  BY <1>1, <4>1 DEF OneCycle
    <3>2. CASE b < a
      <4>1. a # 1 /\ a - 1 \in b..(k - 1)  BY <1>1, <3>2
      <4>2. QED  BY <1>1, <4>1 DEF OneCycle
    <3>3. QED  BY <1>1, <3>1, <3>2
  <2>3. QED  BY <2>1, <2>2 DEF a, b
<1>3. CASE b > i
  <2>1. b # 1 /\ b - 1 \in i..(k - 1)  BY <1>1, <1>3
  <2>2. ~OneCycle(i, k)  BY <1>1, <2>1 DEF OneCycle
  <2>3. a # b  BY <1>1, <1>3
  <2>4. QED  BY <1>3, <2>2, <2>3 DEF a, b
<1>4. QED  BY <1>1, <1>2, <1>3

-----------------------------------------------------------------------------
(* The chat and the sender *)

\* The messages stand as they were, but for those that went or were given up.
Faded ==
  /\ Len(chat') = Len(chat) /\ chat' \in Seq(MessageType)
  /\ \A n \in 1..Len(chat) :
       /\ chat'[n].kind = chat[n].kind /\ chat'[n].known = chat[n].known
       /\ chat'[n].first = chat[n].first /\ chat'[n].shown = chat[n].shown
       /\ chat'[n].open = chat[n].open /\ chat'[n].handed = chat[n].handed
       /\ chat'[n].live => chat[n].live
       /\ chat[n].stray => chat'[n].stray

\* The message m alone went.
Went(m) ==
  /\ Faded /\ ~chat'[m].live /\ \A n \in 1..Len(chat) : n # m => chat'[n] = chat[n]

\* The message m alone was given up.
GivenUp(m) ==
  /\ Faded /\ chat'[m].stray /\ \A n \in 1..Len(chat) : chat'[n].live = chat[n].live

\* A message was written below the others.
Grown(msg) ==
  /\ chat' \in Seq(MessageType) /\ Len(chat') = Len(chat) + 1 /\ chat'[Len(chat) + 1] = msg
  /\ \A n \in 1..Len(chat) : chat'[n] = chat[n]

\* The fields of a message.
LEMMA MessageFields ==
  ASSUME ChatTypes, NEW m \in 1..Len(chat)
  PROVE  /\ chat[m] \in MessageType
         /\ chat[m].kind \in {"card", "cycle", "waiting", "summary"} /\ chat[m].live \in BOOLEAN
         /\ chat[m].known \in BOOLEAN /\ chat[m].stray \in BOOLEAN /\ chat[m].first \in Nat
         /\ chat[m].shown \in Nat /\ chat[m].open \in Nat
         /\ chat[m].handed \in {"no", "yes", "late"}
<1>1. chat[m] \in MessageType  BY DEF ChatTypes
<1>2. QED  BY <1>1 DEF MessageType

\* A message is its place in the chat.
LEMMA ChatDomain ==
  ASSUME ChatTypes
  PROVE  DOMAIN chat = 1..Len(chat)
BY DEF ChatTypes

\* Nothing changed, so nothing worse than fading happened.
LEMMA SameFades ==
  ASSUME ChatTypes, UNCHANGED chat
  PROVE  Faded
BY DEF Faded, ChatTypes

\* A deleted message only fades.
LEMMA GoneFades ==
  ASSUME ChatTypes, NEW m \in 1..Len(chat), chat' = Gone(m)
  PROVE  Went(m)
<1>1. chat[m] \in MessageType  BY MessageFields
<1> DEFINE new == [chat[m] EXCEPT !.live = FALSE]
<1>2. chat' = [chat EXCEPT ![m] = new]  BY DEF Gone
<1>3. /\ new \in MessageType /\ ~new.live
      /\ new.kind = chat[m].kind /\ new.known = chat[m].known /\ new.first = chat[m].first
      /\ new.shown = chat[m].shown /\ new.open = chat[m].open /\ new.handed = chat[m].handed
      /\ new.stray = chat[m].stray
  BY <1>1 DEF MessageType
<1> HIDE DEF new
<1>4. /\ chat' \in Seq(MessageType) /\ Len(chat') = Len(chat) /\ chat'[m] = new
      /\ \A n \in 1..Len(chat) : n # m => chat'[n] = chat[n]
  BY <1>2, <1>3 DEF ChatTypes
<1>5. QED  BY <1>3, <1>4 DEF Went, Faded

\* A message given up only fades.
LEMMA LeftFades ==
  ASSUME ChatTypes, NEW m \in 1..Len(chat), chat' = Left(m)
  PROVE  GivenUp(m)
<1>1. chat[m] \in MessageType  BY MessageFields
<1> DEFINE new == [chat[m] EXCEPT !.stray = TRUE]
<1>2. chat' = [chat EXCEPT ![m] = new]  BY DEF Left
<1>3. /\ new \in MessageType /\ new.stray
      /\ new.kind = chat[m].kind /\ new.known = chat[m].known /\ new.first = chat[m].first
      /\ new.shown = chat[m].shown /\ new.open = chat[m].open /\ new.handed = chat[m].handed
      /\ new.live = chat[m].live
  BY <1>1 DEF MessageType
<1> HIDE DEF new
<1>4. /\ chat' \in Seq(MessageType) /\ Len(chat') = Len(chat) /\ chat'[m] = new
      /\ \A n \in 1..Len(chat) : n # m => chat'[n] = chat[n]
  BY <1>2, <1>3 DEF ChatTypes
<1>5. QED  BY <1>3, <1>4 DEF GivenUp, Faded

\* A sent message is the last one.
LEMMA AppendGrows ==
  ASSUME ChatTypes, NEW msg \in MessageType, chat' = Append(chat, msg)
  PROVE  Grown(msg)
BY DEF Grown, ChatTypes

\* The card and the summary carry no button.
LEMMA SentMessage ==
  ASSUME NEW kind \in {"card", "summary"}
  PROVE  /\ Message(kind) \in MessageType /\ Message(kind).kind = kind /\ ~Message(kind).known
         /\ Message(kind).handed = "no" /\ Message(kind).open = 0
BY DEF Message, MessageType

\* The fields of a row.
RowFields(row) ==
  /\ row.notified \in Nat /\ row.settled \in Nat /\ row.open \in Nat /\ row.mark \in Nat
  /\ row.finished \in BOOLEAN /\ row.blocked \in BOOLEAN /\ row.status \in {"active", "stopped"}
  /\ row.waiting \in Nat /\ row.due \in BOOLEAN /\ row.stale \in BOOLEAN /\ row.waits \in BOOLEAN
  /\ row.held \in BOOLEAN

\* The fields of a typed row.
LEMMA RowTypes ==
  ASSUME NEW row \in RowType
  PROVE  RowFields(row)
BY DEF RowType, RowFields

\* The fields of a typed sender.
LEMMA SenderTypes ==
  ASSUME NEW s \in SenderType
  PROVE  /\ s.at \in {"idle", "serve", "page", "caption", "record"} \cup Calls /\ s.row \in RowType
         /\ s.k \in Nat /\ s.target \in Nat /\ s.slot \in Nat /\ s.first \in Nat /\ s.open \in Nat
         /\ s.job \in {"none", "trade", "open", "waiting", "summary"} \cup Removals
BY DEF SenderType

\* The sender between turns.
LEMMA IdleFields ==
  NoRow \in RowType /\ Idle \in SenderType /\ Idle.at = "idle" /\ Idle.job = "none" /\ Idle.open = 0
<1>1. NoRow \in RowType  BY DEF NoRow, RowType
<1>2. QED  BY <1>1 DEF Idle, SenderType

\* The sender choosing its next step.
LEMMA ServingFields ==
  ASSUME NEW row \in RowType
  PROVE  /\ Serving(row) \in SenderType /\ Serving(row).at = "serve" /\ Serving(row).job = "none"
         /\ Serving(row).row = row /\ Serving(row).open = 0
BY IdleFields DEF Serving, SenderType, Idle

\* The sender with a job that is not a block.
LEMMA JobFields ==
  ASSUME NEW at \in {"page"} \cup Calls, NEW job \in {"trade", "open", "waiting", "summary"} \cup Removals,
         NEW row \in RowType, NEW m \in Nat
  PROVE  /\ Job(at, job, row, m) \in SenderType /\ Job(at, job, row, m).at = at
         /\ Job(at, job, row, m).job = job /\ Job(at, job, row, m).row = row
         /\ Job(at, job, row, m).target = m /\ Job(at, job, row, m).open = 0
BY IdleFields DEF Job, SenderType, Idle

\* The row of a turn that goes on, by the job it has done.
After(job, row) ==
  IF job = "trade" THEN [row EXCEPT !.notified = @ + 1]
  ELSE IF job = "open" THEN [row EXCEPT !.mark = row.open]
  ELSE [row EXCEPT !.stale = FALSE]

\* The row a step leaves behind.
LEMMA AfterFields ==
  ASSUME NEW job, NEW row \in RowType
  PROVE  /\ After(job, row) \in RowType
         /\ After(job, row).notified = row.notified + (IF job = "trade" THEN 1 ELSE 0)
         /\ After(job, row).settled = row.settled /\ After(job, row).open = row.open
         /\ After(job, row).waiting = row.waiting /\ After(job, row).waits = row.waits
         /\ After(job, row).due = row.due /\ After(job, row).blocked = row.blocked
         /\ job \in {"trade", "open"} => After(job, row).stale = row.stale
<1>1. RowFields(row)  BY RowTypes
<1>2. CASE job = "trade"  BY <1>1, <1>2 DEF After, RowType, RowFields
<1>3. CASE job = "open"  BY <1>1, <1>3 DEF After, RowType, RowFields
<1>4. CASE job \notin {"trade", "open"}
  <2>1. After(job, row) = [row EXCEPT !.stale = FALSE]  BY <1>4, Zenon DEF After
  <2> DEFINE new == [row EXCEPT !.stale = FALSE]
  <2>2. /\ new \in RowType /\ new.notified = row.notified
        /\ new.settled = row.settled /\ new.open = row.open
        /\ new.waiting = row.waiting /\ new.waits = row.waits
        /\ new.due = row.due /\ new.blocked = row.blocked
    BY <1>1 DEF RowType, RowFields
  <2> HIDE DEF new
  <2>3. After(job, row) = new  BY <2>1 DEF new
  <2>4. row.notified + (IF job = "trade" THEN 1 ELSE 0) = row.notified  BY <1>1, <1>4 DEF RowFields
  <2>5. QED  BY <1>4, <2>2, <2>3, <2>4
<1>5. QED  BY <1>2, <1>3, <1>4

\* A step done continues the turn or ends it.
LEMMA DoneFields ==
  ASSUME NEW job, NEW row \in RowType
  PROVE  /\ job \in {"trade", "open", "stale"} => Done(job, row) = Serving(After(job, row))
         /\ job \notin {"trade", "open", "stale"} => Done(job, row) = Idle
BY DEF Done, After

-----------------------------------------------------------------------------
(* The session's moves *)

\* A move that touches neither the trades, the messages nor the sender.
LEMMA CalmKeeps ==
  ASSUME NoticesInv, NoticesTypeOK', SessionOK', intent = "open" => intent' = "open",
         UNCHANGED <<trades, chat, sender, told, cursor, cycle, from, waiting, closed, summary>>
  PROVE  NoticesInv'
<1> USE DEF NoticesInv
<1>1. ChatOK' /\ CycleOK' /\ BlocksOK' /\ NoRepeatedBlock'
  BY DEF ChatOK, CycleOK, BlocksOK, NoRepeatedBlock, OneCycle, OpenButton
<1>2. ButtonOK' /\ ButtonJobOK'
  BY DEF ButtonOK, ButtonJobOK, BlockOpen, OneCycle, OpenButton, BlockJob, Sending, Removing, InTurn
<1>3. ToldOK' /\ RowOK'  BY DEF ToldOK, RowOK, RowIsOK, InTurn
<1>4. StepOK' /\ ClaimOK' /\ BlockOK' /\ TargetOK' /\ RecordOK'
  BY DEF SenderOK, StepOK, ClaimOK, BlockOK, TargetOK, RecordOK, Removing, Sending, BlockJob, OneCycle
<1>5. QED  BY <1>1, <1>2, <1>3, <1>4 DEF SenderOK

\* Steps of the trading side and of time.
LEMMA NewIntentKeeps == ASSUME NoticesInv, NewIntent PROVE NoticesInv'
<1> USE DEF NewIntent, columns, Others
<1>1. NoticesTypeOK'
  BY DEF NoticesInv, NoticesTypeOK, SessionTypes, ChatTypes, ColumnTypes
<1>2. SessionOK'  BY DEF NoticesInv, SessionOK, Finished
<1>3. QED  BY <1>1, <1>2, CalmKeeps

LEMMA NoSignalKeeps == ASSUME NoticesInv, NoSignal PROVE NoticesInv'
<1> USE DEF NoSignal, columns, Others
<1>1. NoticesTypeOK'
  BY DEF NoticesInv, NoticesTypeOK, SessionTypes, ChatTypes, ColumnTypes
<1>2. SessionOK'  BY DEF NoticesInv, SessionOK, Finished
<1>3. QED  BY <1>1, <1>2, CalmKeeps

\* A stop changes no message.
LEMMA StopKeeps == ASSUME NoticesInv, Stop PROVE NoticesInv'
<1> USE DEF Stop, columns, Others
<1>1. NoticesTypeOK'
  <2>1. noSignal' \in BOOLEAN
    <3>1. (intent = "none" /\ waits) \in BOOLEAN  OBVIOUS
    <3>2. QED  BY <3>1, Zenon
  <2>2. SessionTypes'  BY <2>1 DEF NoticesInv, NoticesTypeOK, SessionTypes
  <2>3. ChatTypes' /\ ColumnTypes'  BY DEF NoticesInv, NoticesTypeOK, ChatTypes, ColumnTypes
  <2>4. QED  BY <2>2, <2>3 DEF NoticesTypeOK
<1>2. SessionOK'  BY DEF NoticesInv, SessionOK, Finished
<1>3. QED  BY <1>1, <1>2, CalmKeeps

LEMMA UnblockKeeps == ASSUME NoticesInv, Unblock \/ GracePasses PROVE NoticesInv'
<1> USE DEF Unblock, GracePasses, columns, session
<1>1. NoticesTypeOK'
  <2>1. SessionTypes'
    <3>1. CASE Unblock  BY <3>1 DEF NoticesInv, NoticesTypeOK, SessionTypes
    <3>2. CASE GracePasses  BY <3>2 DEF NoticesInv, NoticesTypeOK, SessionTypes
    <3>3. QED  BY <3>1, <3>2
  <2>2. ChatTypes' /\ ColumnTypes'  BY DEF NoticesInv, NoticesTypeOK, ChatTypes, ColumnTypes
  <2>3. QED  BY <2>1, <2>2 DEF NoticesTypeOK
<1>2. SessionOK'  BY DEF NoticesInv, SessionOK, Finished
<1>3. QED  BY <1>1, <1>2, CalmKeeps

LEMMA RecordCardKeeps == ASSUME NoticesInv, RecordCard PROVE NoticesInv'
<1> USE DEF RecordCard, session, Others
<1>1. NoticesTypeOK'
  BY DEF NoticesInv, NoticesTypeOK, SessionTypes, ChatTypes, ColumnTypes
<1>2. SessionOK'  BY DEF NoticesInv, SessionOK, Finished
<1>3. QED  BY <1>1, <1>2, CalmKeeps

\* The trades grow by a settled one at most, under an open intent.
LEMMA IntentMovesKeeps == ASSUME NoticesInv, IntentMoves PROVE NoticesInv'
<1> USE DEF NoticesInv
<1>1. UNCHANGED <<status, noSignal, waits, cursor, cycle, from, mark, waiting, slot, card, closed,
                  summary, blocked, graceOver, chat, sender, faults, told>>
  BY DEF IntentMoves, columns, Others
<1>2. /\ trades' \in Seq({"won", "lost"}) /\ Len(trades') \in {Len(trades), Len(trades) + 1}
      /\ \A j \in 1..Len(trades) : trades'[j] = trades[j]
      /\ Len(trades') = Len(trades) + 1 => intent = "open"
      /\ Len(trades') = Len(trades) => intent # "open"
      /\ intent' \in {"none", "open"} /\ intent # "none"
  BY DEF IntentMoves, NoticesTypeOK, SessionTypes
<1>3. ASSUME NEW i \in Nat \ {0}, NEW k \in Nat, k <= Len(trades) + 1, OneCycle(i, k)
      PROVE  \A j \in i..(k - 1) : trades'[j] # "won"
  <2>1. Len(trades) \in Nat  BY DEF NoticesTypeOK, SessionTypes
  <2>2. \A j \in i..(k - 1) : j \in 1..Len(trades)  BY <1>3, <2>1
  <2>3. QED  BY <1>2, <1>3, <2>2 DEF OneCycle
<1>4. ~closed  BY <1>2 DEF SessionOK, Finished
<1>5. NoticesTypeOK'
  <2>1. Len(trades') <= MaxResults  BY <1>2, NoticesAssumption DEF SessionOK, NoticesTypeOK, SessionTypes
  <2>2. SessionTypes'  BY <1>1, <1>2, <2>1 DEF NoticesTypeOK, SessionTypes
  <2>3. ChatTypes' /\ ColumnTypes'  BY <1>1, <1>2 DEF NoticesTypeOK, SessionTypes, ChatTypes, ColumnTypes
  <2>4. QED  BY <2>2, <2>3 DEF NoticesTypeOK
<1>6. SessionOK'
  <2>1. intent' # "none" => Len(trades') = Len(trades)  BY DEF IntentMoves
  <2>2. QED  BY <1>1, <1>2, <1>4, <2>1 DEF SessionOK
<1>7. ChatOK' /\ NoRepeatedBlock'  BY <1>1 DEF ChatOK, NoRepeatedBlock
<1>8. from <= cursor + 1 /\ cursor \in 0..Len(trades) /\ (cycle # 0 => from \in Nat \ {0} /\ cycle \in 1..Len(chat))
      /\ Len(trades) \in Nat /\ MaxResults \in Nat
  BY NoticesAssumption DEF NoticesTypeOK, SessionTypes, ColumnTypes, CycleOK
<1>9. CycleOK'
  <2>1. ASSUME cycle # 0 PROVE \A j \in from..(chat[cycle].shown - 1) : trades'[j] # "won"
    <3>1. chat[cycle].shown \in Nat  BY <1>8, <2>1, MessageFields DEF NoticesTypeOK
    <3>2. chat[cycle].shown <= Len(trades) + 1 /\ OneCycle(from, chat[cycle].shown)
      BY <1>8, <2>1, <3>1 DEF CycleOK
    <3>3. QED  BY <1>3, <1>8, <2>1, <3>1, <3>2
  <2>2. QED
    <3>1. ASSUME cycle # 0 PROVE chat[cycle].shown <= Len(trades')
      BY <1>2, <1>8, <3>1, MessageFields DEF NoticesTypeOK, CycleOK
    <3>2. QED  BY <1>1, <2>1, <3>1 DEF CycleOK, OneCycle
<1>10. BlocksOK'  BY <1>1 DEF BlocksOK, OpenButton
<1>11. ButtonOK'
  <2>1. ASSUME BlockOpen
        PROVE  /\ \A j \in from..(chat[cycle].open - 1) : trades'[j] # "won"
               /\ \/ chat[cycle].open <= Len(trades')
                  \/ chat[cycle].open = Len(trades') + 1 /\ intent' = "open"
    <3>1. cycle # 0 /\ chat[cycle].open \in Nat  BY <1>8, <2>1, MessageFields DEF NoticesTypeOK, BlockOpen
    <3>2. chat[cycle].open <= Len(trades) + 1 /\ OneCycle(from, chat[cycle].open)
      BY <1>8, <2>1, <3>1 DEF ButtonOK
    <3>3. \A j \in from..(chat[cycle].open - 1) : trades'[j] # "won"  BY <1>3, <1>8, <3>1, <3>2
    <3>4. QED  BY <1>2, <1>8, <2>1, <3>1, <3>3 DEF ButtonOK
  <2>2. BlockOpen' => BlockOpen  BY <1>1 DEF BlockOpen, OpenButton
  <2>3. ASSUME BlockOpen PROVE OneCycle(from, chat[cycle].open)'
    <3>1. from' = from /\ chat' = chat /\ cycle' = cycle  BY <1>1
    <3>2. QED  BY <2>1, <2>3, <3>1 DEF OneCycle
  <2>4. ASSUME BlockOpen PROVE (waiting = 0 /\ from <= chat[cycle].open)'  BY <1>1, <2>4 DEF ButtonOK
  <2>5. ASSUME BlockOpen PROVE (chat[cycle].open <= Len(trades)
                                  \/ (chat[cycle].open = Len(trades) + 1 /\ intent = "open"))'
    BY <1>1, <2>1, <2>5
  <2>6. QED  BY <2>2, <2>3, <2>4, <2>5, Zenon DEF ButtonOK
<1>12. ButtonJobOK' /\ ToldOK'
  BY <1>1 DEF ButtonJobOK, ToldOK, BlockOpen, OpenButton, BlockJob, Sending, Removing, InTurn
<1>13. RowOK'
  <2>1. InTurn => sender.row \in RowType  BY SenderTypes DEF NoticesTypeOK, ChatTypes
  <2>2. InTurn => sender.row.settled \in Nat /\ sender.row.open \in Nat  BY <2>1, RowTypes DEF RowFields
  <2>3. QED  BY <1>1, <1>2, <1>8, <2>2 DEF RowOK, RowIsOK, InTurn
<1>14. StepOK' /\ ClaimOK' /\ TargetOK'
  BY <1>1 DEF SenderOK, StepOK, ClaimOK, TargetOK, Removing, BlockJob
<1>15. sender.row \in RowType /\ sender.k \in Nat /\ sender.first \in Nat
  BY SenderTypes DEF NoticesTypeOK, ChatTypes
<1>16. BlockOK'
  <2>1. ASSUME BlockJob PROVE \A j \in sender.first..(sender.k - 1) : trades'[j] # "won"
    <3>1. sender.k <= Len(trades) + 1  BY <1>8, <2>1 DEF SenderOK, ClaimOK, BlockJob
    <3>2. QED  BY <1>3, <1>15, <2>1, <3>1 DEF SenderOK, BlockOK
  <2>2. QED  BY <1>1, <2>1 DEF SenderOK, BlockOK, BlockJob, OneCycle, Sending, Removing
<1>17. RecordOK'
  <2>1. ASSUME sender.at = "record" PROVE chat[sender.target].shown \in Nat
    BY <2>1, MessageFields DEF SenderOK, RecordOK, NoticesTypeOK
  <2>2. QED  BY <1>1, <1>2, <1>8, <2>1 DEF SenderOK, RecordOK, BlockJob
<1>18. QED
  BY <1>5, <1>6, <1>7, <1>9, <1>10, <1>11, <1>12, <1>13, <1>14, <1>16, <1>17 DEF SenderOK

-----------------------------------------------------------------------------
(* What a step does to the messages and to the sender *)

\* No message a reply was drawn in went.
RepliesStay == \A n \in 1..Len(chat) : chat[n].handed = "yes" => chat'[n].live

\* What WorldOK is about, but for the messages.
worldVars == <<status, trades, intent, waits, cursor, cycle, from, waiting, closed, summary, told>>

\* When messages only fade and at most one more trade is claimed, the blocks stay in order.
LEMMA FadedBlocks ==
  ASSUME NoticesInv, Faded, RepliesStay, cursor' = cursor \/ (~closed /\ cursor' = cursor + 1),
         UNCHANGED <<status, trades, intent, waits, cycle, from, waiting, closed, summary, told>>
  PROVE  WorldOK' /\ (BlockOpen' => BlockOpen /\ chat'[cycle'].open = chat[cycle].open)
<1> USE DEF NoticesInv, Faded
<1>1. cursor \in Nat  BY DEF NoticesTypeOK, ColumnTypes
<1>10. SessionOK' /\ ToldOK'
  <2>1. SessionOK'  BY DEF SessionOK, Finished
  <2>2. MaxResults \in Nat  BY NoticesAssumption
  <2>3. ToldOK'  BY <1>1, <2>2 DEF ToldOK
  <2>4. QED  BY <2>1, <2>3
<1>2. ChatOK'  BY DEF ChatOK, RepliesStay
<1>3. cycle # 0 => cycle \in 1..Len(chat)  BY DEF NoticesTypeOK, ColumnTypes
<1>4. CycleOK'
  <2>1. ASSUME cycle # 0 PROVE CycleOK'
    <3>1. /\ chat'[cycle].kind = chat[cycle].kind /\ chat'[cycle].known = chat[cycle].known
          /\ chat'[cycle].first = chat[cycle].first /\ chat'[cycle].shown = chat[cycle].shown
      BY <1>3, <2>1
    <3>2. CycleOK /\ cycle' = cycle /\ from' = from /\ trades' = trades
          /\ (cursor' = cursor \/ cursor' = cursor + 1) /\ from \in Nat /\ chat[cycle].shown \in Nat
      BY <1>3, <2>1, MessageFields DEF NoticesTypeOK, ColumnTypes
    <3> HIDE DEF NoticesInv, Faded
    <3>3. QED  BY <1>1, <2>1, <3>1, <3>2 DEF CycleOK, OneCycle
  <2>2. ASSUME cycle = 0 PROVE CycleOK'  BY <2>2 DEF CycleOK
  <2>3. QED  BY <2>1, <2>2
<1>5. \A n \in 1..Len(chat) : OpenButton(n)' => OpenButton(n)  BY DEF OpenButton
<1>6. BlocksOK' /\ NoRepeatedBlock'  BY <1>5 DEF BlocksOK, NoRepeatedBlock
<1>7. BlockOpen' => BlockOpen /\ chat'[cycle'].open = chat[cycle].open  BY <1>3, <1>5 DEF BlockOpen
<1>8. ButtonOK'
  <2>1. ASSUME BlockOpen PROVE ButtonOK'
    <3>1. chat'[cycle].open = chat[cycle].open  BY <1>3, <2>1 DEF BlockOpen
    <3>2. ButtonOK /\ cycle' = cycle /\ from' = from /\ trades' = trades /\ waiting' = waiting /\ intent' = intent
      OBVIOUS
    <3> HIDE DEF NoticesInv, Faded
    <3>3. QED  BY <2>1, <3>1, <3>2 DEF ButtonOK, OneCycle
  <2>2. QED  BY <1>7, <2>1 DEF ButtonOK
<1>9. QED  BY <1>2, <1>10, <1>4, <1>6, <1>7, <1>8 DEF WorldOK

\* The same with the columns as they were.
LEMMA FadedWorld ==
  ASSUME NoticesInv, Faded, RepliesStay, UNCHANGED worldVars
  PROVE  WorldOK' /\ (BlockOpen' => BlockOpen /\ chat'[cycle'].open = chat[cycle].open)
BY FadedBlocks DEF worldVars

\* Messages that fade keep the kinds the columns rest on.
LEMMA FadedColumns ==
  ASSUME NoticesInv, Faded, UNCHANGED <<session, columns>>
  PROVE  ColumnTypes'
BY DEF NoticesInv, NoticesTypeOK, ColumnTypes, ChatTypes, Faded, session, columns

\* With the messages as they were.
LEMMA StillWorld ==
  ASSUME NoticesInv, UNCHANGED worldVars, UNCHANGED chat
  PROVE  /\ Faded /\ RepliesStay /\ WorldOK'
         /\ BlockOpen' => BlockOpen /\ chat'[cycle'].open = chat[cycle].open
<1>1. Faded  BY SameFades DEF NoticesInv, NoticesTypeOK
<1>2. RepliesStay  BY DEF RepliesStay, NoticesInv, ChatOK
<1>3. QED  BY <1>1, <1>2, FadedWorld

\* The sender's step while messages fade under it.
LEMMA FadedSender ==
  ASSUME NoticesInv, Faded, RepliesStay, UNCHANGED <<session, columns, told, sender>>,
         \A n \in 1..Len(chat) : chat'[n].stray = chat[n].stray
  PROVE  ButtonJobOK' /\ RowOK' /\ SenderOK'
<1> USE DEF NoticesInv, session, columns
<1>1. BlockOpen' => BlockOpen  BY FadedWorld DEF worldVars
<1>2. cycle # 0 => cycle \in 1..Len(chat)  BY DEF NoticesTypeOK, ColumnTypes
<1>3. ButtonJobOK'
  <2>1. BlockOpen => chat'[cycle].open = chat[cycle].open  BY <1>2 DEF BlockOpen, Faded
  <2>2. QED  BY <1>1, <2>1 DEF ButtonJobOK, BlockJob, Sending, Removing, InTurn
<1>4. RowOK'  BY DEF RowOK, RowIsOK, InTurn, Faded
<1>5. StepOK' /\ ClaimOK'
  <2>1. cycle # 0 => chat'[cycle].shown = chat[cycle].shown  BY <1>2 DEF Faded
  <2>2. StepOK'  BY DEF SenderOK, StepOK, Removing, Faded
  <2>3. ClaimOK'  BY <2>1 DEF SenderOK, ClaimOK, Removing
  <2>4. QED  BY <2>2, <2>3
<1>6. BlockOK'
  BY DEF SenderOK, BlockOK, BlockJob, Sending, Removing, OneCycle, Faded
<1>7. sender.at \in {"delete", "clear"} => sender.target \in 1..Len(chat)
  <2>1. sender.target \in Nat  BY SenderTypes DEF NoticesTypeOK, ChatTypes
  <2>2. QED  BY <2>1 DEF SenderOK, TargetOK, StepOK, Removing, RowOK, RowIsOK, InTurn
<1>8. TargetOK'
  BY <1>7 DEF SenderOK, TargetOK, RecordOK, Removing, Faded
<1>9. RecordOK'
  BY DEF SenderOK, RecordOK, BlockJob, Faded
<1>10. QED  BY <1>3, <1>4, <1>5, <1>6, <1>8, <1>9 DEF SenderOK

\* What a turn that ended leaves to show.
LEMMA IdleSender ==
  ASSUME sender' = Idle, BlockOpen' => (chat[cycle].open = cursor + 1)'
  PROVE  ButtonJobOK' /\ RowOK' /\ SenderOK'
<1>1. sender'.at = "idle" /\ sender'.job = "none" /\ sender'.open = 0  BY IdleFields
<1>2. ButtonJobOK' /\ RowOK'
  BY <1>1 DEF ButtonJobOK, RowOK, InTurn, BlockJob
<1>3. StepOK' /\ ClaimOK'  BY <1>1 DEF StepOK, ClaimOK, Calls
<1>4. BlockOK' /\ TargetOK' /\ RecordOK'
  BY <1>1 DEF BlockOK, TargetOK, RecordOK, BlockJob, Removing
<1>5. QED  BY <1>2, <1>3, <1>4 DEF SenderOK

\* What a turn that goes on leaves to show.
LEMMA ServeSender ==
  ASSUME NEW row \in RowType, sender' = Serving(row), RowIsOK(row)', row.notified = cursor',
         BlockOpen' => (chat[cycle].open = cursor + 1)'
                       /\ (row.waits => chat'[cycle'].open <= row.settled)
  PROVE  ButtonJobOK' /\ RowOK' /\ SenderOK'
<1>1. sender'.at = "serve" /\ sender'.job = "none" /\ sender'.row = row /\ sender'.open = 0
  BY ServingFields
<1>2. ButtonJobOK' /\ RowOK'
  BY <1>1 DEF ButtonJobOK, RowOK, RowIsOK, InTurn, BlockJob
<1>3. StepOK' /\ ClaimOK'  BY <1>1 DEF StepOK, ClaimOK, Calls
<1>4. BlockOK' /\ TargetOK' /\ RecordOK'
  BY <1>1 DEF BlockOK, TargetOK, RecordOK, BlockJob, Removing
<1>5. QED  BY <1>2, <1>3, <1>4 DEF SenderOK

\* A message written below the others, not recorded yet.
LEMMA GrownWorld ==
  ASSUME NoticesInv, NEW msg \in MessageType, Grown(msg), msg.handed = "no", ~msg.known,
         msg.kind # "cycle" => msg.open = 0,
         msg.kind = "summary" => closed' /\ summary' \in {"bot", "text"},
         \A m \in 1..Len(chat) : chat[m].kind # "summary",
         UNCHANGED <<session, cursor, cycle, from, mark, waiting, slot, card, closed>>
  PROVE  /\ ChatOK' /\ CycleOK' /\ BlocksOK' /\ NoRepeatedBlock' /\ ButtonOK'
         /\ BlockOpen' => BlockOpen /\ (chat[cycle].open)' = chat[cycle].open
<1> USE DEF NoticesInv, Grown, session
<1>1. Len(chat) \in Nat /\ \A m \in 1..Len(chat') : m \in 1..Len(chat) \/ m = Len(chat) + 1
  BY DEF NoticesTypeOK, ChatTypes
<1>2. waiting \in 0..Len(chat)  BY DEF NoticesTypeOK, ColumnTypes
<1>3. ChatOK'  BY <1>1, <1>2 DEF ChatOK
<1>4. cycle # 0 => cycle \in 1..Len(chat)  BY DEF NoticesTypeOK, ColumnTypes
<1>5. CycleOK'  BY <1>4 DEF CycleOK, OneCycle
<1>6. \A n \in 1..Len(chat) : OpenButton(n)' <=> OpenButton(n)  BY DEF OpenButton
<1>7. BlocksOK'  BY <1>1, <1>6 DEF BlocksOK
<1>8. NoRepeatedBlock'  BY <1>1 DEF NoRepeatedBlock
<1>9. BlockOpen' => BlockOpen /\ (chat[cycle].open)' = chat[cycle].open  BY <1>4, <1>6 DEF BlockOpen
<1>10. ButtonOK'  BY <1>4, <1>9 DEF ButtonOK, OneCycle, BlockOpen
<1>11. QED  BY <1>3, <1>5, <1>7, <1>8, <1>9, <1>10

-----------------------------------------------------------------------------
(* The bot and the owner *)

\* The owner deletes a message.
LEMMA OwnerDeletesKeeps == ASSUME NoticesInv, OwnerDeletes PROVE NoticesInv'
<1>1. PICK m \in 1..Len(chat) : chat[m].handed = "no" /\ chat' = Gone(m)
  <2>1. DOMAIN chat = 1..Len(chat)  BY ChatDomain DEF NoticesInv, NoticesTypeOK
  <2>2. \E m \in DOMAIN chat : chat[m].handed = "no" /\ chat' = Gone(m)  BY Zenon DEF OwnerDeletes, Gone
  <2>3. QED  BY <2>1, <2>2, Zenon
<1>2. UNCHANGED <<session, columns, told, sender, blocked, graceOver>> /\ faults' = faults + 1
  BY DEF OwnerDeletes
<1>3. Went(m)  BY <1>1, GoneFades DEF NoticesInv, NoticesTypeOK
<1>4. Faded /\ RepliesStay /\ \A n \in 1..Len(chat) : chat'[n].stray = chat[n].stray
  <2>1. chat'[m].stray = chat[m].stray
    BY <1>1, MessageFields DEF Gone, NoticesInv, NoticesTypeOK, ChatTypes, MessageType
  <2>2. Faded /\ \A n \in 1..Len(chat) : n # m => chat'[n] = chat[n]  BY <1>3 DEF Went
  <2>3. RepliesStay  BY <1>1, <2>2 DEF RepliesStay, NoticesInv, ChatOK
  <2>4. QED  BY <2>1, <2>2, <2>3
<1>5. NoticesTypeOK'
  <2>1. SessionTypes'  BY <1>2 DEF NoticesInv, NoticesTypeOK, SessionTypes, session
  <2>2. ChatTypes'  BY <1>2, <1>4 DEF NoticesInv, NoticesTypeOK, ChatTypes, Faded
  <2>3. QED  BY <1>2, <1>4, <2>1, <2>2, FadedColumns DEF NoticesTypeOK
<1>6. UNCHANGED worldVars  BY <1>2 DEF worldVars, session, columns
<1>7. QED  BY <1>2, <1>4, <1>5, <1>6, FadedWorld, FadedSender DEF NoticesInv, WorldOK

\* The sender's step while a message is written beside it.
LEMMA GrownSender ==
  ASSUME NoticesInv, NEW msg \in MessageType, Grown(msg), ~msg.known,
         msg.kind = "summary" => sender.job # "summary",
         BlockOpen' => BlockOpen /\ (chat[cycle].open)' = chat[cycle].open,
         UNCHANGED <<session, cursor, cycle, from, mark, waiting, slot, card, closed, told, sender>>,
         summary' # summary => sender.job # "summary"
  PROVE  ButtonJobOK' /\ RowOK' /\ SenderOK'
<1> USE DEF NoticesInv, Grown, session
<1>1. Len(chat) \in Nat /\ \A m \in 1..Len(chat') : m \in 1..Len(chat) \/ m = Len(chat) + 1
  BY DEF NoticesTypeOK, ChatTypes
<1>2. ButtonJobOK'  BY DEF ButtonJobOK, BlockJob, Sending, Removing, InTurn
<1>3. sender.row.waiting \in Nat /\ sender.target \in Nat
  BY SenderTypes, RowTypes DEF NoticesTypeOK, ChatTypes, RowFields
<1>4. RowOK'  BY <1>1, <1>3 DEF RowOK, RowIsOK, InTurn
<1>5. StepOK' /\ ClaimOK'
  <2>1. cycle # 0 => chat'[cycle].shown = chat[cycle].shown  BY DEF NoticesTypeOK, ColumnTypes
  <2>2. StepOK'  BY <1>1 DEF SenderOK, StepOK, Removing
  <2>3. ClaimOK'  BY <2>1 DEF SenderOK, ClaimOK, Removing
  <2>4. QED  BY <2>2, <2>3
<1>6. BlockOK'  BY <1>1 DEF SenderOK, BlockOK, BlockJob, Sending, Removing, OneCycle
<1>7. sender.at \in {"delete", "clear"} => sender.target \in 1..Len(chat)
  BY <1>3 DEF SenderOK, TargetOK, StepOK, Removing, RowOK, RowIsOK, InTurn
<1>8. TargetOK' /\ RecordOK'
  BY <1>1, <1>7 DEF SenderOK, TargetOK, RecordOK, Removing, BlockJob
<1>9. QED  BY <1>2, <1>4, <1>5, <1>6, <1>8 DEF SenderOK

\* A new card stands below the others.
LEMMA SendCardKeeps == ASSUME NoticesInv, SendCard PROVE NoticesInv'
<1> DEFINE msg == Message("card")
<1>1. /\ msg \in MessageType /\ msg.kind = "card" /\ ~msg.known /\ msg.handed = "no" /\ msg.open = 0
  BY SentMessage
<1> HIDE DEF msg
<1>2. chat' = Append(chat, msg) /\ status = "active"
      /\ UNCHANGED <<session, columns, blocked, graceOver, sender, faults, told>>
  BY DEF SendCard, msg
<1>3. Grown(msg)  BY <1>1, <1>2, AppendGrows DEF NoticesInv, NoticesTypeOK
<1>4. \A m \in 1..Len(chat) : chat[m].kind # "summary"
  BY <1>2 DEF NoticesInv, ChatOK, SessionOK, Finished
<1>5. /\ ChatOK' /\ CycleOK' /\ BlocksOK' /\ NoRepeatedBlock' /\ ButtonOK'
      /\ BlockOpen' => BlockOpen /\ (chat[cycle].open)' = chat[cycle].open
  BY <1>1, <1>2, <1>3, <1>4, GrownWorld DEF columns
<1>6. ButtonJobOK' /\ RowOK' /\ SenderOK'  BY <1>1, <1>2, <1>3, <1>5, GrownSender DEF columns
<1>7. NoticesTypeOK' /\ SessionOK' /\ ToldOK'
  <2>1. SessionTypes' /\ SessionOK' /\ ToldOK'
    BY <1>2 DEF NoticesInv, NoticesTypeOK, SessionTypes, session, SessionOK, Finished, ToldOK, columns
  <2>2. ChatTypes'  BY <1>2, <1>3 DEF NoticesInv, NoticesTypeOK, ChatTypes, Grown
  <2>3. ColumnTypes'
    BY <1>2, <1>3 DEF NoticesInv, NoticesTypeOK, ColumnTypes, ChatTypes, Grown, session, columns
  <2>4. QED  BY <2>1, <2>2, <2>3 DEF NoticesTypeOK
<1>8. QED  BY <1>5, <1>6, <1>7 DEF NoticesInv

\* The bot's summary is the last message.
LEMMA BotSummaryKeeps == ASSUME NoticesInv, BotSummary PROVE NoticesInv'
<1>1. /\ summary = "no" /\ summary' = "bot" /\ closed
      /\ UNCHANGED <<session, cursor, cycle, from, mark, waiting, slot, card, closed, blocked, graceOver,
                     sender, told>>
      /\ faults' \in {faults, faults + 1}
  BY DEF BotSummary, SummaryClaimable
<1>2. sender.job # "summary" /\ \A m \in 1..Len(chat) : chat[m].kind # "summary"
  BY <1>1 DEF NoticesInv, SenderOK, StepOK, ChatOK
<1>3. SessionTypes' /\ SessionOK' /\ ToldOK'
  BY <1>1 DEF NoticesInv, NoticesTypeOK, SessionTypes, session, SessionOK, Finished, ToldOK
<1>4. CASE UNCHANGED chat
  <2>1. ChatTypes' /\ ColumnTypes'
    BY <1>1, <1>4 DEF NoticesInv, NoticesTypeOK, ChatTypes, ColumnTypes, session
  <2>2. ChatOK' /\ CycleOK' /\ BlocksOK' /\ NoRepeatedBlock'
    BY <1>1, <1>2, <1>4
     DEF NoticesInv, ChatOK, CycleOK, BlocksOK, NoRepeatedBlock, OneCycle, OpenButton, session
  <2>3. ButtonOK' /\ ButtonJobOK' /\ RowOK'
    BY <1>1, <1>4 DEF NoticesInv, ButtonOK, ButtonJobOK, BlockOpen, OneCycle, OpenButton, BlockJob, Sending,
       Removing, InTurn, RowOK, RowIsOK, session
  <2>4. StepOK' /\ ClaimOK' /\ BlockOK' /\ TargetOK' /\ RecordOK'
    BY <1>1, <1>2, <1>4 DEF NoticesInv, SenderOK, StepOK, ClaimOK, BlockOK, TargetOK, RecordOK, Removing,
       Sending, BlockJob, OneCycle, session
  <2>5. QED  BY <1>3, <2>1, <2>2, <2>3, <2>4 DEF NoticesInv, NoticesTypeOK, SenderOK
<1>5. CASE chat' = Append(chat, Message("summary"))
  <2> DEFINE msg == Message("summary")
  <2>1. /\ msg \in MessageType /\ msg.kind = "summary" /\ ~msg.known /\ msg.handed = "no" /\ msg.open = 0
    BY SentMessage
  <2>2. chat' = Append(chat, msg)  BY <1>5
  <2> HIDE DEF msg
  <2>3. Grown(msg)  BY <2>1, <2>2, AppendGrows DEF NoticesInv, NoticesTypeOK
  <2>4. closed' /\ summary' \in {"bot", "text"}  BY <1>1
  <2>5. /\ ChatOK' /\ CycleOK' /\ BlocksOK' /\ NoRepeatedBlock' /\ ButtonOK'
        /\ BlockOpen' => BlockOpen /\ (chat[cycle].open)' = chat[cycle].open
    BY <1>1, <1>2, <2>1, <2>3, <2>4, GrownWorld
  <2>6. ButtonJobOK' /\ RowOK' /\ SenderOK'  BY <1>1, <1>2, <2>1, <2>3, <2>5, GrownSender
  <2>7. ChatTypes'  BY <1>1, <2>3 DEF NoticesInv, NoticesTypeOK, ChatTypes, Grown
  <2>8. ColumnTypes'
    BY <1>1, <2>3 DEF NoticesInv, NoticesTypeOK, ColumnTypes, ChatTypes, Grown, session
  <2>9. QED  BY <1>3, <2>5, <2>6, <2>7, <2>8 DEF NoticesInv, NoticesTypeOK
<1>6. QED  BY <1>4, <1>5 DEF BotSummary

\* A press changes the pressed message, the status and the two columns of the waiting message.
LEMMA PressKeeps == ASSUME NoticesInv, Press PROVE NoticesInv'
<1> USE DEF NoticesInv
<1>1. PICK m \in 1..Len(chat) :
        /\ chat[m].kind = "waiting" /\ chat[m].live /\ chat[m].handed = "no"
        /\ status' = "stopped" /\ HandedOver(m)
        /\ chat' = [chat EXCEPT ![m].handed =
                      IF sender.at \in {"delete", "record"} /\ sender.target = m THEN "late" ELSE "yes"]
  <2>1. DOMAIN chat = 1..Len(chat)  BY ChatDomain DEF NoticesTypeOK
  <2>2. QED  BY <2>1, Zenon DEF Press
<1>2. UNCHANGED <<noSignal, trades, intent, waits, cursor, cycle, from, mark, card, closed, summary,
                  blocked, graceOver, sender, faults, told>>
  BY DEF Press
<1> DEFINE h == IF sender.at \in {"delete", "record"} /\ sender.target = m THEN "late" ELSE "yes"
           new == [chat[m] EXCEPT !.handed = h]
<1>3. chat[m] \in MessageType /\ h \in {"late", "yes"}  BY MessageFields DEF NoticesTypeOK
<1>4. chat' = [chat EXCEPT ![m] = new]  BY <1>1
<1>5. /\ new \in MessageType /\ new.handed = h
      /\ new.kind = chat[m].kind /\ new.known = chat[m].known /\ new.first = chat[m].first
      /\ new.shown = chat[m].shown /\ new.open = chat[m].open /\ new.live = chat[m].live
      /\ new.stray = chat[m].stray
  BY <1>3 DEF MessageType
<1>6. h = "yes" => ~(sender.at \in {"delete", "record"} /\ sender.target = m)  OBVIOUS
<1> HIDE DEF new, h
<1>7. /\ chat' \in Seq(MessageType) /\ Len(chat') = Len(chat) /\ chat'[m] = new
      /\ \A n \in 1..Len(chat) : n # m => chat'[n] = chat[n]
  BY <1>4, <1>5 DEF NoticesTypeOK, ChatTypes
<1>8. /\ \A n \in 1..Len(chat) :
           /\ chat'[n].kind = chat[n].kind /\ chat'[n].known = chat[n].known
           /\ chat'[n].first = chat[n].first /\ chat'[n].shown = chat[n].shown
           /\ chat'[n].open = chat[n].open /\ chat'[n].live = chat[n].live
           /\ chat'[n].stray = chat[n].stray
      /\ chat'[m].handed \in {"late", "yes"}
  BY <1>3, <1>5, <1>7
<1>9. waiting' \in {waiting, 0} /\ (waiting = m => waiting' = 0) /\ (waiting # m => waiting' = waiting)
      /\ (waiting' # 0 => slot' = slot) /\ slot' \in {slot, NoSlot}
  BY <1>1 DEF HandedOver
<1>10. NoticesTypeOK'
  <2>1. SessionTypes'  BY <1>1, <1>2 DEF NoticesTypeOK, SessionTypes
  <2>2. ChatTypes'  BY <1>2, <1>7 DEF NoticesTypeOK, ChatTypes
  <2>3. ColumnTypes'  BY <1>2, <1>7, <1>8, <1>9 DEF NoticesTypeOK, ColumnTypes
  <2>4. QED  BY <2>1, <2>2, <2>3 DEF NoticesTypeOK
<1>11. SessionOK' /\ ToldOK'  BY <1>1, <1>2, <1>9 DEF SessionOK, ToldOK, Finished
<1>12. ChatOK'  BY <1>1, <1>2, <1>7, <1>8, <1>9 DEF ChatOK
<1>13. cycle # 0 => cycle \in 1..Len(chat)  BY DEF NoticesTypeOK, ColumnTypes
<1>14. CycleOK'
  <2>1. ASSUME cycle # 0 PROVE CycleOK'
    <3>1. /\ chat'[cycle].kind = chat[cycle].kind /\ chat'[cycle].known = chat[cycle].known
          /\ chat'[cycle].first = chat[cycle].first /\ chat'[cycle].shown = chat[cycle].shown
      BY <1>8, <1>13, <2>1
    <3>2. CycleOK /\ UNCHANGED <<cycle, from, cursor, trades>>  BY <1>2
    <3> HIDE DEF NoticesInv
    <3>3. QED  BY <2>1, <3>1, <3>2 DEF CycleOK, OneCycle
  <2>2. ASSUME cycle = 0 PROVE CycleOK'  BY <1>2, <2>2 DEF CycleOK
  <2>3. QED  BY <2>1, <2>2
<1>15. \A n \in 1..Len(chat) : OpenButton(n)' <=> OpenButton(n)  BY <1>8 DEF OpenButton
<1>16. BlocksOK' /\ NoRepeatedBlock'  BY <1>2, <1>7, <1>8, <1>15 DEF BlocksOK, NoRepeatedBlock
<1>17. (BlockOpen' <=> BlockOpen) /\ (BlockOpen => chat'[cycle].open = chat[cycle].open)
  BY <1>2, <1>8, <1>13, <1>15 DEF BlockOpen
<1>18. ButtonOK'
  <2>1. ASSUME BlockOpen PROVE ButtonOK'
    <3>1. ButtonOK /\ UNCHANGED <<cycle, from, trades, intent>> /\ (waiting = 0 => waiting' = 0)
          /\ chat'[cycle].open = chat[cycle].open
      BY <1>2, <1>9, <1>17, <2>1
    <3> HIDE DEF NoticesInv
    <3>2. QED  BY <2>1, <3>1 DEF ButtonOK, OneCycle
  <2>2. QED  BY <1>17, <2>1 DEF ButtonOK
<1>19. ButtonJobOK'
  BY <1>2, <1>17 DEF ButtonJobOK, BlockJob, Sending, Removing, InTurn
<1>20. RowOK'  BY <1>2, <1>7, <1>9 DEF RowOK, RowIsOK, InTurn
<1>21. StepOK' /\ ClaimOK'
  <2>1. cycle # 0 => chat'[cycle].shown = chat[cycle].shown  BY <1>8, <1>13
  <2>2. StepOK'  BY <1>2, <1>7, <1>8 DEF SenderOK, StepOK, Removing
  <2>3. ClaimOK'  BY <1>2, <2>1 DEF SenderOK, ClaimOK, Removing
  <2>4. QED  BY <2>2, <2>3
<1>22. BlockOK'
  BY <1>2, <1>7, <1>8 DEF SenderOK, BlockOK, BlockJob, Sending, Removing, OneCycle
<1>23. sender.at \in {"delete", "clear"} => sender.target \in 1..Len(chat)
  <2>1. sender.target \in Nat  BY SenderTypes DEF NoticesTypeOK, ChatTypes
  <2>2. QED  BY <2>1 DEF SenderOK, TargetOK, StepOK, Removing, RowOK, RowIsOK, InTurn
<1>24. TargetOK'
  <2>1. sender.at \in {"delete", "record"} => chat'[sender.target].handed # "yes"
    <3>1. sender.at \in {"delete", "record"} => sender.target \in 1..Len(chat)
      BY <1>23 DEF SenderOK, RecordOK
    <3>2. QED  BY <1>5, <1>6, <1>7, <3>1 DEF SenderOK, TargetOK
  <2>2. QED  BY <1>2, <1>8, <1>23, <2>1 DEF SenderOK, TargetOK, Removing
<1>25. RecordOK'  BY <1>2, <1>7, <1>8 DEF SenderOK, RecordOK, BlockJob
<1>26. QED
  BY <1>10, <1>11, <1>12, <1>14, <1>16, <1>18, <1>19, <1>20, <1>21, <1>22, <1>24, <1>25 DEF SenderOK

-----------------------------------------------------------------------------
(* The turn: its begin, its end and the caption pass *)

\* A job that takes the waiting message away.
LEMMA RemovalSender ==
  ASSUME sender' \in SenderType, sender'.job \in Removals, RowIsOK(sender.row)', sender'.open = 0,
         \/ sender'.at \in {"reread", "delete"}
         \/ sender'.at \in {"page", "caption"} /\ sender'.job = "caption"
         \/ sender'.at = "clear" /\ (~chat[sender.target].live \/ chat[sender.target].stray)',
         sender'.target = sender'.row.waiting, sender'.target # 0,
         sender'.job = "stale" => sender'.row.notified = cursor',
         sender'.at = "delete" => (chat[sender.target].handed # "yes")',
         BlockOpen' => /\ (chat[cycle].open = cursor + 1)' /\ sender'.job # "caption"
                       /\ (sender.row.waits => chat[cycle].open <= sender.row.settled)'
  PROVE  ButtonJobOK' /\ RowOK' /\ SenderOK'
<1>1. ButtonJobOK' /\ RowOK'
  BY DEF ButtonJobOK, RowOK, RowIsOK, InTurn, BlockJob, Removals
<1>2. StepOK' /\ ClaimOK'  BY DEF StepOK, ClaimOK, Calls, Removals, Removing, BlockJob
<1>3. BlockOK' /\ TargetOK' /\ RecordOK'
  BY DEF BlockOK, TargetOK, RecordOK, BlockJob, Removing, Removals
<1>4. QED  BY <1>1, <1>2, <1>3 DEF SenderOK

\* The types of a step of the sender.
LEMMA SenderStepTypes ==
  ASSUME NoticesInv, Faded, sender' \in SenderType, blocked' \in BOOLEAN, faults' \in {faults, faults + 1},
         UNCHANGED <<session, graceOver, told>>
  PROVE  SessionTypes' /\ ChatTypes'
<1>1. SessionTypes'  BY DEF NoticesInv, NoticesTypeOK, SessionTypes, session
<1>2. ChatTypes'  BY DEF NoticesInv, NoticesTypeOK, ChatTypes, Faded
<1>3. QED  BY <1>1, <1>2

\* A step of the sender alone, with its three parts given.
LEMMA SenderStep ==
  ASSUME NoticesInv, sender' \in SenderType, blocked' \in BOOLEAN, faults' \in {faults, faults + 1},
         UNCHANGED <<session, columns, graceOver, told, chat>>, ButtonJobOK' /\ RowOK' /\ SenderOK'
  PROVE  NoticesInv'
<1>1. UNCHANGED worldVars  BY DEF worldVars, session, columns
<1>2. Faded /\ WorldOK'  BY <1>1, StillWorld
<1>3. SessionTypes' /\ ChatTypes'  BY <1>2, SenderStepTypes
<1>4. ColumnTypes'  BY <1>2, FadedColumns
<1>5. QED  BY <1>2, <1>3, <1>4 DEF NoticesInv, WorldOK, NoticesTypeOK

\* The sender falls idle and nothing else changes; it was not telling a trade.
LEMMA FallsIdle ==
  ASSUME NoticesInv, sender' = Idle, sender.job # "trade", blocked' \in BOOLEAN,
         faults' \in {faults, faults + 1}, UNCHANGED <<session, columns, graceOver, told, chat>>
  PROVE  NoticesInv'
<1>1. UNCHANGED worldVars  BY DEF worldVars, session, columns
<1>2. BlockOpen' => (chat[cycle].open = cursor + 1)'
  BY <1>1, StillWorld DEF NoticesInv, ButtonJobOK, worldVars
<1>3. ButtonJobOK' /\ RowOK' /\ SenderOK'  BY <1>2, IdleSender
<1>4. QED  BY <1>3, IdleFields, SenderStep

\* Whether the user blocked the bot.
LEMMA BlockedType == ASSUME NoticesInv PROVE blocked \in BOOLEAN
BY DEF NoticesInv, NoticesTypeOK, SessionTypes

\* A turn that ends changes no message.
LEMMA EndTurnKeeps == ASSUME NoticesInv, EndTurn PROVE NoticesInv'
<1>1. sender.job # "trade"  BY DEF EndTurn, NoticesInv, SenderOK, StepOK
<1>2. QED  BY <1>1, BlockedType, FallsIdle DEF EndTurn, Quiet

\* A listed row is typed.
LEMMA RowTyped == ASSUME NoticesTypeOK PROVE Row \in RowType
<1>1. Len(trades) \in Nat /\ cursor \in Nat /\ mark \in Nat /\ waiting \in Nat /\ OpenTrade \in Nat
  BY DEF NoticesTypeOK, SessionTypes, ColumnTypes, ChatTypes, OpenTrade
<1>2. /\ Finished \in BOOLEAN /\ WaitingClaimable \in BOOLEAN /\ WaitingStale \in BOOLEAN
      /\ Held \in BOOLEAN /\ blocked \in BOOLEAN /\ waits \in BOOLEAN /\ status \in {"active", "stopped"}
  BY DEF NoticesTypeOK, SessionTypes, Finished, WaitingClaimable, WaitingStale, Held
<1>3. QED  BY <1>1, <1>2 DEF Row, RowType

\* The list of the next turn is served from the row as it is.
LEMMA ListKeeps == ASSUME NoticesInv, List PROVE NoticesInv'
<1> USE DEF NoticesInv
<1>1. /\ sender = Idle /\ NoticeDue /\ sender' = Serving(Row)
      /\ UNCHANGED <<columns, session, blocked, graceOver, chat, faults, told>>
  BY DEF List, Quiet
<1>2. Row \in RowType  BY RowTyped
<1>3. PICK row \in RowType : row = Row  BY <1>2
<1>4. /\ row.notified = cursor /\ row.settled = Len(trades) /\ row.open = OpenTrade
      /\ row.blocked = blocked /\ row.waiting = waiting /\ row.due = (WaitingClaimable /\ ~blocked)
      /\ row.stale = WaitingStale /\ row.waits = waits
  BY <1>3 DEF Row
<1>5. RowIsOK(row)
  <2>1. ~closed  BY <1>1 DEF NoticeDue
  <2>2. waits => row.open = 0  BY <1>4 DEF SessionOK, OpenTrade
  <2>3. row.open # 0 /\ row.waiting # 0 /\ ~row.blocked => row.stale
    BY <1>4, <2>2 DEF WaitingStale, NoticesTypeOK, SessionTypes, OpenTrade
  <2>4. row.due => row.waits  BY <1>4 DEF WaitingClaimable
  <2>5. QED
    BY <1>4, <2>1, <2>2, <2>3, <2>4 DEF RowIsOK, OpenTrade, NoticesTypeOK, SessionTypes, ColumnTypes, ChatTypes
<1>6. RowIsOK(row)' /\ row.notified = cursor'
  BY <1>1, <1>4, <1>5 DEF RowIsOK, session, columns
<1>7. sender.job # "trade"  BY <1>1, IdleFields
<1>8. BlockOpen' => (chat[cycle].open = cursor + 1)' /\ (row.waits => chat'[cycle'].open <= row.settled)
  <2>1. BlockOpen' => BlockOpen /\ chat'[cycle'].open = chat[cycle].open
    BY <1>1, StillWorld DEF worldVars, session, columns
  <2>2. BlockOpen => chat[cycle].open = cursor + 1  BY <1>7 DEF ButtonJobOK
  <2>3. BlockOpen /\ waits => chat[cycle].open <= Len(trades)  BY DEF ButtonOK, SessionOK
  <2>4. QED  BY <1>1, <1>4, <2>1, <2>2, <2>3 DEF columns
<1>9. sender' = Serving(row) /\ sender' \in SenderType  BY <1>1, <1>3, ServingFields
<1>10. ButtonJobOK' /\ RowOK' /\ SenderOK'  BY <1>6, <1>8, <1>9, ServeSender
<1> HIDE DEF NoticesInv
<1>11. QED  BY <1>1, <1>9, <1>10, BlockedType, SenderStep

\* The stale waiting message is taken up.
LEMMA StaleWaitingKeeps == ASSUME NoticesInv, StaleWaiting PROVE NoticesInv'
<1>1. /\ sender.at = "serve" /\ Task(sender.row) = "stale"
      /\ UNCHANGED <<columns, session, blocked, graceOver, chat, faults, told>>
  BY DEF StaleWaiting, Quiet
<1>2. PICK row \in RowType : row = sender.row  BY SenderTypes DEF NoticesInv, NoticesTypeOK, ChatTypes
<1>3. row.waiting # 0 /\ row.waiting \in Nat  BY <1>1, <1>2, RowTypes DEF Task, RowFields
<1>4. /\ sender' = Job("reread", "stale", row, row.waiting) /\ sender' \in SenderType
      /\ sender'.at = "reread" /\ sender'.job = "stale" /\ sender'.row = row
      /\ sender'.target = row.waiting /\ sender'.open = 0
  <2>1. sender' = Job("reread", "stale", row, row.waiting)  BY <1>2 DEF StaleWaiting
  <2>2. "reread" \in {"page"} \cup Calls
        /\ "stale" \in {"trade", "open", "waiting", "summary"} \cup Removals
    BY DEF Calls, Removals
  <2>3. QED  BY <1>3, <2>1, <2>2, JobFields
<1>5. sender.job = "none" /\ row.notified = cursor /\ RowIsOK(row)
  BY <1>1, <1>2 DEF NoticesInv, SenderOK, StepOK, RowOK, InTurn
<1>6. RowIsOK(sender.row)'  BY <1>1, <1>4, <1>5 DEF RowIsOK, session, columns
<1>7. BlockOpen' => /\ (chat[cycle].open = cursor + 1)' /\ sender'.job # "caption"
                    /\ (sender.row.waits => chat[cycle].open <= sender.row.settled)'
  <2>1. BlockOpen' => BlockOpen /\ chat'[cycle'].open = chat[cycle].open
    BY <1>1, StillWorld DEF worldVars, session, columns
  <2>2. BlockOpen => chat[cycle].open = cursor + 1 /\ (row.waits => chat[cycle].open <= row.settled)
    BY <1>1, <1>2, <1>5 DEF NoticesInv, ButtonJobOK, InTurn
  <2>3. QED  BY <1>1, <1>4, <2>1, <2>2 DEF columns
<1>8. ButtonJobOK' /\ RowOK' /\ SenderOK'
  BY <1>1, <1>3, <1>4, <1>5, <1>6, <1>7, RemovalSender DEF columns, Removals
<1>9. QED  BY <1>1, <1>4, <1>8, BlockedType, SenderStep

\* The caption pass takes up the recorded waiting message.
LEMMA ListCaptionKeeps == ASSUME NoticesInv, ListCaption PROVE NoticesInv'
<1> DEFINE new == [NoRow EXCEPT !.waiting = waiting, !.waits = TRUE]
<1>1. /\ waiting # 0 /\ sender' = Job("page", "caption", new, waiting)
      /\ UNCHANGED <<columns, session, blocked, graceOver, chat, faults, told>>
  BY DEF ListCaption, Quiet
<1>2. waiting \in 1..Len(chat) /\ Len(chat) \in Nat /\ Len(trades) \in Nat
  BY <1>1 DEF NoticesInv, NoticesTypeOK, SessionTypes, ColumnTypes, ChatTypes
<1>3. /\ new \in RowType /\ new.waiting = waiting /\ new.settled = 0 /\ new.open = 0
      /\ new.due = FALSE
  <2>1. new \in RowType
    <3>1. waiting \in Nat  BY <1>2
    <3>2. QED  BY <3>1 DEF NoRow, RowType
  <2>2. new.waiting = waiting /\ new.settled = 0 /\ new.open = 0 /\ new.due = FALSE  BY DEF NoRow
  <2>3. QED  BY <2>1, <2>2
<1> HIDE DEF new
<1>4. /\ sender' \in SenderType /\ sender'.at = "page" /\ sender'.job = "caption" /\ sender'.row = new
      /\ sender'.target = waiting /\ sender'.open = 0
  <2>1. "page" \in {"page"} \cup Calls
        /\ "caption" \in {"trade", "open", "waiting", "summary"} \cup Removals
    BY DEF Removals
  <2>2. waiting \in Nat  BY <1>2
  <2>3. QED  BY <1>1, <1>3, <2>1, <2>2, JobFields
<1>5. ~closed /\ ~BlockOpen  BY <1>1 DEF NoticesInv, SessionOK, ButtonOK
<1>6. RowIsOK(sender.row)'
  BY <1>1, <1>2, <1>3, <1>4, <1>5 DEF RowIsOK, session, columns
<1>7. ~BlockOpen'  BY <1>1, <1>5, StillWorld DEF worldVars, session, columns
<1>8. ButtonJobOK' /\ RowOK' /\ SenderOK'
  BY <1>1, <1>3, <1>4, <1>6, <1>7, RemovalSender DEF Removals
<1>9. QED  BY <1>1, <1>4, <1>8, BlockedType, SenderStep

\* The pass goes a step on with its job.
LEMMA CaptionGoesOn ==
  ASSUME NoticesInv, sender.at \in {"page", "caption"}, NEW at \in {"caption", "reread"},
         sender' = [sender EXCEPT !.at = at], blocked' \in BOOLEAN, faults' \in {faults, faults + 1},
         UNCHANGED <<session, columns, graceOver, told, chat>>
  PROVE  NoticesInv'
<1>1. sender \in SenderType  BY DEF NoticesInv, NoticesTypeOK, ChatTypes
<1>2. /\ sender' \in SenderType /\ sender'.at = at /\ sender'.job = sender.job /\ sender'.row = sender.row
      /\ sender'.target = sender.target /\ sender'.open = sender.open
  BY <1>1 DEF SenderType, Calls
<1>3. /\ sender.job = "caption" /\ RowIsOK(sender.row) /\ sender.open = 0
      /\ sender.target = sender.row.waiting /\ sender.target # 0
  BY DEF NoticesInv, SenderOK, StepOK, RowOK, InTurn, BlockOK, TargetOK
<1>4. RowIsOK(sender.row)'  BY <1>2, <1>3 DEF RowIsOK, session, columns
<1>5. ~BlockOpen'
  BY <1>3, StillWorld DEF worldVars, session, columns, NoticesInv, ButtonJobOK
<1>6. ButtonJobOK' /\ RowOK' /\ SenderOK'
  BY <1>2, <1>3, <1>4, <1>5, RemovalSender DEF Removals
<1>7. QED  BY <1>2, <1>6, SenderStep

\* The caption pass re-reads and edits.
LEMMA CaptionKeeps == ASSUME NoticesInv, ReReadCaption \/ EditCaption PROVE NoticesInv'
<1>1. sender.at \in {"page", "caption"} /\ sender.job # "trade"
  BY DEF ReReadCaption, EditCaption, NoticesInv, SenderOK, StepOK
<1>2. blocked' \in BOOLEAN /\ faults' \in {faults, faults + 1}
      /\ UNCHANGED <<session, columns, graceOver, told, chat>>
  BY BlockedType DEF ReReadCaption, EditCaption, Quiet
<1>3. \/ sender' = Idle \/ sender' = [sender EXCEPT !.at = "caption"] \/ sender' = [sender EXCEPT !.at = "reread"]
  BY DEF ReReadCaption, EditCaption
<1>4. QED  BY <1>1, <1>2, <1>3, FallsIdle, CaptionGoesOn

-----------------------------------------------------------------------------
(* The waiting message's claim, the close, the fallback and the ends of a step *)

\* The sends of a waiting message and of the summary, and their release.
LEMMA PlainSender ==
  ASSUME sender' \in SenderType, sender'.at \in {"send", "release"}, sender'.open = 0, ~BlockOpen',
         \/ sender'.job = "waiting" /\ RowIsOK(sender.row)' /\ sender'.row.notified = cursor'
         \/ /\ sender'.job = "summary" /\ closed' /\ summary' = "text"
            /\ (\A m \in 1..Len(chat) : chat[m].kind # "summary")'
  PROVE  ButtonJobOK' /\ RowOK' /\ SenderOK'
<1>1. ButtonJobOK' /\ RowOK'  BY DEF ButtonJobOK, RowOK, RowIsOK, InTurn
<1>2. StepOK' /\ ClaimOK'  BY DEF StepOK, ClaimOK, Calls, Removing
<1>3. BlockOK' /\ TargetOK' /\ RecordOK'
  BY DEF BlockOK, TargetOK, RecordOK, BlockJob, Removing
<1>4. QED  BY <1>1, <1>2, <1>3 DEF SenderOK

\* The sender falls idle over columns that the invariant does not read.
LEMMA Rests ==
  ASSUME NoticesInv, sender' = Idle, sender.job # "trade", NoticesTypeOK', UNCHANGED worldVars,
         UNCHANGED chat
  PROVE  NoticesInv'
<1>1. WorldOK' /\ (BlockOpen' => BlockOpen /\ chat'[cycle'].open = chat[cycle].open)  BY StillWorld
<1>2. BlockOpen' => (chat[cycle].open = cursor + 1)'
  BY <1>1 DEF NoticesInv, ButtonJobOK, worldVars
<1>3. ButtonJobOK' /\ RowOK' /\ SenderOK'  BY <1>2, IdleSender
<1>4. QED  BY <1>1, <1>3 DEF NoticesInv, WorldOK

\* With the summary told of or taken back, the blocks are as they were.
LEMMA StillBlocks ==
  ASSUME NoticesInv, UNCHANGED <<chat, trades, intent, cursor, cycle, from, waiting, told>>
  PROVE  /\ CycleOK' /\ BlocksOK' /\ NoRepeatedBlock' /\ ButtonOK' /\ ToldOK'
         /\ BlockOpen' => BlockOpen /\ chat'[cycle'].open = chat[cycle].open
<1> USE DEF NoticesInv
<1>1. CycleOK' /\ BlocksOK' /\ NoRepeatedBlock' /\ ToldOK'
  BY DEF CycleOK, BlocksOK, NoRepeatedBlock, OneCycle, OpenButton, ToldOK
<1>2. BlockOpen' => BlockOpen /\ chat'[cycle'].open = chat[cycle].open  BY DEF BlockOpen, OpenButton
<1>3. ButtonOK'  BY DEF ButtonOK, BlockOpen, OneCycle, OpenButton
<1>4. QED  BY <1>1, <1>2, <1>3

\* A closed session has no button of an open block.
LEMMA ClosedBlocks ==
  ASSUME NoticesInv, closed
  PROVE  ~BlockOpen
<1>1. cursor = Len(trades) /\ intent = "none" /\ Len(trades) \in Nat
  BY DEF NoticesInv, SessionOK, Finished, NoticesTypeOK, SessionTypes
<1>2. sender.job # "trade"
  <2>1. sender.job = "trade" => InTurn  BY IdleFields DEF NoticesInv, SenderOK, StepOK, InTurn
  <2>2. QED  BY <2>1 DEF NoticesInv, RowOK, RowIsOK
<1>3. QED  BY <1>1, <1>2 DEF NoticesInv, ButtonOK, ButtonJobOK

\* The waiting message is claimed for its slot.
LEMMA ClaimWaitingKeeps == ASSUME NoticesInv, ClaimWaiting PROVE NoticesInv'
<1>1. /\ sender.at = "serve" /\ Task(sender.row) = "waiting"
      /\ UNCHANGED <<cursor, cycle, from, mark, waiting, card, closed, summary, session, blocked,
                     graceOver, chat, faults, told>>
  BY DEF ClaimWaiting, Quiet
<1>2. sender.job = "none" /\ sender.row.notified = cursor /\ RowIsOK(sender.row)
  BY <1>1 DEF NoticesInv, SenderOK, StepOK, RowOK, InTurn
<1>3. UNCHANGED worldVars  BY <1>1 DEF worldVars, session
<1>4. CASE sender' = Idle /\ UNCHANGED slot
  <2>1. UNCHANGED columns  BY <1>1, <1>4 DEF columns
  <2>2. QED  BY <1>1, <1>2, <1>4, <2>1, BlockedType, FallsIdle
<1>5. CASE /\ WaitingClaimable /\ ~closed /\ slot' = Slot
           /\ sender' = [Job("send", "waiting", sender.row, 0) EXCEPT !.slot = Slot]
  <2>1. PICK row \in RowType : row = sender.row  BY SenderTypes DEF NoticesInv, NoticesTypeOK, ChatTypes
  <2>2. Slot \in Nat  BY DEF Slot, Higher, NoticesInv, NoticesTypeOK, ColumnTypes, ChatTypes
  <2> DEFINE job == Job("send", "waiting", row, 0)
  <2>3. job \in SenderType /\ job.at = "send" /\ job.job = "waiting" /\ job.row = row /\ job.open = 0
    <3>1. "send" \in {"page"} \cup Calls
          /\ "waiting" \in {"trade", "open", "waiting", "summary"} \cup Removals
      BY DEF Calls
    <3>2. QED  BY <3>1, JobFields
  <2> HIDE DEF job
  <2>4. sender' = [job EXCEPT !.slot = Slot]  BY <1>5, <2>1 DEF job
  <2>5. /\ sender' \in SenderType /\ sender'.at = "send" /\ sender'.job = "waiting"
        /\ sender'.row = row /\ sender'.open = 0
    BY <2>2, <2>3, <2>4 DEF SenderType
  <2>6. NoticesTypeOK'
    <3>1. SessionTypes' /\ ChatTypes'
      BY <1>1, <2>5 DEF NoticesInv, NoticesTypeOK, SessionTypes, ChatTypes, session
    <3>2. ColumnTypes'
      BY <1>1, <1>5, <2>2 DEF NoticesInv, NoticesTypeOK, ColumnTypes, WaitingClaimable, session
    <3>3. QED  BY <3>1, <3>2 DEF NoticesTypeOK
  <2>7. RowIsOK(sender.row)' /\ sender'.row.notified = cursor'
    BY <1>1, <1>2, <2>1, <2>5 DEF RowIsOK, session
  <2>8. ~BlockOpen
    <3>1. row.waits /\ ~(row.notified < row.settled) /\ row.settled \in Nat /\ row.notified \in Nat
      BY <1>1, <1>2, <2>1, RowTypes DEF Task, RowIsOK, RowFields
    <3>2. cursor \in Nat /\ Len(trades) \in Nat  BY DEF NoticesInv, NoticesTypeOK, ColumnTypes, SessionTypes
    <3>3. QED  BY <1>1, <1>2, <2>1, <3>1, <3>2 DEF NoticesInv, ButtonJobOK, InTurn
  <2>9. WorldOK' /\ ~BlockOpen'  BY <1>1, <1>3, <2>8, StillWorld
  <2>10. ButtonJobOK' /\ RowOK' /\ SenderOK'  BY <2>5, <2>7, <2>9, PlainSender
  <2>11. QED  BY <2>6, <2>9, <2>10 DEF NoticesInv, WorldOK
<1>6. QED  BY <1>4, <1>5 DEF ClaimWaiting

\* The notices close.
LEMMA CloseKeeps == ASSUME NoticesInv, Close PROVE NoticesInv'
<1>1. /\ sender.at = "serve" /\ sender' = Idle
      /\ UNCHANGED <<cursor, cycle, from, mark, waiting, slot, card, session, blocked, graceOver, chat,
                     faults, told>>
  BY DEF Close, Quiet
<1>2. sender.job = "none" /\ ~closed
  BY <1>1 DEF NoticesInv, SenderOK, StepOK, RowOK, RowIsOK, InTurn
<1>3. CASE UNCHANGED <<closed, summary>>
  <2>1. UNCHANGED columns  BY <1>1, <1>3 DEF columns
  <2>2. QED  BY <1>1, <1>2, <2>1, BlockedType, FallsIdle
<1>4. CASE MayClose /\ closed' = TRUE /\ summary' \in {summary, "nothing"}
  <2>1. NoticesTypeOK'
    BY <1>1, <1>4, IdleFields DEF NoticesInv, NoticesTypeOK, SessionTypes, ChatTypes, ColumnTypes, session
  <2>2. SessionOK'
    BY <1>1, <1>4 DEF NoticesInv, SessionOK, MayClose, Finished, session
  <2>3. ChatOK'  BY <1>1, <1>2, <1>4 DEF NoticesInv, ChatOK, session
  <2>4. /\ CycleOK' /\ BlocksOK' /\ NoRepeatedBlock' /\ ButtonOK' /\ ToldOK'
        /\ BlockOpen' => BlockOpen /\ chat'[cycle'].open = chat[cycle].open
    BY <1>1, StillBlocks DEF session
  <2>5. BlockOpen' => (chat[cycle].open = cursor + 1)'
    BY <1>1, <1>2, <2>4 DEF NoticesInv, ButtonJobOK
  <2>6. ButtonJobOK' /\ RowOK' /\ SenderOK'  BY <1>1, <2>5, IdleSender
  <2>7. QED  BY <2>1, <2>2, <2>3, <2>4, <2>6 DEF NoticesInv
<1>5. QED  BY <1>3, <1>4 DEF Close

\* The fallback claims the summary.
LEMMA ClaimFallbackKeeps == ASSUME NoticesInv, ClaimFallback PROVE NoticesInv'
<1>1. /\ sender = Idle /\ closed /\ summary = "no" /\ summary' = "text"
      /\ UNCHANGED <<cursor, cycle, from, mark, waiting, slot, card, closed, session, blocked, graceOver,
                     chat, faults, told>>
  BY DEF ClaimFallback, SummaryClaimable, Quiet
<1>2. \A m \in 1..Len(chat) : chat[m].kind # "summary"  BY <1>1 DEF NoticesInv, ChatOK
<1>3. SessionOK' /\ ChatOK'  BY <1>1, <1>2 DEF NoticesInv, SessionOK, ChatOK, Finished, session
<1>4. /\ CycleOK' /\ BlocksOK' /\ NoRepeatedBlock' /\ ButtonOK' /\ ToldOK' /\ ~BlockOpen'
  BY <1>1, StillBlocks, ClosedBlocks DEF session
<1>5. sender' \in SenderType => NoticesTypeOK'
  BY <1>1 DEF NoticesInv, NoticesTypeOK, SessionTypes, ChatTypes, ColumnTypes, session
<1>6. CASE sender' = Idle
  <2>1. ButtonJobOK' /\ RowOK' /\ SenderOK'  BY <1>4, <1>6, IdleSender
  <2>2. QED  BY <1>3, <1>4, <1>5, <1>6, <2>1, IdleFields DEF NoticesInv
<1>7. CASE sender' = Job("send", "summary", Row, 0)
  <2>1. PICK row \in RowType : row = Row  BY RowTyped DEF NoticesInv
  <2>2. /\ sender' \in SenderType /\ sender'.at = "send" /\ sender'.job = "summary" /\ sender'.open = 0
    <3>1. "send" \in {"page"} \cup Calls
          /\ "summary" \in {"trade", "open", "waiting", "summary"} \cup Removals
      BY DEF Calls
    <3>2. sender' = Job("send", "summary", row, 0)  BY <1>7, <2>1
    <3>3. QED  BY <3>1, <3>2, JobFields
  <2>3. (\A m \in 1..Len(chat) : chat[m].kind # "summary")'  BY <1>1, <1>2
  <2>4. ButtonJobOK' /\ RowOK' /\ SenderOK'  BY <1>1, <1>4, <2>2, <2>3, PlainSender
  <2>5. QED  BY <1>3, <1>4, <1>5, <2>2, <2>4 DEF NoticesInv
<1>8. QED  BY <1>6, <1>7 DEF ClaimFallback

\* What a call that is given up leaves of the cycle message.
LEMMA UndoneFades ==
  ASSUME NoticesInv, chat' = Undone, UNCHANGED worldVars
  PROVE  /\ Faded /\ RepliesStay /\ WorldOK' /\ (\A n \in 1..Len(chat) : chat'[n].live = chat[n].live)
         /\ BlockOpen' => /\ BlockOpen /\ chat'[cycle'].open = chat[cycle].open
                          /\ ~(sender.at \in Calls /\ BlockJob)
<1>1. cycle # 0 => cycle \in 1..Len(chat)  BY DEF NoticesInv, NoticesTypeOK, ColumnTypes
<1>2. cycle' = cycle  BY DEF worldVars
<1>3. CASE chat' = Left(cycle) /\ cycle # 0
  <2>1. GivenUp(cycle)  BY <1>1, <1>3, LeftFades DEF NoticesInv, NoticesTypeOK
  <2>2. Faded /\ ~BlockOpen' /\ \A n \in 1..Len(chat) : chat'[n].live = chat[n].live
    BY <1>2, <2>1 DEF GivenUp, BlockOpen, OpenButton
  <2>3. RepliesStay  BY <2>2 DEF RepliesStay, NoticesInv, ChatOK
  <2>4. QED  BY <2>2, <2>3, FadedWorld
<1>4. CASE chat' = chat /\ ~(sender.at \in Calls /\ BlockJob /\ cycle # 0)
  <2>1. BlockOpen' => cycle # 0  BY <1>2 DEF BlockOpen
  <2>2. QED  BY <1>4, <2>1, StillWorld
<1>5. QED  BY <1>3, <1>4 DEF Undone, BlockJob

\* A turn that dies leaves its block as claimed.
LEMMA CrashKeeps == ASSUME NoticesInv, Crash PROVE NoticesInv'
<1>1. /\ sender' = Idle /\ chat' = Undone /\ faults' \in {faults, faults + 1}
      /\ UNCHANGED <<session, columns, blocked, graceOver, told>>
  BY DEF Crash
<1>2. UNCHANGED worldVars  BY <1>1 DEF worldVars, session, columns
<1>3. /\ Faded /\ WorldOK'
      /\ BlockOpen' => /\ BlockOpen /\ chat'[cycle'].open = chat[cycle].open
                       /\ ~(sender.at \in Calls /\ BlockJob)
  BY <1>1, <1>2, UndoneFades
<1>4. BlockOpen' => sender.job # "trade"
  <2>1. ASSUME BlockOpen', sender.job = "trade" PROVE FALSE
    <3>1. sender.at \notin Calls /\ sender.at # "record"
      BY <1>3, <2>1 DEF BlockJob, NoticesInv, ButtonJobOK, Sending
    <3>2. sender.at \in {"idle", "serve", "page", "caption"}
      BY <3>1, SenderTypes DEF NoticesInv, NoticesTypeOK, ChatTypes
    <3>3. QED  BY <2>1, <3>2 DEF NoticesInv, SenderOK, StepOK
  <2>2. QED  BY <2>1
<1>5. BlockOpen' => (chat[cycle].open = cursor + 1)'
  BY <1>2, <1>3, <1>4 DEF NoticesInv, ButtonJobOK, worldVars
<1>6. ButtonJobOK' /\ RowOK' /\ SenderOK'  BY <1>1, <1>5, IdleSender
<1>7. SessionTypes' /\ ChatTypes'  BY <1>1, <1>3, BlockedType, IdleFields, SenderStepTypes
<1>8. ColumnTypes'  BY <1>1, <1>3, FadedColumns
<1>9. QED  BY <1>3, <1>6, <1>7, <1>8 DEF NoticesInv, NoticesTypeOK, WorldOK

\* A claimed trade is taken back: its result was not told, and the cycle message has not shown it.
LEMMA ReleaseKeeps == ASSUME NoticesInv, Release PROVE NoticesInv'
<1> USE DEF NoticesInv
<1>1. /\ sender.at = "release" /\ sender' = Idle
      /\ UNCHANGED <<cycle, from, waiting, card, closed, session, blocked, graceOver, chat, faults, told>>
  BY DEF Release, Quiet
<1>2. sender.k \in Nat /\ cursor \in 0..Len(trades) /\ Len(trades) \in Nat
  BY SenderTypes DEF NoticesTypeOK, SessionTypes, ChatTypes, ColumnTypes
<1>3. CASE sender.job = "trade"
  <2>1. ~closed /\ sender.k = cursor /\ sender.row.notified + 1 = cursor /\ told[sender.k] = 0
        /\ from <= sender.k /\ (cycle # 0 => chat[cycle].shown < sender.k)
    BY <1>1, <1>3 DEF RowOK, RowIsOK, InTurn, SenderOK, ClaimOK
  <2>2. cursor' = cursor - 1 /\ UNCHANGED <<mark, slot, summary>>  BY <1>3, <2>1 DEF Release
  <2>3. sender.row.notified \in Nat /\ cursor' \in Nat /\ cursor = cursor' + 1
    BY <1>2, <2>1, <2>2, SenderTypes, RowTypes DEF RowFields, NoticesTypeOK, ChatTypes
  <2>4. NoticesTypeOK'
    <3>1. SessionTypes' /\ ChatTypes'
      BY <1>1, IdleFields DEF NoticesTypeOK, SessionTypes, ChatTypes, session
    <3>2. ColumnTypes'  BY <1>1, <1>2, <2>2, <2>3 DEF NoticesTypeOK, ColumnTypes, session
    <3>3. QED  BY <3>1, <3>2 DEF NoticesTypeOK
  <2>5. SessionOK' /\ ChatOK'
    BY <1>1, <2>1, <2>2 DEF SessionOK, ChatOK, session
  <2>6. CycleOK'
    <3>1. cycle # 0 => chat[cycle].shown \in Nat
      BY MessageFields DEF NoticesTypeOK, ColumnTypes
    <3>2. QED  BY <1>1, <2>1, <2>2, <2>3, <3>1 DEF CycleOK, OneCycle, session
  <2>7. BlocksOK' /\ NoRepeatedBlock'  BY <1>1 DEF BlocksOK, NoRepeatedBlock, OpenButton
  <2>8. (BlockOpen' => BlockOpen) /\ ButtonOK'
    BY <1>1 DEF ButtonOK, BlockOpen, OneCycle, OpenButton, session
  <2>9. ToldOK'
    <3>1. \A j \in 1..MaxResults : told[j] # 0 => j <= cursor'
      <4>1. \A j \in 1..MaxResults : told[j] # 0 => j <= cursor /\ j # cursor  BY <2>1 DEF ToldOK
      <4>2. cursor \in Nat /\ MaxResults \in Nat  BY <1>2, NoticesAssumption
      <4>3. ASSUME NEW j \in 1..MaxResults, told[j] # 0 PROVE j <= cursor'
        <5>1. j <= cursor /\ j # cursor  BY <4>1, <4>3
        <5>2. j \in Nat  BY <4>2
        <5>3. j < cursor  BY <4>2, <5>1, <5>2
        <5>4. QED  BY <2>2, <4>2, <5>2, <5>3
      <4>4. QED  BY <4>3
    <3>2. QED  BY <1>1, <3>1 DEF ToldOK
  <2>10. BlockOpen' => (chat[cycle].open = cursor + 1)'
    BY <1>1, <1>3, <2>3, <2>8 DEF ButtonJobOK
  <2>11. ButtonJobOK' /\ RowOK' /\ SenderOK'  BY <1>1, <2>10, IdleSender
  <2>12. QED  BY <2>4, <2>5, <2>6, <2>7, <2>8, <2>9, <2>11
<1>4. CASE sender.job = "summary"
  <2>1. closed /\ \A m \in 1..Len(chat) : chat[m].kind # "summary"
    BY <1>4 DEF SenderOK, StepOK
  <2>2. summary' = "no" /\ UNCHANGED <<cursor, mark, slot>>  BY <1>4 DEF Release
  <2>3. NoticesTypeOK'
    BY <1>1, <2>2, IdleFields DEF NoticesTypeOK, SessionTypes, ChatTypes, ColumnTypes, session
  <2>4. SessionOK' /\ ChatOK'  BY <1>1, <2>1, <2>2 DEF SessionOK, ChatOK, Finished, session
  <2>5. CycleOK' /\ BlocksOK' /\ NoRepeatedBlock' /\ ButtonOK' /\ ToldOK' /\ ~BlockOpen'
    BY <1>1, <2>1, <2>2, StillBlocks, ClosedBlocks DEF session
  <2>6. ButtonJobOK' /\ RowOK' /\ SenderOK'  BY <1>1, <2>5, IdleSender
  <2>7. QED  BY <2>3, <2>4, <2>5, <2>6
<1>5. CASE sender.job \notin {"trade", "summary"}
  <2>1. UNCHANGED <<cursor, summary>> /\ mark' \in {mark, 0} /\ slot' \in {slot, NoSlot}
        /\ (waiting # 0 => slot' = slot)
    BY <1>5 DEF Release
  <2>2. UNCHANGED worldVars  BY <1>1, <2>1 DEF worldVars, session
  <2>3. NoticesTypeOK'
    <3>1. SessionTypes' /\ ChatTypes'
      BY <1>1, IdleFields DEF NoticesTypeOK, SessionTypes, ChatTypes, session
    <3>2. ColumnTypes'  BY <1>1, <1>2, <2>1 DEF NoticesTypeOK, ColumnTypes, session
    <3>3. QED  BY <3>1, <3>2 DEF NoticesTypeOK
  <2> HIDE DEF NoticesInv
  <2>4. QED  BY <1>1, <1>5, <2>2, <2>3, Rests
<1>6. QED  BY <1>3, <1>4, <1>5

-----------------------------------------------------------------------------
(* The sender's step is done, or goes on *)

\* The row a step leaves behind may still be served.
LEMMA AfterRow ==
  ASSUME NEW job, NEW row \in RowType, RowIsOK(row)',
         job \in {"trade", "open"} \/ row.waiting = 0 \/ row.blocked
  PROVE  RowIsOK(After(job, row))'
<1> DEFINE new == After(job, row)
<1>1. /\ new.settled = row.settled /\ new.open = row.open /\ new.waiting = row.waiting
      /\ new.waits = row.waits /\ new.due = row.due /\ new.blocked = row.blocked
      /\ job \in {"trade", "open"} => new.stale = row.stale
  BY AfterFields
<1> HIDE DEF new
<1>2. RowIsOK(new)'  BY <1>1 DEF RowIsOK
<1>3. QED  BY <1>2 DEF new

\* A step done with its row: the turn goes on or ends.
LEMMA DoneSender ==
  ASSUME NEW job, NEW row \in RowType, sender' = Done(job, row),
         job \in {"trade", "open", "stale"} =>
           /\ RowIsOK(row)' /\ row.notified + (IF job = "trade" THEN 1 ELSE 0) = cursor'
           /\ job = "stale" => row.waiting = 0 \/ row.blocked,
         BlockOpen' => (chat[cycle].open = cursor + 1)'
                       /\ (row.waits => chat'[cycle'].open <= row.settled)
  PROVE  ButtonJobOK' /\ RowOK' /\ SenderOK' /\ sender' \in SenderType
<1>1. CASE job \in {"trade", "open", "stale"}
  <2> DEFINE new == After(job, row)
  <2>1. sender' = Serving(new)  BY <1>1, DoneFields
  <2>2. new \in RowType /\ new.waits = row.waits /\ new.settled = row.settled /\ new.notified = cursor'
    BY <1>1, AfterFields
  <2>3. RowIsOK(new)'  BY <1>1, AfterRow
  <2> HIDE DEF new
  <2>4. QED  BY <2>1, <2>2, <2>3, ServeSender, ServingFields
<1>2. CASE job \notin {"trade", "open", "stale"}
  <2>1. sender' = Idle  BY <1>2, DoneFields
  <2>2. QED  BY <2>1, IdleSender, IdleFields
<1>3. QED  BY <1>1, <1>2

\* The sender goes on with its job.
Onward(at, row) ==
  /\ sender' \in SenderType /\ sender'.at = at /\ sender'.row = row
  /\ sender'.job = sender.job /\ sender'.k = sender.k /\ sender'.target = sender.target
  /\ sender'.slot = sender.slot /\ sender'.first = sender.first /\ sender'.open = sender.open

\* A step of a job that keeps its block.
LEMMA OnwardOf ==
  ASSUME NoticesInv, NEW at \in Calls, NEW row \in RowType,
         \/ sender' = [sender EXCEPT !.at = at] /\ row = sender.row
         \/ sender' = [sender EXCEPT !.at = at, !.row = row]
  PROVE  Onward(at, row)
<1>1. sender \in SenderType  BY DEF NoticesInv, NoticesTypeOK, ChatTypes
<1>2. QED  BY <1>1 DEF Onward, SenderType

\* The steps of a removal, before a send or as its own job.
LEMMA GoesOn ==
  ASSUME NoticesInv, Faded, Removing, sender.job \in {"trade"} \cup Removals,
         NEW at \in {"delete", "clear", "send", "release"}, NEW row \in RowType, Onward(at, row),
         RowIsOK(row)', row.notified = sender.row.notified,
         at \in {"delete", "clear"} => row.waiting = sender.row.waiting,
         at \in {"send", "release"} => sender.job = "trade",
         at = "delete" => chat'[sender.target].handed # "yes",
         at = "clear" => ~chat'[sender.target].live \/ chat'[sender.target].stray,
         row.waits = sender.row.waits, row.settled = sender.row.settled,
         BlockOpen' => BlockOpen /\ chat'[cycle'].open = chat[cycle].open,
         UNCHANGED <<trades, cursor, cycle, from, told>>
  PROVE  ButtonJobOK' /\ RowOK' /\ SenderOK'
<1> USE DEF NoticesInv, Onward
<1>1. BlockOpen => sender.job # "trade"  BY DEF ButtonJobOK, BlockJob, Sending
<1>2. InTurn  BY DEF InTurn, Removing, Removals
<1>3. ButtonJobOK'  BY <1>1, <1>2 DEF ButtonJobOK, BlockJob, Removals, InTurn
<1>4. RowOK'  BY DEF RowOK, RowIsOK
<1>5. StepOK'  BY DEF SenderOK, StepOK, Removing, Removals, Calls
<1>6. cycle # 0 => chat'[cycle].shown = chat[cycle].shown  BY DEF NoticesTypeOK, ColumnTypes, Faded
<1>7. ClaimOK'  BY <1>6 DEF SenderOK, ClaimOK, Removing, Removals
<1>8. BlockOK'
  BY DEF SenderOK, BlockOK, BlockJob, Sending, Removing, Removals, OneCycle, Faded
<1>9. TargetOK' /\ RecordOK'  BY DEF SenderOK, TargetOK, RecordOK, Removing
<1>10. QED  BY <1>3, <1>4, <1>5, <1>7, <1>8, <1>9 DEF SenderOK

\* What stands while the waiting message is removed.
LEMMA RemovalFacts ==
  ASSUME NoticesInv, Removing
  PROVE  /\ sender.row \in RowType /\ RowIsOK(sender.row) /\ sender.job \in {"trade"} \cup Removals
         /\ sender.target = sender.row.waiting /\ sender.target \in 1..Len(chat)
         /\ sender.job \in {"trade", "stale"} =>
              sender.row.notified + (IF sender.job = "trade" THEN 1 ELSE 0) = cursor
         /\ waiting \in {0, sender.target}
         /\ BlockOpen => /\ sender.job = "stale" /\ chat[cycle].open = cursor + 1
                         /\ sender.row.waits => chat[cycle].open <= sender.row.settled
<1> USE DEF NoticesInv
<1>1. sender.row \in RowType /\ sender.target \in Nat
      /\ sender.job \in {"none", "trade", "open", "waiting", "summary"} \cup Removals
  BY SenderTypes DEF NoticesTypeOK, ChatTypes
<1>2. sender.job \in {"trade"} \cup Removals
  BY <1>1 DEF Removing, SenderOK, StepOK, ClaimOK, Calls
<1>3. InTurn  BY <1>2 DEF InTurn, Removing, Removals
<1>4. RowIsOK(sender.row)  BY <1>3 DEF RowOK
<1>5. sender.target = sender.row.waiting /\ sender.target \in 1..Len(chat)
  BY <1>1, <1>4 DEF SenderOK, TargetOK, RowIsOK, NoticesTypeOK, ChatTypes
<1>6. sender.job \in {"trade", "stale"} =>
        sender.row.notified + (IF sender.job = "trade" THEN 1 ELSE 0) = cursor
  BY <1>1, RowTypes DEF SenderOK, StepOK, ClaimOK, RowFields
<1>7. waiting \in {0, sender.target}  BY <1>4, <1>5 DEF RowIsOK
<1>8. BlockOpen => /\ sender.job = "stale" /\ chat[cycle].open = cursor + 1
                   /\ sender.row.waits => chat[cycle].open <= sender.row.settled
  BY <1>2, <1>3 DEF ButtonJobOK, BlockJob, Sending, Removals
<1>9. QED  BY <1>1, <1>2, <1>4, <1>5, <1>6, <1>7, <1>8

\* What a step of a removal comes to, when the columns stay.
LEMMA RemovalStep ==
  ASSUME NoticesInv, Faded, RepliesStay, sender' \in SenderType, blocked' \in BOOLEAN,
         faults' \in {faults, faults + 1}, UNCHANGED <<session, columns, graceOver, told>>,
         ButtonJobOK' /\ RowOK' /\ SenderOK'
  PROVE  NoticesInv'
<1>1. UNCHANGED worldVars  BY DEF worldVars, session, columns
<1>2. WorldOK'  BY <1>1, FadedWorld
<1>3. SessionTypes' /\ ChatTypes'  BY SenderStepTypes
<1>4. ColumnTypes'  BY FadedColumns
<1>5. QED  BY <1>2, <1>3, <1>4 DEF NoticesInv, WorldOK, NoticesTypeOK

\* The messages a call of the removal leaves.
LEMMA RemovalChat ==
  ASSUME NoticesInv, Removing, UNCHANGED worldVars,
         \/ chat' = chat \/ chat' = Left(sender.target)
         \/ chat' = Gone(sender.target) /\ sender.at = "delete"
  PROVE  /\ Faded /\ RepliesStay
         /\ BlockOpen' => BlockOpen /\ chat'[cycle'].open = chat[cycle].open
         /\ chat' = Left(sender.target) => chat'[sender.target].stray
         /\ chat' = Gone(sender.target) => ~chat'[sender.target].live
<1>1. ChatTypes /\ sender.target \in 1..Len(chat)  BY RemovalFacts DEF NoticesInv, NoticesTypeOK
<1>2. CASE chat' = chat
  <2>1. chat' = Left(sender.target) => chat'[sender.target].stray  BY <1>1, LeftFades DEF GivenUp
  <2>2. chat' = Gone(sender.target) => ~chat'[sender.target].live  BY <1>1, GoneFades DEF Went
  <2>3. QED  BY <1>2, <2>1, <2>2, StillWorld
<1>3. CASE chat' = Left(sender.target)
  <2>1. GivenUp(sender.target)  BY <1>1, <1>3, LeftFades
  <2>2. Faded /\ RepliesStay  BY <2>1 DEF GivenUp, RepliesStay, NoticesInv, ChatOK
  <2>3. chat' = Gone(sender.target) => ~chat'[sender.target].live  BY <1>1, GoneFades DEF Went
  <2>4. chat'[sender.target].stray  BY <2>1 DEF GivenUp
  <2>5. QED  BY <2>2, <2>3, <2>4, FadedWorld
<1>4. CASE chat' = Gone(sender.target) /\ sender.at = "delete"
  <2>1. Went(sender.target)  BY <1>1, <1>4, GoneFades
  <2>2. chat[sender.target].handed # "yes"  BY <1>4 DEF NoticesInv, SenderOK, TargetOK
  <2>3. Faded /\ RepliesStay  BY <2>1, <2>2 DEF Went, RepliesStay, NoticesInv, ChatOK
  <2>4. chat' = Left(sender.target) => chat'[sender.target].stray  BY <1>1, LeftFades DEF GivenUp
  <2>5. QED  BY <2>1, <2>3, <2>4, FadedWorld DEF Went
<1>5. QED  BY <1>2, <1>3, <1>4

-----------------------------------------------------------------------------
(* The removal of the waiting message *)

\* With the message taken away the turn goes on.
LEMMA RemovedSender ==
  ASSUME NoticesInv, Faded, Removing, NEW row \in RowType, sender' = AfterRemoval(row), RowIsOK(row)',
         row.waiting = 0, row.notified = sender.row.notified, row.settled = sender.row.settled,
         row.waits = sender.row.waits,
         BlockOpen' => BlockOpen /\ chat'[cycle'].open = chat[cycle].open,
         UNCHANGED <<trades, cursor, cycle, from, told>>
  PROVE  ButtonJobOK' /\ RowOK' /\ SenderOK' /\ sender' \in SenderType
<1>1. /\ sender.job \in {"trade"} \cup Removals
      /\ sender.job \in {"trade", "stale"} =>
           sender.row.notified + (IF sender.job = "trade" THEN 1 ELSE 0) = cursor
      /\ BlockOpen => /\ chat[cycle].open = cursor + 1
                      /\ sender.row.waits => chat[cycle].open <= sender.row.settled
  BY RemovalFacts
<1>2. CASE sender' = Done(sender.job, row)
  <2>1. PICK job : job = sender.job  OBVIOUS
  <2>2. job \in {"trade", "stale"} \/ job \notin {"trade", "open", "stale"}  BY <1>1, <2>1 DEF Removals
  <2>3. sender' = Done(job, row)  BY <1>2, <2>1
  <2>4. BlockOpen' => (chat[cycle].open = cursor + 1)' /\ (row.waits => chat'[cycle'].open <= row.settled)
    BY <1>1
  <2>5. job \in {"trade", "open", "stale"} =>
           /\ RowIsOK(row)' /\ row.notified + (IF job = "trade" THEN 1 ELSE 0) = cursor'
           /\ job = "stale" => row.waiting = 0 \/ row.blocked
    BY <1>1, <2>1, <2>2
  <2>6. QED  BY <2>3, <2>4, <2>5, DoneSender
<1>3. CASE sender.job \notin Removals /\ sender' = [sender EXCEPT !.at = "send", !.row = row]
  <2>1. "send" \in Calls  BY DEF Calls
  <2>2. Onward("send", row)  BY <1>3, <2>1, OnwardOf
  <2>3. sender.job = "trade"  BY <1>1, <1>3
  <2>4. ButtonJobOK' /\ RowOK' /\ SenderOK'  BY <2>2, <2>3, GoesOn
  <2>5. QED  BY <2>2, <2>4 DEF Onward
<1>4. QED  BY <1>2, <1>3 DEF AfterRemoval

\* Before a delete the id is read again.
LEMMA ReReadKeeps == ASSUME NoticesInv, ReRead PROVE NoticesInv'
<1>1. /\ sender.at = "reread" /\ Removing
      /\ UNCHANGED <<columns, session, blocked, graceOver, faults, told>>
  BY DEF ReRead, Removing
<1>2. UNCHANGED worldVars  BY <1>1 DEF worldVars, session, columns
<1>3. /\ sender.row \in RowType /\ RowIsOK(sender.row) /\ sender.job \in {"trade"} \cup Removals
      /\ sender.target = sender.row.waiting /\ sender.target \in 1..Len(chat)
      /\ sender.job \in {"trade", "stale"} =>
           sender.row.notified + (IF sender.job = "trade" THEN 1 ELSE 0) = cursor
      /\ waiting \in {0, sender.target}
      /\ BlockOpen => /\ sender.job = "stale" /\ chat[cycle].open = cursor + 1
                      /\ sender.row.waits => chat[cycle].open <= sender.row.settled
  BY <1>1, RemovalFacts
<1>4. chat' = chat \/ chat' = Left(sender.target)  BY DEF ReRead
<1>5. /\ Faded /\ RepliesStay
      /\ BlockOpen' => BlockOpen /\ chat'[cycle'].open = chat[cycle].open
      /\ chat' = Left(sender.target) => chat'[sender.target].stray
  BY <1>1, <1>2, <1>4, RemovalChat
<1>6. UNCHANGED <<trades, cursor, cycle, from, told, waiting, intent, closed>>  BY <1>2 DEF worldVars
<1>7. Len(chat') = Len(chat)  BY <1>5 DEF Faded
<1>8. PICK row \in RowType : row = sender.row  BY <1>3
<1>9. RowIsOK(row)'  BY <1>3, <1>6, <1>7, <1>8 DEF RowIsOK
<1>10. CASE sender.row.blocked /\ sender' = [sender EXCEPT !.at = "clear"] /\ chat' = Left(sender.target)
  <2>1. "clear" \in Calls  BY DEF Calls
  <2>2. Onward("clear", row)  BY <1>8, <1>10, <2>1, OnwardOf
  <2>3. chat'[sender.target].stray  BY <1>5, <1>10
  <2>4. ButtonJobOK' /\ RowOK' /\ SenderOK'
    BY <1>1, <1>3, <1>5, <1>6, <1>8, <1>9, <2>2, <2>3, GoesOn
  <2>5. QED  BY <1>1, <1>5, <2>2, <2>4, BlockedType, RemovalStep DEF Onward
<1>11. CASE sender.row.blocked /\ sender' = Done(sender.job, row)
  <2>1. PICK job : job = sender.job  OBVIOUS
  <2>2. job \in {"trade", "stale"} \/ job \notin {"trade", "open", "stale"}  BY <1>3, <2>1 DEF Removals
  <2>3. sender' = Done(job, row) /\ row.blocked  BY <1>8, <1>11, <2>1
  <2>4. BlockOpen' => (chat[cycle].open = cursor + 1)' /\ (row.waits => chat'[cycle'].open <= row.settled)
    BY <1>3, <1>5, <1>6, <1>8
  <2>5. job \in {"trade", "open", "stale"} =>
           /\ RowIsOK(row)' /\ row.notified + (IF job = "trade" THEN 1 ELSE 0) = cursor'
           /\ job = "stale" => row.waiting = 0 \/ row.blocked
    BY <1>3, <1>6, <1>8, <1>9, <2>1, <2>2, <2>3
  <2>6. ButtonJobOK' /\ RowOK' /\ SenderOK' /\ sender' \in SenderType  BY <2>3, <2>4, <2>5, DoneSender
  <2>7. QED  BY <1>1, <1>5, <2>6, BlockedType, RemovalStep
<1>12. CASE ~sender.row.blocked /\ TakenOver
            /\ sender' = AfterRemoval([sender.row EXCEPT !.waiting = 0, !.status = status])
  <2>1. PICK new \in RowType :
          /\ new = [row EXCEPT !.waiting = 0, !.status = status] /\ new.waiting = 0
          /\ new.notified = row.notified /\ new.settled = row.settled
          /\ new.waits = row.waits /\ new.open = row.open /\ new.due = row.due
    <3> DEFINE gone == [row EXCEPT !.waiting = 0, !.status = status]
    <3>1. /\ gone \in RowType /\ gone.waiting = 0 /\ gone.notified = row.notified
          /\ gone.settled = row.settled /\ gone.waits = row.waits /\ gone.open = row.open
          /\ gone.due = row.due
      BY <1>8 DEF RowType, NoticesInv, NoticesTypeOK, SessionTypes
    <3> HIDE DEF gone
    <3>2. PICK x \in RowType : x = gone  BY <3>1
    <3>3. QED  BY <3>1, <3>2 DEF gone
  <2>2. sender' = AfterRemoval(new)  BY <1>8, <1>12, <2>1
  <2>3. waiting = 0  BY <1>3, <1>12 DEF TakenOver
  <2>4. Len(chat) \in Nat  BY DEF NoticesInv, NoticesTypeOK, ChatTypes
  <2>5. RowIsOK(new)'  BY <1>6, <1>7, <1>9, <2>1, <2>3, <2>4 DEF RowIsOK
  <2>6. ButtonJobOK' /\ RowOK' /\ SenderOK' /\ sender' \in SenderType
    BY <1>1, <1>5, <1>6, <1>8, <2>1, <2>2, <2>5, RemovedSender
  <2>7. QED  BY <1>1, <1>5, <2>6, BlockedType, RemovalStep
<1>13. CASE ~TakenOver /\ sender' = [sender EXCEPT !.at = "delete"] /\ chat' = chat
  <2>1. "delete" \in Calls  BY DEF Calls
  <2>2. Onward("delete", row)  BY <1>8, <1>13, <2>1, OnwardOf
  <2>3. chat'[sender.target].handed # "yes"  BY <1>3, <1>13 DEF TakenOver, NoticesInv, ChatOK
  <2>4. ButtonJobOK' /\ RowOK' /\ SenderOK'
    BY <1>1, <1>3, <1>5, <1>6, <1>8, <1>9, <2>2, <2>3, GoesOn
  <2>5. QED  BY <1>1, <1>5, <2>2, <2>4, BlockedType, RemovalStep DEF Onward
<1>14. QED  BY <1>8, <1>10, <1>11, <1>12, <1>13 DEF ReRead

\* The delete of the waiting message, whatever its outcome.
LEMMA DeleteKeeps == ASSUME NoticesInv, Delete PROVE NoticesInv'
<1>1. /\ sender.at = "delete" /\ Removing /\ faults' \in {faults, faults + 1} /\ blocked' \in {blocked, TRUE}
      /\ UNCHANGED <<columns, session, graceOver, told>>
  BY DEF Delete, Removing
<1>2. UNCHANGED worldVars  BY <1>1 DEF worldVars, session, columns
<1>3. /\ sender.row \in RowType /\ RowIsOK(sender.row) /\ sender.job \in {"trade"} \cup Removals
      /\ sender.target = sender.row.waiting
      /\ sender.job \in {"trade", "stale"} =>
           sender.row.notified + (IF sender.job = "trade" THEN 1 ELSE 0) = cursor
      /\ BlockOpen => /\ sender.job = "stale" /\ chat[cycle].open = cursor + 1
                      /\ sender.row.waits => chat[cycle].open <= sender.row.settled
  BY <1>1, RemovalFacts
<1>4. chat' = chat \/ chat' = Left(sender.target) \/ chat' = Gone(sender.target)  BY DEF Delete
<1>5. /\ Faded /\ RepliesStay
      /\ BlockOpen' => BlockOpen /\ chat'[cycle'].open = chat[cycle].open
      /\ chat' = Left(sender.target) => chat'[sender.target].stray
      /\ chat' = Gone(sender.target) => ~chat'[sender.target].live
  BY <1>1, <1>2, <1>4, RemovalChat
<1>6. UNCHANGED <<trades, cursor, cycle, from, told, waiting, intent, closed>>  BY <1>2 DEF worldVars
<1>7. Len(chat') = Len(chat) /\ blocked' \in BOOLEAN  BY <1>1, <1>5, BlockedType DEF Faded
<1>8. PICK row \in RowType : row = sender.row  BY <1>3
<1> DEFINE barred == [row EXCEPT !.blocked = TRUE]
<1>9. /\ barred \in RowType /\ barred.blocked /\ barred.waiting = row.waiting
      /\ barred.notified = row.notified /\ barred.settled = row.settled /\ barred.waits = row.waits
      /\ barred.open = row.open /\ barred.due = row.due /\ barred.stale = row.stale
  BY <1>8 DEF RowType
<1>10. sender' = Done(sender.job, [sender.row EXCEPT !.blocked = TRUE]) => sender' = Done(sender.job, barred)
  BY <1>8
<1>11. sender' = [sender EXCEPT !.at = "clear", !.row.blocked = TRUE]
         => sender' = [sender EXCEPT !.at = "clear", !.row = barred]
  BY <1>8
<1> HIDE DEF barred
<1>12. RowIsOK(row)' /\ RowIsOK(barred)'  BY <1>3, <1>6, <1>7, <1>8, <1>9 DEF RowIsOK
<1>13. ASSUME NEW new \in {row, barred},
              \/ sender' = [sender EXCEPT !.at = "clear", !.row = new]
              \/ sender' = [sender EXCEPT !.at = "clear"] /\ new = row,
              chat' \in {Gone(sender.target), Left(sender.target)}
       PROVE  NoticesInv'
  <2>1. "clear" \in Calls  BY DEF Calls
  <2>2. new \in RowType /\ RowIsOK(new)' /\ new.waiting = row.waiting /\ new.notified = row.notified
        /\ new.waits = row.waits /\ new.settled = row.settled
    BY <1>8, <1>9, <1>12, <1>13
  <2>3. Onward("clear", new)  BY <1>8, <1>13, <2>1, <2>2, OnwardOf
  <2>4. ~chat'[sender.target].live \/ chat'[sender.target].stray  BY <1>5, <1>13
  <2>5. ButtonJobOK' /\ RowOK' /\ SenderOK'
    BY <1>1, <1>3, <1>5, <1>6, <1>8, <2>2, <2>3, <2>4, GoesOn
  <2>6. QED  BY <1>1, <1>5, <1>7, <2>3, <2>5, RemovalStep DEF Onward
<1>14. CASE sender' = PutBack
  <2>1. CASE sender.job \in Removals
    <3>1. sender' = Idle  BY <1>14, <2>1 DEF PutBack
    <3>2. BlockOpen' => (chat[cycle].open = cursor + 1)'  BY <1>3, <1>5, <1>6
    <3>3. ButtonJobOK' /\ RowOK' /\ SenderOK'  BY <3>1, <3>2, IdleSender
    <3>4. QED  BY <1>1, <1>5, <1>7, <3>1, <3>3, IdleFields, RemovalStep
  <2>2. CASE sender.job \notin Removals
    <3>1. "release" \in Calls /\ sender.job = "trade"  BY <1>3, <2>2 DEF Calls
    <3>2. Onward("release", row)  BY <1>8, <1>14, <2>2, <3>1, OnwardOf DEF PutBack
    <3>3. ButtonJobOK' /\ RowOK' /\ SenderOK'
      BY <1>1, <1>3, <1>5, <1>6, <1>8, <1>12, <3>1, <3>2, GoesOn
    <3>4. QED  BY <1>1, <1>5, <1>7, <3>2, <3>3, RemovalStep DEF Onward
  <2>3. QED  BY <2>1, <2>2
<1>15. CASE sender' = Done(sender.job, barred)
  <2>1. PICK job : job = sender.job  OBVIOUS
  <2>2. job \in {"trade", "stale"} \/ job \notin {"trade", "open", "stale"}  BY <1>3, <2>1 DEF Removals
  <2>3. sender' = Done(job, barred)  BY <1>15, <2>1
  <2>4. BlockOpen' => (chat[cycle].open = cursor + 1)'
                      /\ (barred.waits => chat'[cycle'].open <= barred.settled)
    BY <1>3, <1>5, <1>6, <1>8, <1>9
  <2>5. job \in {"trade", "open", "stale"} =>
           /\ RowIsOK(barred)' /\ barred.notified + (IF job = "trade" THEN 1 ELSE 0) = cursor'
           /\ job = "stale" => barred.waiting = 0 \/ barred.blocked
    BY <1>3, <1>6, <1>8, <1>9, <1>12, <2>1, <2>2
  <2>6. ButtonJobOK' /\ RowOK' /\ SenderOK' /\ sender' \in SenderType
    BY <1>9, <2>3, <2>4, <2>5, DoneSender
  <2>7. QED  BY <1>1, <1>5, <1>7, <2>6, RemovalStep
<1>16. QED
  <2>1. \/ sender' = PutBack \/ sender' = Done(sender.job, [sender.row EXCEPT !.blocked = TRUE])
        \/ chat' \in {Gone(sender.target), Left(sender.target)}
           /\ (sender' = [sender EXCEPT !.at = "clear"]
               \/ sender' = [sender EXCEPT !.at = "clear", !.row.blocked = TRUE])
    BY DEF Delete
  <2>2. QED  BY <1>10, <1>11, <1>13, <1>14, <1>15, <2>1

\* The deleted waiting message is cleared by its CAS.
LEMMA ClearKeeps == ASSUME NoticesInv, Clear PROVE NoticesInv'
<1>1. /\ sender.at = "clear" /\ Removing /\ HandedOver(sender.target)
      /\ UNCHANGED <<cursor, cycle, from, mark, card, closed, summary, session, blocked, graceOver, chat,
                     faults, told>>
  BY DEF Clear, Removing, Quiet
<1>2. /\ sender.row \in RowType /\ RowIsOK(sender.row) /\ sender.target \in 1..Len(chat)
      /\ waiting \in {0, sender.target}
  BY <1>1, RemovalFacts
<1>3. waiting' = 0 /\ slot' \in {slot, NoSlot}  BY <1>1, <1>2 DEF HandedOver
<1>4. ~chat[sender.target].live \/ chat[sender.target].stray
  BY <1>1 DEF NoticesInv, SenderOK, TargetOK
<1>5. Faded  BY <1>1, SameFades DEF NoticesInv, NoticesTypeOK
<1>6. PICK row \in RowType : row = sender.row  BY <1>2
<1> DEFINE new == [row EXCEPT !.waiting = 0, !.due = row.waits]
<1>7. /\ new \in RowType /\ new.waiting = 0 /\ new.notified = row.notified /\ new.settled = row.settled
      /\ new.waits = row.waits /\ new.open = row.open /\ new.due = row.waits
  BY <1>6 DEF RowType
<1>8. sender' = AfterRemoval(new)  BY <1>6 DEF Clear
<1> HIDE DEF new
<1>9. Len(chat) \in Nat  BY DEF NoticesInv, NoticesTypeOK, ChatTypes
<1>10. RowIsOK(new)'  BY <1>1, <1>2, <1>3, <1>6, <1>7, <1>9 DEF RowIsOK, session
<1>11. UNCHANGED <<trades, cursor, cycle, from, told>>  BY <1>1 DEF session
<1>12. BlockOpen' => BlockOpen /\ chat'[cycle'].open = chat[cycle].open
  BY <1>1 DEF BlockOpen, OpenButton
<1>13. ButtonJobOK' /\ RowOK' /\ SenderOK' /\ sender' \in SenderType
  BY <1>1, <1>5, <1>6, <1>7, <1>8, <1>10, <1>11, <1>12, RemovedSender
<1>14. NoticesTypeOK'
  <2>1. SessionTypes' /\ ChatTypes'
    BY <1>1, <1>13 DEF NoticesInv, NoticesTypeOK, SessionTypes, ChatTypes, session
  <2>2. ColumnTypes'  BY <1>1, <1>3, <1>9 DEF NoticesInv, NoticesTypeOK, ColumnTypes, session
  <2>3. QED  BY <2>1, <2>2 DEF NoticesTypeOK
<1>15. SessionOK' /\ ToldOK'
  BY <1>1, <1>3 DEF NoticesInv, SessionOK, ToldOK, Finished, session
<1>16. ChatOK'
  <2>1. \A m \in 1..Len(chat) :
          chat[m].kind = "waiting" /\ chat[m].known /\ chat[m].live /\ ~chat[m].stray
            /\ chat[m].handed = "no" => FALSE
    BY <1>2, <1>4 DEF NoticesInv, ChatOK
  <2>2. QED  BY <1>1, <1>3, <2>1 DEF NoticesInv, ChatOK
<1>17. CycleOK' /\ BlocksOK' /\ NoRepeatedBlock'
  BY <1>1 DEF NoticesInv, CycleOK, BlocksOK, NoRepeatedBlock, OneCycle, OpenButton, session
<1>18. ButtonOK'
  BY <1>1, <1>3 DEF NoticesInv, ButtonOK, BlockOpen, OneCycle, OpenButton, session
<1>19. QED  BY <1>13, <1>14, <1>15, <1>16, <1>17, <1>18 DEF NoticesInv

-----------------------------------------------------------------------------
(* The claims *)

\* Where the message of block k begins, and what the others show.
LEMMA BlockBegins ==
  ASSUME NoticesInv, NEW k \in Nat \ {0}, k = cursor + 1, NEW first \in Begins(k)
  PROVE  /\ first \in 1..k /\ OneCycle(first, k)
         /\ ShowsCycle(k) /\ ~Splits(k, first) => cycle # 0 /\ first = from
         /\ ~(ShowsCycle(k) /\ ~Splits(k, first)) =>
              \A m \in 1..Len(chat) :
                chat[m].kind = "cycle" /\ chat[m].known /\ chat[m].live => chat[m].shown < first
         /\ BlockOpen /\ chat[cycle].open = k => ShowsCycle(k)
<1>1. cursor \in Nat /\ from \in Nat /\ (cycle = 0 <=> from = 0) /\ cycle \in 0..Len(chat)
      /\ Len(chat) \in Nat
  BY DEF NoticesInv, NoticesTypeOK, ColumnTypes, ChatTypes
<1>2. cycle # 0 => from \in 1..k /\ chat[cycle].shown <= cursor /\ OneCycle(from, chat[cycle].shown)
  BY <1>1 DEF NoticesInv, CycleOK
<1>3. CycleStart(k) \in 1..k /\ OneCycle(CycleStart(k), k)
      /\ (CycleStart(k) # 1 => trades[CycleStart(k) - 1] = "won")
  BY CycleStartGives
<1>4. cycle # 0 => /\ CycleStart(from) = CycleStart(k) <=> OneCycle(from, k)
                   /\ CycleStart(from) # CycleStart(k) => CycleStart(k) > from
  <2>1. ASSUME cycle # 0 PROVE from \in Nat \ {0} /\ from <= k  BY <1>2, <2>1
  <2>2. QED  BY <2>1, SameStart
<1>5. ShowsCycle(k) <=> cycle # 0 /\ OneCycle(from, k)  BY <1>2, <1>4 DEF ShowsCycle
<1>6. first \in {from, CycleStart(k), k} /\ (first = from /\ first # k => ShowsCycle(k) \/ from = CycleStart(k))
      /\ (ShowsCycle(k) => first \in {from, k}) /\ (~ShowsCycle(k) => first \in {CycleStart(k), k})
  BY DEF Begins
<1>7. OneCycle(k, k)  BY DEF OneCycle
<1>8. first \in 1..k /\ OneCycle(first, k)
  <2>1. CASE ShowsCycle(k)  BY <1>2, <1>5, <1>6, <1>7, <2>1
  <2>2. CASE ~ShowsCycle(k)  BY <1>3, <1>6, <1>7, <2>2
  <2>3. QED  BY <2>1, <2>2
<1>9. ShowsCycle(k) /\ ~Splits(k, first) => cycle # 0 /\ first = from  BY <1>5 DEF Splits
<1>10. \A m \in 1..Len(chat) : chat[m].kind = "cycle" /\ chat[m].known /\ m # cycle =>
         cycle # 0 /\ (chat[m].live => chat[m].shown < from)
  BY <1>1 DEF NoticesInv, BlocksOK
<1>11. \A m \in 1..Len(chat) : chat[m].shown \in Nat  BY MessageFields DEF NoticesInv, NoticesTypeOK
<1>12. ASSUME ShowsCycle(k), Splits(k, first), NEW m \in 1..Len(chat), chat[m].kind = "cycle",
              chat[m].known, chat[m].live
       PROVE  chat[m].shown < first
  <2>1. first = k  BY <1>6, <1>12 DEF Splits
  <2>2. chat[m].shown \in Nat  BY <1>11
  <2>3. cycle # 0 /\ from \in 1..k /\ chat[cycle].shown <= cursor  BY <1>2, <1>5, <1>12
  <2>4. CASE m = cycle  BY <1>1, <2>1, <2>2, <2>3, <2>4
  <2>5. CASE m # cycle
    <3>1. chat[m].shown < from  BY <1>10, <1>12, <2>5
    <3>2. QED  BY <1>1, <2>1, <2>2, <2>3, <3>1
  <2>6. QED  BY <2>4, <2>5
<1>13. ASSUME ~ShowsCycle(k), NEW m \in 1..Len(chat), chat[m].kind = "cycle", chat[m].known, chat[m].live
       PROVE  chat[m].shown < first
  <2>1. cycle # 0  BY <1>1, <1>10, <1>13
  <2>2. CycleStart(k) > from  BY <1>4, <1>5, <1>13, <2>1
  <2>3. chat[m].shown \in Nat /\ from \in 1..k  BY <1>2, <1>11, <2>1
  <2>4. first >= CycleStart(k)  BY <1>3, <1>6, <1>13
  <2>5. CASE m = cycle
    <3>1. CycleStart(k) # 1 /\ CycleStart(k) - 1 >= from  BY <1>3, <2>2, <2>3
    <3>2. OneCycle(from, chat[m].shown)  BY <1>2, <2>1, <2>5
    <3>3. ~(CycleStart(k) - 1 \in from..(chat[m].shown - 1))  BY <1>3, <3>1, <3>2 DEF OneCycle
    <3>4. chat[m].shown < CycleStart(k)  BY <1>3, <2>3, <3>1, <3>3
    <3>5. QED  BY <1>3, <1>8, <2>3, <2>4, <3>4
  <2>6. CASE m # cycle
    <3>1. chat[m].shown < from  BY <1>10, <1>13, <2>6
    <3>2. QED  BY <1>3, <1>8, <2>2, <2>3, <2>4, <3>1
  <2>7. QED  BY <2>5, <2>6
<1>14. BlockOpen /\ chat[cycle].open = k => ShowsCycle(k)
  BY <1>5 DEF NoticesInv, ButtonOK, BlockOpen
<1>15. QED  BY <1>8, <1>9, <1>12, <1>13, <1>14

\* deliver() of a claimed block to a user who can be reached.
LEMMA NoticeFields ==
  ASSUME NoticesTypeOK, NEW job \in {"trade", "open"}, NEW k \in Nat, NEW first \in Nat,
         NEW row \in RowType, ~row.blocked, sender' = Notice(job, k, first, row)
  PROVE  /\ sender' \in SenderType /\ sender'.job = job /\ sender'.row = row /\ sender'.k = k
         /\ sender'.first = first /\ sender'.open \in {0, k} /\ (job = "trade" => sender'.open = 0)
         /\ ShowsCycle(k) /\ ~Splits(k, first) => sender'.at = "edit" /\ sender'.target = cycle
         /\ ~(ShowsCycle(k) /\ ~Splits(k, first)) =>
              \/ sender'.at = "reread" /\ sender'.target = row.waiting /\ row.waiting # 0
              \/ sender'.at = "send" /\ row.waiting = 0
<1> DEFINE call == Job("edit", job, row, cycle)
           button == IF job = "open" /\ row.status = "active" THEN k ELSE 0
           s == [call EXCEPT !.k = k, !.first = first, !.open = button]
<1>1. call \in SenderType /\ call.at = "edit" /\ call.job = job /\ call.row = row /\ call.target = cycle
  <2>1. "edit" \in {"page"} \cup Calls /\ job \in {"trade", "open", "waiting", "summary"} \cup Removals
    BY DEF Calls
  <2>2. cycle \in Nat  BY DEF NoticesTypeOK, ColumnTypes, ChatTypes
  <2>3. QED  BY <2>1, <2>2, JobFields
<1>2. button \in Nat /\ button \in {0, k} /\ (job = "trade" => button = 0)  OBVIOUS
<1>3. sender' = IF ShowsCycle(k) /\ ~Splits(k, first) THEN s ELSE BeforeSend(s)
  BY DEF Notice
<1> HIDE DEF call, button
<1>4. /\ s \in SenderType /\ s.at = "edit" /\ s.job = job /\ s.row = row /\ s.target = cycle
      /\ s.k = k /\ s.first = first /\ s.open = button
  BY <1>1, <1>2 DEF SenderType
<1> HIDE DEF s
<1>5. row.waiting \in Nat  BY RowTypes DEF RowFields
<1>6. CASE ShowsCycle(k) /\ ~Splits(k, first)  BY <1>2, <1>3, <1>4, <1>6
<1>7. CASE ~(ShowsCycle(k) /\ ~Splits(k, first))
  <2>1. sender' = BeforeSend(s)  BY <1>3, <1>7
  <2>2. CASE row.waiting # 0
    <3>1. sender' = [s EXCEPT !.at = "reread", !.target = row.waiting]  BY <1>4, <2>1, <2>2 DEF BeforeSend
    <3>2. QED  BY <1>2, <1>4, <1>5, <1>7, <2>2, <3>1 DEF SenderType, Calls
  <2>3. CASE row.waiting = 0
    <3>1. sender' = [s EXCEPT !.at = "send"]  BY <1>4, <2>1, <2>3 DEF BeforeSend
    <3>2. QED  BY <1>2, <1>4, <1>7, <2>3, <3>1 DEF SenderType, Calls
  <2>4. QED  BY <2>2, <2>3
<1>8. QED  BY <1>6, <1>7

\* The sender's step after a claim of block k, and the message the claim leaves behind.
Claims(job, k, first, row) ==
  /\ sender.at = "serve" /\ sender.row = row /\ k = cursor + 1 /\ first \in Begins(k)
  /\ sender' = Notice(job, k, first, row) /\ chat' = AfterClaim(k, first, row)
  /\ RowIsOK(row) /\ UNCHANGED <<cycle, from, waiting, trades, intent, closed, told>>
  /\ IF job = "trade"
     THEN cursor' = k /\ k <= Len(trades)
     ELSE cursor' = cursor /\ row.settled = cursor /\ row.open = k /\ (row.blocked \/ row.waiting = 0)

\* A claim gives up at most the cycle message it leaves.
LEMMA ClaimedChat ==
  ASSUME NoticesInv, NEW k, NEW first, NEW row, chat' = AfterClaim(k, first, row), UNCHANGED cycle
  PROVE  /\ Faded /\ RepliesStay
         /\ BlockOpen' => BlockOpen /\ chat'[cycle'].open = chat[cycle].open
                          /\ ~row.blocked /\ ~Splits(k, first)
<1>1. cycle # 0 => cycle \in 1..Len(chat)  BY DEF NoticesInv, NoticesTypeOK, ColumnTypes
<1>2. CASE chat' = Left(cycle) /\ cycle # 0
  <2>1. GivenUp(cycle)  BY <1>1, <1>2, LeftFades DEF NoticesInv, NoticesTypeOK
  <2>2. Faded /\ ~BlockOpen'  BY <2>1 DEF GivenUp, BlockOpen, OpenButton
  <2>3. RepliesStay  BY <2>1 DEF GivenUp, RepliesStay, NoticesInv, ChatOK
  <2>4. QED  BY <2>2, <2>3
<1>3. CASE chat' = chat /\ (cycle = 0 \/ ~(row.blocked \/ Splits(k, first)))
  <2>1. Faded  BY <1>3, SameFades DEF NoticesInv, NoticesTypeOK
  <2>2. RepliesStay  BY <1>3 DEF RepliesStay, NoticesInv, ChatOK
  <2>3. QED  BY <1>3, <2>1, <2>2 DEF BlockOpen, OpenButton
<1>4. QED  BY <1>2, <1>3 DEF AfterClaim

\* What the claim of a block leaves to show.
LEMMA ClaimedSender ==
  ASSUME NoticesInv, NEW job \in {"trade", "open"}, NEW k \in Nat \ {0}, NEW first, NEW row \in RowType,
         Claims(job, k, first, row)
  PROVE  Faded /\ RepliesStay /\ ButtonJobOK' /\ RowOK' /\ SenderOK' /\ sender' \in SenderType
<1> USE DEF NoticesInv, Claims
<1>1. sender.job = "none" /\ row.notified = cursor /\ cursor \in Nat
  BY DEF SenderOK, StepOK, NoticesTypeOK, ColumnTypes
<1>2. /\ Faded /\ RepliesStay
      /\ BlockOpen' => BlockOpen /\ chat'[cycle'].open = chat[cycle].open
                       /\ ~row.blocked /\ ~Splits(k, first)
  BY ClaimedChat
<1>3. BlockOpen => chat[cycle].open = k /\ (row.waits => chat[cycle].open <= row.settled)
  BY <1>1 DEF ButtonJobOK, InTurn
<1>4. RowIsOK(row)'  BY <1>2 DEF RowIsOK, Faded
<1>5. CASE row.blocked
  <2>1. sender' = Done(job, row) /\ ~BlockOpen'  BY <1>2, <1>5 DEF Notice
  <2>2. job \in {"trade", "open", "stale"} =>
           /\ RowIsOK(row)' /\ row.notified + (IF job = "trade" THEN 1 ELSE 0) = cursor'
           /\ job = "stale" => row.waiting = 0 \/ row.blocked
    BY <1>1, <1>4
  <2>3. QED  BY <1>2, <2>1, <2>2, DoneSender
<1>6. CASE ~row.blocked
  <2>1. /\ first \in 1..k /\ OneCycle(first, k)
        /\ ShowsCycle(k) /\ ~Splits(k, first) => cycle # 0 /\ first = from
        /\ ~(ShowsCycle(k) /\ ~Splits(k, first)) =>
             \A m \in 1..Len(chat) :
               chat[m].kind = "cycle" /\ chat[m].known /\ chat[m].live => chat[m].shown < first
        /\ BlockOpen /\ chat[cycle].open = k => ShowsCycle(k)
    BY BlockBegins
  <2>2. first \in Nat /\ NoticesTypeOK  BY <2>1
  <2>3. /\ sender' \in SenderType /\ sender'.job = job /\ sender'.row = row /\ sender'.k = k
        /\ sender'.first = first /\ sender'.open \in {0, k} /\ (job = "trade" => sender'.open = 0)
        /\ ShowsCycle(k) /\ ~Splits(k, first) => sender'.at = "edit" /\ sender'.target = cycle
        /\ ~(ShowsCycle(k) /\ ~Splits(k, first)) =>
              \/ sender'.at = "reread" /\ sender'.target = row.waiting /\ row.waiting # 0
              \/ sender'.at = "send" /\ row.waiting = 0
    BY <1>6, <2>2, NoticeFields
  <2>4. BlockOpen' => sender'.at = "edit"  BY <1>2, <1>3, <2>1, <2>3
  <2>5. ButtonJobOK'
    <3>1. BlockOpen' => chat'[cycle'].open = cursor' + (IF job = "trade" THEN 0 ELSE 1)
      BY <1>1, <1>2, <1>3
    <3>2. BlockOpen' /\ row.waits => chat'[cycle'].open <= row.settled  BY <1>2, <1>3
    <3>3. QED  BY <2>3, <2>4, <3>1, <3>2 DEF ButtonJobOK, Sending, Removing
  <2>6. RowOK'  BY <1>4, <2>3 DEF RowOK, RowIsOK
  <2>7. sender'.at \in {"edit", "reread", "send"}  BY <2>3
  <2>8. StepOK'  BY <2>3, <2>7 DEF StepOK
  <2>9. ClaimOK'
    <3>1. CASE job = "trade"
      <4>1. k \in 1..MaxResults
        <5>1. Len(trades) \in Nat /\ MaxResults \in Nat /\ Len(trades) <= MaxResults
          BY NoticesAssumption DEF NoticesTypeOK, SessionTypes
        <5>2. QED  BY <3>1, <5>1
      <4>2. told[k] = 0
        <5>1. ~(k <= cursor)  BY <1>1
        <5>2. QED  BY <4>1, <5>1, Zenon DEF ToldOK
      <4>3. from <= k /\ (cycle # 0 => chat'[cycle].shown < k)
        <5>1. from \in Nat /\ (cycle = 0 => from = 0) /\ cycle \in 0..Len(chat) /\ Len(chat) \in Nat
          BY DEF NoticesTypeOK, ColumnTypes, ChatTypes
        <5>2. cycle # 0 => chat[cycle].shown \in Nat /\ chat'[cycle].shown = chat[cycle].shown
          BY <1>2, <5>1, MessageFields DEF NoticesTypeOK, Faded
        <5>3. cycle # 0 => from <= cursor + 1 /\ chat[cycle].shown <= cursor  BY DEF CycleOK
        <5>4. QED  BY <1>1, <5>1, <5>2, <5>3
      <4>4. QED  BY <1>1, <2>3, <2>7, <3>1, <4>2, <4>3 DEF ClaimOK
    <3>2. CASE job = "open"
      <4>1. row.waiting = 0 /\ sender'.at # "reread"  BY <1>6, <2>3, <3>2
      <4>2. QED  BY <1>1, <2>3, <2>7, <3>2, <4>1 DEF ClaimOK, Removing
    <3>3. QED  BY <3>1, <3>2
  <2>10. BlockOK'
    <3>1. (OneCycle(sender.first, sender.k))'  BY <2>1, <2>3 DEF OneCycle
    <3>2. sender'.at = "edit" => sender'.target = cycle' /\ cycle' # 0 /\ sender'.first = from'
      BY <2>1, <2>3
    <3>3. sender'.at # "edit" => \A m \in 1..Len(chat') :
            chat'[m].kind = "cycle" /\ chat'[m].known /\ chat'[m].live => chat'[m].shown < sender'.first
      BY <1>2, <2>1, <2>3 DEF Faded
    <3>4. QED  BY <2>1, <2>3, <2>7, <3>1, <3>2, <3>3 DEF BlockOK, BlockJob, Sending, Removing
  <2>11. TargetOK' /\ RecordOK'  BY <2>3, <2>7 DEF TargetOK, RecordOK, Removing
  <2>12. QED  BY <1>2, <2>3, <2>5, <2>6, <2>8, <2>9, <2>10, <2>11 DEF SenderOK
<1>7. QED  BY <1>5, <1>6

\* The claim of a result moves the cursor.
LEMMA ClaimTradeKeeps == ASSUME NoticesInv, ClaimTrade PROVE NoticesInv'
<1>1. /\ sender.at = "serve"
      /\ UNCHANGED <<cycle, from, mark, waiting, slot, card, closed, summary, session, blocked, graceOver,
                     faults, told>>
  BY DEF ClaimTrade
<1>2. /\ sender.job = "none" /\ RowIsOK(sender.row) /\ sender.row \in RowType /\ cursor \in Nat
      /\ Len(trades) \in Nat
  BY <1>1, SenderTypes
  DEF NoticesInv, SenderOK, StepOK, RowOK, InTurn, NoticesTypeOK, SessionTypes, ChatTypes, ColumnTypes
<1>3. CASE sender' = Idle /\ UNCHANGED <<cursor, chat>>
  <2>1. UNCHANGED columns  BY <1>1, <1>3 DEF columns
  <2>2. QED  BY <1>1, <1>2, <1>3, <2>1, BlockedType, FallsIdle
<1>4. ASSUME cursor = sender.row.notified, ~closed, Len(trades) >= cursor + 1,
             NEW first \in Begins(cursor + 1), cursor' = cursor + 1,
             sender' = Notice("trade", cursor + 1, first, sender.row),
             chat' = AfterClaim(cursor + 1, first, sender.row)
      PROVE  NoticesInv'
  <2>1. PICK k \in Nat \ {0}, row \in RowType : k = cursor + 1 /\ row = sender.row  BY <1>2
  <2>2. Claims("trade", k, first, row)  BY <1>1, <1>2, <1>4, <2>1 DEF Claims, session
  <2>3. Faded /\ RepliesStay /\ ButtonJobOK' /\ RowOK' /\ SenderOK' /\ sender' \in SenderType
    BY <2>2, ClaimedSender
  <2>4. WorldOK'  BY <1>1, <1>4, <2>3, FadedBlocks DEF session
  <2>5. SessionTypes' /\ ChatTypes'
    BY <1>1, <2>3 DEF NoticesInv, NoticesTypeOK, SessionTypes, ChatTypes, session, Faded
  <2>6. ColumnTypes'
    BY <1>1, <1>2, <1>4, <2>3 DEF NoticesInv, NoticesTypeOK, ColumnTypes, session, Faded
  <2>7. QED  BY <2>3, <2>4, <2>5, <2>6 DEF NoticesInv, NoticesTypeOK, WorldOK
<1>5. QED  BY <1>2, <1>3, <1>4 DEF ClaimTrade

\* The claim of an open trade marks it.
LEMMA ClaimOpenKeeps == ASSUME NoticesInv, ClaimOpen PROVE NoticesInv'
<1>1. /\ sender.at = "serve" /\ Task(sender.row) = "open"
      /\ UNCHANGED <<cursor, cycle, from, waiting, slot, card, closed, summary, session, blocked, graceOver,
                     faults, told>>
  BY DEF ClaimOpen
<1>2. /\ sender.job = "none" /\ RowIsOK(sender.row) /\ sender.row \in RowType /\ cursor \in Nat
      /\ Len(trades) \in Nat /\ sender.row.open \in Nat
  BY <1>1, SenderTypes, RowTypes
  DEF NoticesInv, SenderOK, StepOK, RowOK, InTurn, NoticesTypeOK, SessionTypes, ChatTypes, ColumnTypes,
      RowFields
<1>3. CASE sender' = Idle /\ UNCHANGED <<mark, chat>>
  <2>1. UNCHANGED columns  BY <1>1, <1>3 DEF columns
  <2>2. QED  BY <1>1, <1>2, <1>3, <2>1, BlockedType, FallsIdle
<1>4. ASSUME ~closed, cursor = sender.row.settled, Len(trades) = sender.row.settled,
             OpenTrade = sender.row.open, NEW first \in Begins(sender.row.open), mark' = sender.row.open,
             sender' = Notice("open", sender.row.open, first, sender.row),
             chat' = AfterClaim(sender.row.open, first, sender.row)
      PROVE  NoticesInv'
  <2>1. sender.row.open # 0 /\ ~(sender.row.stale /\ sender.row.waiting # 0)  BY <1>1 DEF Task
  <2>2. sender.row.open = cursor + 1 /\ (sender.row.blocked \/ sender.row.waiting = 0)
    BY <1>2, <1>4, <2>1 DEF RowIsOK
  <2>3. PICK k \in Nat \ {0}, row \in RowType : k = sender.row.open /\ row = sender.row  BY <1>2, <2>1
  <2>4. Claims("open", k, first, row)  BY <1>1, <1>2, <1>4, <2>2, <2>3 DEF Claims, session
  <2>5. Faded /\ RepliesStay /\ ButtonJobOK' /\ RowOK' /\ SenderOK' /\ sender' \in SenderType
    BY <2>4, ClaimedSender
  <2>6. WorldOK'  BY <1>1, <2>5, FadedBlocks DEF session
  <2>7. SessionTypes' /\ ChatTypes'
    BY <1>1, <2>5 DEF NoticesInv, NoticesTypeOK, SessionTypes, ChatTypes, session, Faded
  <2>8. ColumnTypes'
    BY <1>1, <1>2, <1>4, <2>2, <2>5 DEF NoticesInv, NoticesTypeOK, ColumnTypes, session, Faded
  <2>9. QED  BY <2>5, <2>6, <2>7, <2>8 DEF NoticesInv, NoticesTypeOK, WorldOK
<1>5. QED  BY <1>2, <1>3, <1>4 DEF ClaimOpen

-----------------------------------------------------------------------------
(* The calls that deliver *)

\* What holds while a call is made or recorded.
LEMMA CallFacts ==
  ASSUME NoticesInv, sender.at \in {"send", "edit", "record"}
  PROVE  /\ sender \in SenderType /\ sender.row \in RowType /\ cursor \in Nat
         /\ sender.job \in {"trade", "open", "waiting", "summary"}
         /\ sender.job # "summary" => RowIsOK(sender.row) /\ ~closed
         /\ BlockJob => sender.row.notified + (IF sender.job = "trade" THEN 1 ELSE 0) = cursor
         /\ sender.at # "edit" \/ ~BlockJob => ~BlockOpen
         /\ sender.at = "edit" => BlockJob /\ sender.target = cycle /\ cycle \in 1..Len(chat)
<1> USE DEF NoticesInv
<1>1. sender \in SenderType /\ sender.row \in RowType /\ cursor \in Nat
      /\ sender.job \in {"none", "trade", "open", "waiting", "summary"} \cup Removals
  BY SenderTypes DEF NoticesTypeOK, ChatTypes, ColumnTypes
<1>2. sender.job \in {"trade", "open", "waiting", "summary"}
  BY <1>1 DEF SenderOK, StepOK, Removing, Removals, Calls
<1>3. sender.job # "summary" => RowIsOK(sender.row) /\ ~closed  BY DEF RowOK, RowIsOK, InTurn
<1>4. BlockJob => sender.row.notified + (IF sender.job = "trade" THEN 1 ELSE 0) = cursor
  BY <1>1, RowTypes DEF SenderOK, ClaimOK, BlockJob, RowFields
<1>5. sender.at # "edit" \/ ~BlockJob => ~BlockOpen
  <2>1. CASE sender.job = "summary"
    <3>1. closed  BY <2>1 DEF SenderOK, StepOK
    <3> HIDE DEF NoticesInv
    <3>2. QED  BY <3>1, ClosedBlocks
  <2>2. CASE sender.job # "summary"  BY <1>2, <2>2 DEF ButtonJobOK, BlockJob, Sending
  <2>3. QED  BY <2>1, <2>2
<1>6. sender.at = "edit" => BlockJob  BY <1>2 DEF SenderOK, StepOK, BlockJob
<1>7. sender.at = "edit" => sender.target = cycle /\ cycle \in 1..Len(chat)
  BY <1>6 DEF SenderOK, BlockOK, NoticesTypeOK, ColumnTypes
<1>8. QED  BY <1>1, <1>2, <1>3, <1>4, <1>5, <1>6, <1>7

\* A call that did not deliver.
LEMMA RefusedKeeps ==
  ASSUME NoticesInv, Refused, sender.at \in {"send", "edit"}, UNCHANGED <<session, columns, graceOver>>
  PROVE  NoticesInv'
<1>1. faults' = faults + 1 /\ UNCHANGED told /\ blocked' \in BOOLEAN  BY BlockedType DEF Refused
<1>2. /\ sender \in SenderType /\ sender.row \in RowType /\ cursor \in Nat
      /\ sender.job \in {"trade", "open", "waiting", "summary"}
      /\ sender.job # "summary" => RowIsOK(sender.row) /\ ~closed
      /\ BlockJob => sender.row.notified + (IF sender.job = "trade" THEN 1 ELSE 0) = cursor
      /\ sender.at # "edit" \/ ~BlockJob => ~BlockOpen
  BY CallFacts
<1>3. UNCHANGED worldVars  BY <1>1 DEF worldVars, session, columns
<1>4. sender.at \in Calls  BY DEF Calls
<1>5. PICK row \in RowType : row = sender.row  BY <1>2
<1>6. CASE sender' = [sender EXCEPT !.at = "release"] /\ chat' = chat
  <2>1. "release" \in Calls  BY DEF Calls
  <2>2. Onward("release", row)  BY <1>5, <1>6, <2>1, OnwardOf
  <2>3. BlockOpen' => BlockOpen /\ chat'[cycle'].open = chat[cycle].open  BY <1>3, <1>6, StillWorld
  <2> USE DEF NoticesInv, Onward
  <2>4. UNCHANGED <<cursor, cycle, from, waiting, trades, intent, closed, summary>>
    BY <1>3 DEF worldVars
  <2>5. ButtonJobOK'  BY <1>4, <1>5, <2>2, <2>3, <2>4 DEF ButtonJobOK, BlockJob, Sending, Removing, InTurn
  <2>6. RowOK'  BY <1>2, <1>5, <1>6, <2>2, <2>4 DEF RowOK, RowIsOK, InTurn
  <2>7. StepOK'  BY <1>2, <1>5, <1>6, <2>2, <2>4 DEF SenderOK, StepOK, Removing, Calls
  <2>8. ClaimOK'  BY <1>2, <1>5, <1>6, <2>2, <2>4, <1>1 DEF SenderOK, ClaimOK, Removing
  <2>9. BlockOK' /\ TargetOK' /\ RecordOK'
    BY <1>3, <1>6, <2>2 DEF SenderOK, BlockOK, BlockJob, Sending, Removing, TargetOK, RecordOK, OneCycle, worldVars
  <2> HIDE DEF NoticesInv, Onward
  <2>10. QED  BY <1>1, <1>6, <2>2, <2>5, <2>6, <2>7, <2>8, <2>9, SenderStep DEF SenderOK, Onward
<1>7. ASSUME NEW new \in RowType, sender' = Done(sender.job, new), chat' = Undone,
             sender.job # "summary" => RowIsOK(new)', new.notified = row.notified
      PROVE  NoticesInv'
  <2>1. /\ Faded /\ RepliesStay
        /\ BlockOpen' => /\ BlockOpen /\ chat'[cycle'].open = chat[cycle].open
                         /\ ~(sender.at \in Calls /\ BlockJob)
    BY <1>3, <1>7, UndoneFades
  <2>2. ~BlockOpen'  BY <1>2, <1>4, <2>1
  <2>3. PICK job : job = sender.job  OBVIOUS
  <2>4. sender' = Done(job, new)  BY <1>7, <2>3
  <2>5. cursor' = cursor  BY <1>3 DEF worldVars
  <2>6. job \in {"trade", "open", "stale"} =>
           /\ RowIsOK(new)' /\ new.notified + (IF job = "trade" THEN 1 ELSE 0) = cursor'
           /\ job = "stale" => new.waiting = 0 \/ new.blocked
    BY <1>2, <1>5, <1>7, <2>3, <2>5 DEF BlockJob
  <2>7. ButtonJobOK' /\ RowOK' /\ SenderOK' /\ sender' \in SenderType  BY <2>2, <2>4, <2>6, DoneSender
  <2>8. QED  BY <1>1, <2>1, <2>7, RemovalStep
<1> DEFINE barred == [row EXCEPT !.blocked = TRUE]
<1>8. /\ barred \in RowType /\ barred.blocked /\ barred.waiting = row.waiting
      /\ barred.notified = row.notified /\ barred.settled = row.settled /\ barred.waits = row.waits
      /\ barred.open = row.open /\ barred.due = row.due
  BY <1>5 DEF RowType
<1>9. sender' = Done(sender.job, [sender.row EXCEPT !.blocked = TRUE]) => sender' = Done(sender.job, barred)
  BY <1>5
<1> HIDE DEF barred
<1>10. chat' = chat \/ chat' = Undone => Len(chat') = Len(chat)
  BY <1>3, UndoneFades DEF Faded
<1>11. chat' = Undone => (sender.job # "summary" => RowIsOK(row)' /\ RowIsOK(barred)')
  BY <1>2, <1>3, <1>5, <1>8, <1>10 DEF RowIsOK, worldVars
<1>12. \/ sender' = [sender EXCEPT !.at = "release"] /\ chat' = chat
       \/ sender' = Done(sender.job, sender.row) /\ chat' = Undone
       \/ sender' = Done(sender.job, [sender.row EXCEPT !.blocked = TRUE]) /\ chat' = Undone
  <2>1. sender.job = "waiting" => Undone = chat  BY DEF Undone
  <2>2. QED  BY <2>1 DEF Refused
<1>13. QED  BY <1>5, <1>6, <1>7, <1>8, <1>9, <1>11, <1>12

\* The message of a send.
LEMMA WrittenFields ==
  ASSUME NEW s \in SenderType, s.job \in {"trade", "open", "waiting", "summary"}
  PROVE  /\ Written(s) \in MessageType /\ ~Written(s).known /\ ~Written(s).stray /\ Written(s).live
         /\ Written(s).handed = "no" /\ Written(s).open = s.open /\ Written(s).first = s.first
         /\ Written(s).shown = IF s.job = "trade" THEN s.k ELSE s.row.settled
         /\ Written(s).kind = IF s.job \in {"trade", "open"} THEN "cycle" ELSE s.job
<1>1. s.row.settled \in Nat /\ s.first \in Nat /\ s.open \in Nat /\ s.k \in Nat
  BY SenderTypes, RowTypes DEF RowFields
<1> DEFINE kind == IF s.job \in {"trade", "open"} THEN "cycle" ELSE s.job
           shown == IF s.job = "trade" THEN s.k ELSE s.row.settled
           msg == [Message(kind) EXCEPT !.first = s.first, !.shown = shown, !.open = s.open]
<1>2. kind \in {"cycle", "waiting", "summary"} /\ shown \in Nat  BY <1>1
<1>3. Written(s) = msg  BY DEF Written
<1> HIDE DEF kind, shown
<1>4. /\ msg \in MessageType /\ ~msg.known /\ ~msg.stray /\ msg.live /\ msg.handed = "no"
      /\ msg.open = s.open /\ msg.first = s.first /\ msg.shown = shown /\ msg.kind = kind
  BY <1>1, <1>2 DEF Message, MessageType
<1>5. QED  BY <1>3, <1>4 DEF kind, shown

\* A told result is the claimed one, for the first time.
LEMMA TellKeeps ==
  ASSUME NoticesInv, Tell(sender), sender.at \in {"send", "edit"}, UNCHANGED cursor
  PROVE  ToldOK' /\ told' \in [1..MaxResults -> Nat]
<1> USE DEF NoticesInv
<1>1. told \in [1..MaxResults -> Nat]  BY DEF NoticesTypeOK, ChatTypes
<1>2. CASE sender.job = "trade"
  <2>1. sender.k = cursor /\ told[sender.k] = 0  BY <1>2 DEF SenderOK, ClaimOK
  <2>2. told' = [told EXCEPT ![sender.k] = 1]  BY <1>2, <2>1 DEF Tell
  <2>3. told' \in [1..MaxResults -> Nat]  BY <1>1, <2>1, <2>2
  <2>4. ASSUME NEW j \in 1..MaxResults PROVE told'[j] <= 1 /\ (told'[j] # 0 => j <= cursor)
    <3>1. CASE j = sender.k
      <4>1. told'[j] = 1  BY <1>1, <2>1, <2>2, <3>1
      <4>2. j = cursor /\ MaxResults \in Nat  BY <2>1, <3>1, NoticesAssumption
      <4>3. QED  BY <4>1, <4>2
    <3>2. CASE j # sender.k
      <4>1. told'[j] = told[j]  BY <1>1, <2>2, <3>2
      <4>2. QED  BY <4>1 DEF ToldOK
    <3>3. QED  BY <3>1, <3>2
  <2>5. QED  BY <2>3, <2>4 DEF ToldOK
<1>3. CASE sender.job # "trade"  BY <1>1, <1>3 DEF Tell, ToldOK
<1>4. QED  BY <1>2, <1>3

\* A send, whatever its outcome.
LEMMA SendKeeps == ASSUME NoticesInv, Send PROVE NoticesInv'
<1>1. sender.at = "send" /\ UNCHANGED <<session, columns, graceOver>>  BY DEF Send
<1>2. /\ sender \in SenderType /\ sender.row \in RowType /\ cursor \in Nat
      /\ sender.job \in {"trade", "open", "waiting", "summary"}
      /\ sender.job # "summary" => RowIsOK(sender.row) /\ ~closed
      /\ BlockJob => sender.row.notified + (IF sender.job = "trade" THEN 1 ELSE 0) = cursor
      /\ ~BlockOpen
  BY <1>1, CallFacts
<1>3. CASE /\ chat' = Append(chat, Written(sender)) /\ Tell(sender) /\ UNCHANGED blocked
           /\ faults' \in {faults, faults + 1}
           /\ \/ sender' = Done(sender.job, sender.row)
              \/ sender.job # "summary"
                 /\ sender' = [sender EXCEPT !.at = "record", !.target = Len(chat) + 1]
  <2>1. PICK msg \in MessageType : msg = Written(sender)  BY <1>2, WrittenFields
  <2>2. /\ ~msg.known /\ ~msg.stray /\ msg.live /\ msg.handed = "no" /\ msg.open = sender.open
        /\ msg.first = sender.first /\ msg.shown = IF sender.job = "trade" THEN sender.k ELSE sender.row.settled
        /\ msg.kind = IF sender.job \in {"trade", "open"} THEN "cycle" ELSE sender.job
    BY <1>2, <2>1, WrittenFields
  <2>3. Grown(msg)  BY <1>3, <2>1, AppendGrows DEF NoticesInv, NoticesTypeOK
  <2>4. UNCHANGED <<session, cursor, cycle, from, mark, waiting, slot, card, closed, summary>>
    BY <1>1 DEF columns
  <2>5. msg.kind # "cycle" => msg.open = 0  BY <2>2 DEF NoticesInv, SenderOK, BlockOK
  <2>6. msg.kind = "summary" => closed' /\ summary' \in {"bot", "text"}
    BY <1>2, <2>2, <2>4 DEF NoticesInv, SenderOK, StepOK
  <2>7. \A m \in 1..Len(chat) : chat[m].kind # "summary"
    BY <1>2 DEF NoticesInv, SenderOK, StepOK, ChatOK
  <2>8. /\ ChatOK' /\ CycleOK' /\ BlocksOK' /\ NoRepeatedBlock' /\ ButtonOK'
        /\ BlockOpen' => BlockOpen /\ (chat[cycle].open)' = chat[cycle].open
    BY <2>2, <2>3, <2>4, <2>5, <2>6, <2>7, GrownWorld
  <2>9. ~BlockOpen'  BY <1>2, <2>8
  <2>10. SessionOK'  BY <2>4 DEF NoticesInv, SessionOK, Finished, session
  <2>11. ToldOK' /\ told' \in [1..MaxResults -> Nat]  BY <1>1, <1>3, <2>4, TellKeeps
  <2>12. Len(chat) \in Nat /\ Len(chat') = Len(chat) + 1  BY <2>3 DEF Grown, NoticesInv, NoticesTypeOK, ChatTypes
  <2>13. PICK row \in RowType : row = sender.row  BY <1>2
  <2>14. sender.job # "summary" => RowIsOK(row)'
    <3>1. row.waiting \in Nat  BY RowTypes DEF RowFields
    <3>2. QED  BY <1>2, <2>4, <2>12, <2>13, <3>1 DEF RowIsOK, session
  <2>15. ButtonJobOK' /\ RowOK' /\ SenderOK' /\ sender' \in SenderType
    <3>1. CASE sender' = Done(sender.job, sender.row)
      <4>1. PICK job : job = sender.job  OBVIOUS
      <4>2. sender' = Done(job, row)  BY <2>13, <3>1, <4>1
      <4>3. job \in {"trade", "open", "stale"} =>
               /\ RowIsOK(row)' /\ row.notified + (IF job = "trade" THEN 1 ELSE 0) = cursor'
               /\ job = "stale" => row.waiting = 0 \/ row.blocked
        BY <1>2, <2>4, <2>13, <2>14, <4>1 DEF BlockJob
      <4>4. QED  BY <2>9, <4>2, <4>3, DoneSender
    <3>2. CASE sender.job # "summary" /\ sender' = [sender EXCEPT !.at = "record", !.target = Len(chat) + 1]
      <4>1. /\ sender' \in SenderType /\ sender'.at = "record" /\ sender'.target = Len(chat) + 1
            /\ sender'.job = sender.job /\ sender'.row = row /\ sender'.k = sender.k
            /\ sender'.first = sender.first /\ sender'.open = sender.open
        <5>1. PICK n \in Nat : n = Len(chat) + 1  BY <2>12
        <5>2. sender' = [sender EXCEPT !.at = "record", !.target = n]  BY <3>2, <5>1
        <5>3. /\ sender' \in SenderType /\ sender'.at = "record" /\ sender'.target = n
              /\ sender'.job = sender.job /\ sender'.row = sender.row /\ sender'.k = sender.k
              /\ sender'.first = sender.first /\ sender'.open = sender.open
          BY <1>2, <5>2 DEF SenderType
        <5>4. QED  BY <2>13, <5>1, <5>3
      <4>2. chat'[sender'.target] = msg /\ \A n \in 1..Len(chat) : chat'[n] = chat[n]
        BY <2>3, <4>1 DEF Grown
      <4>3. ButtonJobOK' /\ RowOK'  BY <2>9, <2>14, <3>2, <4>1 DEF ButtonJobOK, RowOK, RowIsOK
      <4>4. StepOK'  BY <1>1, <1>2, <2>4, <2>13, <3>2, <4>1 DEF NoticesInv, SenderOK, StepOK, Removing, Calls
      <4>5. ClaimOK'  BY <1>1, <1>2, <2>4, <2>13, <4>1 DEF NoticesInv, SenderOK, ClaimOK, Removing
      <4>6. BlockOK'
        <5>1. ASSUME BlockJob
              PROVE  \A m \in 1..Len(chat') : chat'[m].kind = "cycle" /\ chat'[m].known /\ chat'[m].live
                                                => chat'[m].shown < sender.first
          <6>1. \A m \in 1..Len(chat) :
                  chat[m].kind = "cycle" /\ chat[m].known /\ chat[m].live => chat[m].shown < sender.first
            BY <1>1, <5>1 DEF NoticesInv, SenderOK, BlockOK, Sending
          <6>2. ~chat'[Len(chat) + 1].known  BY <2>2, <4>1, <4>2
          <6>3. \A m \in 1..Len(chat') : m \in 1..Len(chat) \/ m = Len(chat) + 1  BY <2>12
          <6>4. QED  BY <4>2, <6>1, <6>2, <6>3
        <5>2. BlockJob =>
                /\ sender.first \in 1..sender.k /\ OneCycle(sender.first, sender.k)
          BY DEF NoticesInv, SenderOK, BlockOK
        <5>3. sender.open # 0 => sender.job = "open" /\ sender.open = sender.k
          BY DEF NoticesInv, SenderOK, BlockOK
        <5>4. trades' = trades  BY <2>4 DEF session
        <5>5. QED  BY <4>1, <5>1, <5>2, <5>3, <5>4 DEF BlockOK, BlockJob, OneCycle
      <4>7. TargetOK'  BY <2>2, <4>1, <4>2 DEF TargetOK, Removing
      <4>8. RecordOK'
        <5>1. sender'.target \in 1..Len(chat') /\ sender'.target > cycle
          BY <2>12, <4>1 DEF NoticesInv, NoticesTypeOK, ColumnTypes
        <5>2. BlockJob => msg.kind = "cycle" /\ msg.shown <= cursor
          BY <1>2, <2>2 DEF NoticesInv, SenderOK, ClaimOK, BlockJob
        <5>3. sender.open # 0 => sender.job = "open" /\ sender.open = sender.k
          BY DEF NoticesInv, SenderOK, BlockOK
        <5>4. ~BlockJob => sender.job = "waiting" /\ msg.kind = "waiting"  BY <1>2, <2>2, <3>2 DEF BlockJob
        <5>5. cycle' = cycle /\ cursor' = cursor  BY <2>4
        <5>6. QED  BY <2>2, <4>1, <4>2, <5>1, <5>2, <5>3, <5>4, <5>5 DEF RecordOK, BlockJob
      <4>9. QED  BY <4>1, <4>3, <4>4, <4>5, <4>6, <4>7, <4>8 DEF SenderOK
    <3>3. QED  BY <1>3, <3>1, <3>2
  <2>16. NoticesTypeOK'
    <3>1. SessionTypes'  BY <1>1, <1>3 DEF NoticesInv, NoticesTypeOK, SessionTypes, session
    <3>2. ChatTypes'  BY <2>3, <2>11, <2>15 DEF ChatTypes, Grown
    <3>3. ColumnTypes'
      BY <2>3, <2>4, <2>12 DEF NoticesInv, NoticesTypeOK, ColumnTypes, Grown, session
    <3>4. QED  BY <3>1, <3>2, <3>3 DEF NoticesTypeOK
  <2>17. QED  BY <2>8, <2>10, <2>11, <2>15, <2>16 DEF NoticesInv
<1>4. CASE Refused  BY <1>1, <1>4, RefusedKeeps
<1>5. sender.job = "summary" => Done(sender.job, sender.row) = Idle  BY DEF Done
<1>6. QED  BY <1>3, <1>4, <1>5 DEF Send, AfterUnknown

\* The block that an edit or a record has the cycle message show, of the claim's cycle.
LEMMA BlockFacts ==
  ASSUME NoticesInv, BlockJob, sender.at \in {"edit", "record"}
  PROVE  /\ sender.k \in Nat /\ sender.first \in 1..sender.k /\ OneCycle(sender.first, sender.k)
         /\ sender.k <= cursor + 1 /\ cursor <= sender.k /\ (sender.job = "open" => sender.row.settled = cursor)
         /\ sender.job = "trade" => sender.k = cursor
         /\ sender.open # 0 =>
              /\ sender.job = "open" /\ sender.open = sender.k /\ sender.k = cursor + 1 /\ waiting = 0
              /\ ~sender.row.waits
              /\ sender.k <= Len(trades) \/ (sender.k = Len(trades) + 1 /\ intent = "open")
<1> USE DEF NoticesInv
<1>1. /\ sender \in SenderType /\ sender.row \in RowType /\ cursor \in Nat /\ RowIsOK(sender.row)
      /\ Len(trades) \in Nat
  BY CallFacts DEF BlockJob, NoticesTypeOK, SessionTypes
<1>2. sender.k \in Nat /\ sender.first \in 1..sender.k /\ OneCycle(sender.first, sender.k)
  BY <1>1, SenderTypes DEF SenderOK, BlockOK
<1>3. /\ sender.job = "trade" => sender.k = cursor
      /\ sender.job = "open" =>
           /\ sender.k = cursor + 1 /\ sender.row.settled = cursor /\ sender.k = sender.row.open
           /\ sender.row.waiting = 0
  BY DEF SenderOK, ClaimOK
<1>4. sender.open # 0 => sender.job = "open" /\ sender.open = sender.k  BY DEF SenderOK, BlockOK
<1>5. sender.job = "open" =>
        /\ waiting = 0 /\ ~sender.row.waits
        /\ sender.k <= Len(trades) \/ (sender.k = Len(trades) + 1 /\ intent = "open")
  <2>1. sender.row.settled \in Nat /\ sender.row.waits \in BOOLEAN  BY <1>1, RowTypes DEF RowFields
  <2>2. QED  BY <1>1, <1>2, <1>3, <2>1 DEF RowIsOK
<1>6. QED  BY <1>1, <1>2, <1>3, <1>4, <1>5 DEF BlockJob

\* The message m shows the block.
Redrawn(m, shown, button) ==
  /\ chat' \in Seq(MessageType) /\ Len(chat') = Len(chat)
  /\ \A n \in 1..Len(chat) : n # m => chat'[n] = chat[n]
  /\ chat'[m].kind = chat[m].kind /\ chat'[m].known = chat[m].known
  /\ chat'[m].first = chat[m].first /\ chat'[m].handed = chat[m].handed
  /\ chat'[m].live = chat[m].live
  /\ chat'[m].shown = shown /\ chat'[m].open = button /\ ~chat'[m].stray

\* Replacing one message of a chat.
LEMMA PutAt ==
  ASSUME NEW c \in Seq(MessageType), NEW m \in 1..Len(c), NEW new \in MessageType
  PROVE  /\ [c EXCEPT ![m] = new] \in Seq(MessageType) /\ Len([c EXCEPT ![m] = new]) = Len(c)
         /\ [c EXCEPT ![m] = new][m] = new
         /\ \A n \in 1..Len(c) : n # m => [c EXCEPT ![m] = new][n] = c[n]
OBVIOUS

\* An edit redraws one message.
LEMMA EditRedraws ==
  ASSUME NoticesInv, NEW m \in 1..Len(chat), NEW shown \in Nat, NEW button \in Nat,
         chat' = [chat EXCEPT ![m].shown = shown, ![m].open = button, ![m].stray = FALSE]
  PROVE  Redrawn(m, shown, button)
<1>1. chat[m] \in MessageType /\ chat \in Seq(MessageType)
  BY MessageFields DEF NoticesInv, NoticesTypeOK, ChatTypes
<1> DEFINE new == [chat[m] EXCEPT !.shown = shown, !.open = button, !.stray = FALSE]
<1>2. chat' = [chat EXCEPT ![m] = new]
  <2> DEFINE one == [chat EXCEPT ![m].shown = shown]
             two == [one EXCEPT ![m].open = button]
             a == [chat[m] EXCEPT !.shown = shown]
             b == [a EXCEPT !.open = button]
  <2>1. chat' = [two EXCEPT ![m].stray = FALSE]  OBVIOUS
  <2>2. one = [chat EXCEPT ![m] = a] /\ one[m] = a /\ DOMAIN one = DOMAIN chat
    BY <1>1
  <2>3. two = [one EXCEPT ![m] = b] /\ two[m] = b /\ DOMAIN two = DOMAIN chat
    <3> HIDE DEF one, a
    <3>1. two = [one EXCEPT ![m] = [one[m] EXCEPT !.open = button]]  OBVIOUS
    <3>2. m \in DOMAIN one  BY <1>1, <2>2
    <3>3. QED  BY <2>2, <3>1, <3>2
  <2>4. chat' = [two EXCEPT ![m] = [b EXCEPT !.stray = FALSE]]
    <3> HIDE DEF two, b
    <3>1. chat' = [two EXCEPT ![m] = [two[m] EXCEPT !.stray = FALSE]]  BY <2>1
    <3>2. QED  BY <2>3, <3>1
  <2>5. new = [b EXCEPT !.stray = FALSE]  OBVIOUS
  <2> HIDE DEF new, a, b, one, two
  <2>6. chat' = [two EXCEPT ![m] = new]  BY <2>4, <2>5
  <2>7. QED  BY <1>1, <2>2, <2>3, <2>6
<1>3. /\ new \in MessageType /\ new.kind = chat[m].kind /\ new.known = chat[m].known
      /\ new.first = chat[m].first /\ new.handed = chat[m].handed /\ new.live = chat[m].live
      /\ new.shown = shown /\ new.open = button /\ ~new.stray
  BY <1>1 DEF MessageType
<1> HIDE DEF new
<1>4. /\ chat' \in Seq(MessageType) /\ Len(chat') = Len(chat) /\ chat'[m] = new
      /\ \A n \in 1..Len(chat) : n # m => chat'[n] = chat[n]
  <2>1. PICK c \in Seq(MessageType), x \in MessageType : c = chat /\ x = new  BY <1>1, <1>3
  <2>2. m \in 1..Len(c) /\ chat' = [c EXCEPT ![m] = x]  BY <1>2, <2>1, Zenon
  <2>3. /\ [c EXCEPT ![m] = x] \in Seq(MessageType) /\ Len([c EXCEPT ![m] = x]) = Len(c)
        /\ [c EXCEPT ![m] = x][m] = x
        /\ \A n \in 1..Len(c) : n # m => [c EXCEPT ![m] = x][n] = c[n]
    BY <2>2, PutAt
  <2>4. QED  BY <2>1, <2>2, <2>3, Zenon
<1>5. QED  BY <1>3, <1>4 DEF Redrawn

\* An edit that arrived.
LEMMA EditedKeeps ==
  ASSUME NoticesInv, sender.at = "edit", chat[cycle].live, NEW shown \in Nat, NEW button \in Nat,
         Redrawn(cycle, shown, button), shown = IF sender.job = "trade" THEN sender.k ELSE sender.row.settled,
         button = sender.open, Tell(sender), sender' = Done(sender.job, sender.row),
         UNCHANGED <<session, columns, graceOver, blocked>>, faults' \in {faults, faults + 1}
  PROVE  NoticesInv'
<1>1. /\ sender.row \in RowType /\ cursor \in Nat /\ BlockJob /\ cycle \in 1..Len(chat)
      /\ sender.job \in {"trade", "open"} /\ RowIsOK(sender.row)
      /\ sender.row.notified + (IF sender.job = "trade" THEN 1 ELSE 0) = cursor
  BY CallFacts DEF BlockJob
<1>2. /\ sender.k \in Nat /\ sender.first \in 1..sender.k /\ OneCycle(sender.first, sender.k)
      /\ sender.k <= cursor + 1 /\ cursor <= sender.k /\ shown = cursor
      /\ button # 0 =>
              /\ sender.job = "open" /\ button = sender.k /\ sender.k = cursor + 1 /\ waiting = 0
              /\ ~sender.row.waits
              /\ sender.k <= Len(trades) \/ (sender.k = Len(trades) + 1 /\ intent = "open")
  BY <1>1, BlockFacts DEF BlockJob
<1>3. sender.first = from /\ chat[cycle].kind = "cycle" /\ chat[cycle].known /\ chat[cycle].first = from
      /\ from <= cursor + 1
  BY <1>1 DEF NoticesInv, SenderOK, BlockOK, CycleOK
<1>4. UNCHANGED <<status, trades, intent, waits, cursor, cycle, from, mark, waiting, slot, card, closed, summary>>
  BY DEF session, columns
<1>5. SessionOK' /\ ToldOK' /\ told' \in [1..MaxResults -> Nat]
  <2>1. SessionOK'  BY <1>4 DEF NoticesInv, SessionOK, Finished
  <2>2. QED  BY <1>4, <2>1, TellKeeps
<1>6. ChatOK'  BY <1>1, <1>3, <1>4 DEF NoticesInv, ChatOK, Redrawn
<1>7. CycleOK'
  <2>1. (OneCycle(from, chat[cycle].shown))'
    BY <1>2, <1>3, <1>4 DEF OneCycle, Redrawn
  <2>2. /\ chat'[cycle].kind = "cycle" /\ chat'[cycle].known /\ chat'[cycle].first = from
        /\ chat'[cycle].shown = cursor
    BY <1>2, <1>3 DEF Redrawn
  <2>3. QED  BY <1>1, <1>3, <1>4, <2>1, <2>2 DEF CycleOK
<1>8. \A n \in 1..Len(chat) : n # cycle => (OpenButton(n)' <=> OpenButton(n))
  BY DEF OpenButton, Redrawn
<1>9. BlocksOK'  BY <1>4, <1>8 DEF NoticesInv, BlocksOK, Redrawn
<1>10. NoRepeatedBlock'
  <2>1. DOMAIN chat' = 1..Len(chat')  BY DEF Redrawn
  <2>2. \A m \in 1..Len(chat') : chat'[m].kind = "cycle" /\ chat'[m].known /\ m # cycle =>
          m < cycle /\ (chat'[m].live => chat'[m].shown < from)
    BY <1>4, <1>9 DEF BlocksOK
  <2>3. ASSUME NEW m \in 1..Len(chat'), NEW n \in 1..Len(chat'), m < n, chat'[m].kind = "cycle",
               chat'[n].kind = "cycle", chat'[m].live, chat'[n].live, chat'[m].known, chat'[n].known
        PROVE  chat'[m].shown < chat'[n].first
    <3>1. CASE n = cycle  BY <1>3, <2>2, <2>3, <3>1 DEF Redrawn
    <3>2. CASE n # cycle
      <4>1. n < cycle /\ m # cycle  BY <1>1, <2>2, <2>3, <3>2
      <4>2. chat'[m] = chat[m] /\ chat'[n] = chat[n] /\ m \in 1..Len(chat) /\ n \in 1..Len(chat)
        BY <2>3, <3>2, <4>1 DEF Redrawn
      <4>3. DOMAIN chat = 1..Len(chat)  BY ChatDomain DEF NoticesInv, NoticesTypeOK
      <4>4. QED  BY <2>3, <4>2, <4>3 DEF NoticesInv, NoRepeatedBlock
    <3>3. QED  BY <3>1, <3>2
  <2>4. QED  BY <2>1, <2>3 DEF NoRepeatedBlock
<1>11. ButtonOK'
  <2>1. ASSUME button # 0 PROVE (OneCycle(from, chat[cycle].open))'
    BY <1>2, <1>3, <1>4, <2>1 DEF OneCycle, Redrawn
  <2>2. BlockOpen' => button # 0  BY <1>4 DEF BlockOpen, OpenButton, Redrawn
  <2>3. QED  BY <1>2, <1>3, <1>4, <2>1, <2>2 DEF ButtonOK, Redrawn
<1>12. PICK row \in RowType : row = sender.row  BY <1>1
<1>13. RowIsOK(row)'  BY <1>1, <1>4, <1>12 DEF RowIsOK, Redrawn
<1>14. BlockOpen' => chat'[cycle'].open = cursor' + 1 /\ ~row.waits
  <2>1. BlockOpen' => button # 0  BY <1>4 DEF BlockOpen, OpenButton, Redrawn
  <2>2. chat'[cycle'].open = button  BY <1>4 DEF Redrawn
  <2>3. button # 0 => button = cursor' + 1 /\ ~row.waits  BY <1>2, <1>4, <1>12
  <2>4. QED  BY <2>1, <2>2, <2>3
<1>15. PICK job : job = sender.job  OBVIOUS
<1>16. ButtonJobOK' /\ RowOK' /\ SenderOK' /\ sender' \in SenderType
  <2>1. job \in {"trade", "open", "stale"} =>
               /\ RowIsOK(row)' /\ row.notified + (IF job = "trade" THEN 1 ELSE 0) = cursor'
               /\ job = "stale" => row.waiting = 0 \/ row.blocked
    BY <1>1, <1>4, <1>12, <1>13, <1>15
  <2>2. BlockOpen' => (chat[cycle].open = cursor + 1)' /\ (row.waits => chat'[cycle'].open <= row.settled)
    BY <1>14
  <2>3. sender' = Done(job, row)  BY <1>12, <1>15
  <2>4. QED  BY <2>1, <2>2, <2>3, DoneSender
<1>17. NoticesTypeOK'
  <2>1. SessionTypes'  BY <1>4 DEF NoticesInv, NoticesTypeOK, SessionTypes, session
  <2>2. ChatTypes'  BY <1>5, <1>16 DEF ChatTypes, Redrawn
  <2>3. ColumnTypes'
    <3>1. waiting # 0 => chat'[waiting].kind = "waiting"
      <4>1. waiting # 0 => waiting \in 1..Len(chat) /\ chat[waiting].kind = "waiting"
        BY DEF NoticesInv, NoticesTypeOK, ColumnTypes, ChatTypes
      <4>2. QED  BY <1>3, <4>1 DEF Redrawn
    <3>2. Len(chat') = Len(chat)  BY DEF Redrawn
    <3>3. QED  BY <1>4, <3>1, <3>2 DEF NoticesInv, NoticesTypeOK, ColumnTypes
  <2>4. QED  BY <2>1, <2>2, <2>3 DEF NoticesTypeOK
<1>18. QED  BY <1>5, <1>6, <1>7, <1>9, <1>10, <1>11, <1>16, <1>17 DEF NoticesInv

\* A cycle message that its owner deleted is sent anew.
LEMMA SentAnewKeeps ==
  ASSUME NoticesInv, sender.at = "edit", ~chat[cycle].live, sender' = BeforeSend(sender),
         UNCHANGED <<session, columns, graceOver, blocked, chat, told, faults>>
  PROVE  NoticesInv'
<1>1. /\ sender \in SenderType /\ sender.row \in RowType /\ BlockJob /\ cycle \in 1..Len(chat)
      /\ sender.job \in {"trade", "open"} /\ RowIsOK(sender.row)
  BY CallFacts DEF BlockJob
<1>2. sender.row.waiting \in Nat /\ sender.row.settled \in Nat  BY <1>1, RowTypes DEF RowFields
<1>3. /\ sender' \in SenderType /\ sender'.job = sender.job /\ sender'.row = sender.row
      /\ sender'.k = sender.k /\ sender'.first = sender.first /\ sender'.open = sender.open
      /\ \/ sender'.at = "reread" /\ sender'.target = sender.row.waiting /\ sender.row.waiting # 0
         \/ sender'.at = "send" /\ sender.row.waiting = 0
  <2>1. CASE sender.row.waiting # 0
    <3>1. sender' = [sender EXCEPT !.at = "reread", !.target = sender.row.waiting]
      BY <2>1 DEF BeforeSend
    <3>2. QED  BY <1>1, <1>2, <2>1, <3>1 DEF SenderType, Calls
  <2>2. CASE sender.row.waiting = 0
    <3>1. sender' = [sender EXCEPT !.at = "send"]  BY <2>2 DEF BeforeSend
    <3>2. QED  BY <1>1, <2>2, <3>1 DEF SenderType, Calls
  <2>3. QED  BY <2>1, <2>2
<1>4. UNCHANGED <<trades, intent, cursor, cycle, from, waiting, closed, summary>>  BY DEF session, columns
<1>5. ~BlockOpen'  BY <1>4 DEF BlockOpen, OpenButton
<1>6. RowIsOK(sender.row)'  BY <1>1, <1>3, <1>4 DEF RowIsOK
<1>7. ButtonJobOK' /\ RowOK'  BY <1>5, <1>6 DEF ButtonJobOK, RowOK
<1>8. StepOK'  BY <1>1, <1>3 DEF StepOK
<1>9. sender.job = "open" => sender.row.waiting = 0  BY DEF NoticesInv, SenderOK, ClaimOK
<1>10. ClaimOK'  BY <1>1, <1>3, <1>4, <1>9 DEF NoticesInv, SenderOK, ClaimOK, Removing
<1>11. BlockOK'
  <2>1. sender.first \in 1..sender.k /\ OneCycle(sender.first, sender.k) /\ sender.first = from
        /\ (sender.open # 0 => sender.job = "open" /\ sender.open = sender.k)
    BY <1>1 DEF NoticesInv, SenderOK, BlockOK
  <2>2. \A m \in 1..Len(chat) : chat[m].kind = "cycle" /\ chat[m].known /\ chat[m].live => chat[m].shown < from
    BY <1>1 DEF NoticesInv, BlocksOK
  <2>3. QED  BY <1>3, <1>4, <2>1, <2>2 DEF BlockOK, OneCycle, BlockJob
<1>12. TargetOK' /\ RecordOK'  BY <1>3 DEF TargetOK, RecordOK, Removing
<1>13. QED  BY <1>3, <1>7, <1>8, <1>10, <1>11, <1>12, BlockedType, SenderStep DEF SenderOK

\* An edit, whatever its outcome.
LEMMA EditKeeps == ASSUME NoticesInv, Edit PROVE NoticesInv'
<1>1. sender.at = "edit" /\ UNCHANGED <<session, columns, graceOver>>  BY DEF Edit
<1>2. /\ sender \in SenderType /\ sender.target = cycle /\ cycle \in 1..Len(chat)
      /\ sender.job \in {"trade", "open", "waiting", "summary"}
  BY <1>1, CallFacts
<1>3. PICK shown \in Nat, button \in Nat : shown = Written(sender).shown /\ button = Written(sender).open
  <2>1. Written(sender) \in MessageType  BY <1>2, WrittenFields
  <2>2. QED  BY <2>1 DEF MessageType
<1>4. shown = (IF sender.job = "trade" THEN sender.k ELSE sender.row.settled) /\ button = sender.open
  BY <1>2, <1>3, WrittenFields
<1>5. CASE /\ chat[sender.target].live
           /\ chat' = [chat EXCEPT ![sender.target].shown = Written(sender).shown,
                                   ![sender.target].open = Written(sender).open,
                                   ![sender.target].stray = FALSE]
           /\ Tell(sender) /\ faults' \in {faults, faults + 1}
           /\ sender' = Done(sender.job, sender.row) /\ UNCHANGED blocked
  <2>1. PICK m \in 1..Len(chat) : m = cycle  BY <1>2
  <2>2. chat' = [chat EXCEPT ![m].shown = shown, ![m].open = button, ![m].stray = FALSE]
    BY <1>2, <1>3, <1>5, <2>1
  <2>3. Redrawn(m, shown, button)  BY <2>2, EditRedraws
  <2>4. Redrawn(cycle, shown, button)  BY <2>1, <2>3
  <2>5. chat[cycle].live  BY <1>2, <1>5
  <2>6. QED  BY <1>1, <1>4, <1>5, <2>4, <2>5, EditedKeeps
<1>6. CASE ~chat[sender.target].live /\ sender' = BeforeSend(sender) /\ UNCHANGED <<chat, told, faults, blocked>>
  BY <1>1, <1>2, <1>6, SentAnewKeeps
<1>7. CASE Refused  BY <1>1, <1>7, RefusedKeeps
<1>8. QED  BY <1>5, <1>6, <1>7 DEF Edit

\* The message m is recorded.
Recorded(m) ==
  /\ chat' \in Seq(MessageType) /\ Len(chat') = Len(chat)
  /\ \A n \in 1..Len(chat) : n # m => chat'[n] = chat[n]
  /\ chat'[m].kind = chat[m].kind /\ chat'[m].known
  /\ chat'[m].first = chat[m].first /\ chat'[m].handed = chat[m].handed
  /\ chat'[m].live = chat[m].live /\ chat'[m].stray = chat[m].stray
  /\ chat'[m].shown = chat[m].shown /\ chat'[m].open = chat[m].open

\* A record changes one message.
LEMMA KnownRecords ==
  ASSUME NoticesInv, NEW m \in 1..Len(chat), chat' = [chat EXCEPT ![m].known = TRUE]
  PROVE  Recorded(m)
<1> DEFINE new == [chat[m] EXCEPT !.known = TRUE]
<1>1. chat[m] \in MessageType /\ chat \in Seq(MessageType)
  BY MessageFields DEF NoticesInv, NoticesTypeOK, ChatTypes
<1>2. chat' = [chat EXCEPT ![m] = new]  OBVIOUS
<1>3. /\ new \in MessageType /\ new.kind = chat[m].kind /\ new.known
      /\ new.first = chat[m].first /\ new.handed = chat[m].handed /\ new.live = chat[m].live
      /\ new.shown = chat[m].shown /\ new.open = chat[m].open /\ new.stray = chat[m].stray
  BY <1>1 DEF MessageType
<1> HIDE DEF new
<1>4. /\ chat' \in Seq(MessageType) /\ Len(chat') = Len(chat) /\ chat'[m] = new
      /\ \A n \in 1..Len(chat) : n # m => chat'[n] = chat[n]
  <2>1. PICK c \in Seq(MessageType) : c = chat  BY <1>1
  <2>2. PICK x \in MessageType : x = new  BY <1>3
  <2>3. m \in 1..Len(c)  BY <2>1
  <2>4. /\ [c EXCEPT ![m] = x] \in Seq(MessageType) /\ Len([c EXCEPT ![m] = x]) = Len(c)
        /\ [c EXCEPT ![m] = x][m] = x
        /\ \A n \in 1..Len(c) : n # m => [c EXCEPT ![m] = x][n] = c[n]
    BY <2>3, PutAt
  <2>5. QED  BY <1>2, <2>1, <2>2, <2>4, Zenon
<1>5. QED  BY <1>3, <1>4 DEF Recorded

\* A new cycle message is recorded: it is below the others and shows later trades.
LEMMA RecordedBlock ==
  ASSUME NoticesInv, sender.at = "record", BlockJob, NEW m \in 1..Len(chat), m = sender.target,
         Recorded(m), cycle' = m, from' = sender.first,
         NEW row \in RowType, sender' = Done(sender.job, row), RowIsOK(row),
         row.notified = sender.row.notified, row.waits = sender.row.waits,
         UNCHANGED <<session, cursor, mark, waiting, slot, card, closed, summary, blocked, graceOver,
                     faults, told>>
  PROVE  NoticesInv'
<1>1. /\ sender.row \in RowType /\ cursor \in Nat /\ sender.job \in {"trade", "open"} /\ ~BlockOpen
      /\ ~closed /\ sender.row.notified + (IF sender.job = "trade" THEN 1 ELSE 0) = cursor
  BY CallFacts DEF BlockJob
<1>2. /\ sender.k \in Nat /\ sender.first \in 1..sender.k /\ OneCycle(sender.first, sender.k)
      /\ sender.k <= cursor + 1 /\ cursor <= sender.k
      /\ sender.open # 0 =>
              /\ sender.job = "open" /\ sender.open = sender.k /\ sender.k = cursor + 1 /\ waiting = 0
              /\ ~sender.row.waits
              /\ sender.k <= Len(trades) \/ (sender.k = Len(trades) + 1 /\ intent = "open")
  BY BlockFacts
<1>3. /\ ~chat[m].known /\ ~chat[m].stray /\ chat[m].kind = "cycle" /\ m > cycle
      /\ chat[m].first = sender.first /\ chat[m].shown <= cursor
      /\ chat[m].open # 0 => chat[m].open = sender.k /\ sender.job = "open"
  BY DEF NoticesInv, SenderOK, RecordOK
<1>4. UNCHANGED <<status, trades, intent, waits>>  BY DEF session
<1>5. chat[m].open # 0 =>
        /\ chat[m].open = cursor + 1 /\ sender.k = cursor + 1 /\ waiting = 0 /\ ~sender.row.waits
        /\ sender.k <= Len(trades) \/ (sender.k = Len(trades) + 1 /\ intent = "open")
  <2>1. sender.job = "open" => sender.k = cursor + 1 /\ sender.k = sender.row.open
          /\ sender.row.waiting = 0
    BY DEF NoticesInv, SenderOK, ClaimOK
  <2>2. RowIsOK(sender.row)  BY <1>1, CallFacts
  <2>3. sender.row.settled \in Nat /\ sender.row.waits \in BOOLEAN /\ Len(trades) \in Nat
    BY <1>1, RowTypes DEF RowFields, NoticesInv, NoticesTypeOK, SessionTypes
  <2>4. sender.job = "open" =>
          /\ waiting = 0 /\ ~sender.row.waits
          /\ sender.k <= Len(trades) \/ (sender.k = Len(trades) + 1 /\ intent = "open")
    BY <1>1, <1>2, <2>1, <2>2, <2>3 DEF RowIsOK
  <2>5. QED  BY <1>3, <2>1, <2>4
<1>6. chat[m] \in MessageType /\ chat[m].shown \in Nat /\ chat[m].open \in Nat
      /\ chat[m].handed \in {"no", "yes", "late"}
  BY MessageFields DEF NoticesInv, NoticesTypeOK
<1>7. SessionOK' /\ ToldOK'  BY <1>4 DEF NoticesInv, SessionOK, Finished, ToldOK
<1>8. ChatOK'  BY <1>3, <1>4 DEF NoticesInv, ChatOK, Recorded
<1>9. CycleOK'
  <2>1. (OneCycle(from, chat[cycle].shown))'
    <3>1. chat'[m].shown = chat[m].shown /\ chat[m].shown <= sender.k  BY <1>1, <1>2, <1>3, <1>6 DEF Recorded
    <3>2. \A j \in sender.first..(chat[m].shown - 1) : trades[j] # "won"
      BY <1>2, <1>6, <3>1 DEF OneCycle
    <3>3. from' = sender.first /\ cycle' = m /\ trades' = trades  BY <1>4
    <3>4. QED  BY <3>1, <3>2, <3>3 DEF OneCycle
  <2>2. /\ chat'[m].kind = "cycle" /\ chat'[m].known /\ chat'[m].first = sender.first
        /\ chat'[m].shown <= cursor
    BY <1>3 DEF Recorded
  <2>3. sender.first <= cursor + 1  BY <1>1, <1>2
  <2>4. QED  BY <2>1, <2>2, <2>3 DEF CycleOK
<1>10. \A n \in 1..Len(chat) : n # m /\ chat[n].kind = "cycle" /\ chat[n].known =>
         n < m /\ ~OpenButton(n) /\ (chat[n].live => chat[n].shown < sender.first)
  <2>1. ASSUME NEW n \in 1..Len(chat), n # m, chat[n].kind = "cycle", chat[n].known
        PROVE  n < m /\ ~OpenButton(n) /\ (chat[n].live => chat[n].shown < sender.first)
    <3>1. chat[n].live => chat[n].shown < sender.first
      BY <2>1 DEF NoticesInv, SenderOK, BlockOK, Sending
    <3>2. CASE n = cycle  BY <1>1, <1>3, <3>1, <3>2 DEF BlockOpen
    <3>3. CASE n # cycle
      <4>1. n < cycle /\ ~OpenButton(n)  BY <2>1, <3>3 DEF NoticesInv, BlocksOK
      <4>2. cycle \in Nat /\ m \in Nat
        BY <1>3 DEF NoticesInv, NoticesTypeOK, ColumnTypes, ChatTypes
      <4>3. QED  BY <1>3, <3>1, <4>1, <4>2
    <3>4. QED  BY <3>2, <3>3
  <2>2. QED  BY <2>1
<1>11. \A n \in 1..Len(chat') : n # m /\ chat'[n].kind = "cycle" /\ chat'[n].known =>
         /\ n \in 1..Len(chat) /\ n < m /\ ~OpenButton(n)' /\ chat'[n] = chat[n]
         /\ chat'[n].live => chat'[n].shown < sender.first
  BY <1>10 DEF OpenButton, Recorded
<1>12. BlocksOK'  BY <1>11 DEF BlocksOK
<1>13. NoRepeatedBlock'
  <2>1. DOMAIN chat' = 1..Len(chat') /\ DOMAIN chat = 1..Len(chat)
    BY ChatDomain DEF Recorded, NoticesInv, NoticesTypeOK
  <2>2. ASSUME NEW i \in 1..Len(chat'), NEW n \in 1..Len(chat'), i < n, chat'[i].kind = "cycle",
               chat'[n].kind = "cycle", chat'[i].live, chat'[n].live, chat'[i].known, chat'[n].known
        PROVE  chat'[i].shown < chat'[n].first
    <3>1. CASE n = m
      <4>1. i # m /\ chat'[i].shown < sender.first  BY <1>11, <2>2, <3>1
      <4>2. chat'[n].first = sender.first  BY <1>3, <3>1 DEF Recorded
      <4>3. QED  BY <4>1, <4>2
    <3>2. CASE n # m
      <4>1. n < m /\ i # m /\ chat'[n] = chat[n] /\ n \in 1..Len(chat)  BY <1>11, <2>2, <3>2
      <4>2. chat'[i] = chat[i] /\ i \in 1..Len(chat)  BY <1>11, <2>2, <4>1
      <4>3. QED  BY <2>1, <2>2, <4>1, <4>2 DEF NoticesInv, NoRepeatedBlock
    <3>3. QED  BY <3>1, <3>2
  <2>3. QED  BY <2>1, <2>2 DEF NoRepeatedBlock
<1>14. BlockOpen' => chat[m].open # 0 /\ chat'[cycle'].open = chat[m].open
  BY DEF BlockOpen, OpenButton, Recorded
<1>15. ButtonOK'
  <2>1. ASSUME chat[m].open # 0 PROVE (OneCycle(from, chat[cycle].open))'
    <3>1. chat'[cycle'].open = sender.k  BY <1>3, <2>1 DEF Recorded
    <3>2. QED  BY <1>2, <1>4, <3>1 DEF OneCycle
  <2>2. ASSUME BlockOpen'
        PROVE  /\ waiting' = 0 /\ from' <= chat'[cycle'].open
               /\ chat'[cycle'].open <= Len(trades') \/ (chat'[cycle'].open = Len(trades') + 1 /\ intent' = "open")
    <3>1. chat'[cycle'].open = sender.k /\ chat[m].open # 0  BY <1>3, <1>14, <2>2
    <3>2. QED  BY <1>2, <1>4, <1>5, <3>1
  <2>3. QED  BY <1>14, <2>1, <2>2 DEF ButtonOK
<1>16. PICK job : job = sender.job  OBVIOUS
<1>17. RowIsOK(row)'  BY <1>4 DEF RowIsOK, Recorded
<1>18. ButtonJobOK' /\ RowOK' /\ SenderOK' /\ sender' \in SenderType
  <2>1. job \in {"trade", "open", "stale"} =>
               /\ RowIsOK(row)' /\ row.notified + (IF job = "trade" THEN 1 ELSE 0) = cursor'
               /\ job = "stale" => row.waiting = 0 \/ row.blocked
    BY <1>1, <1>16, <1>17
  <2>2. BlockOpen' => (chat[cycle].open = cursor + 1)' /\ (row.waits => chat'[cycle'].open <= row.settled)
    <3>1. BlockOpen' => chat'[cycle'].open = cursor' + 1 /\ ~row.waits  BY <1>5, <1>14
    <3>2. QED  BY <3>1
  <2>3. sender' = Done(job, row)  BY <1>16
  <2>4. QED  BY <2>1, <2>2, <2>3, DoneSender
<1>19. NoticesTypeOK'
  <2>1. SessionTypes'  BY <1>4 DEF NoticesInv, NoticesTypeOK, SessionTypes, session
  <2>2. ChatTypes'  BY <1>18 DEF NoticesInv, NoticesTypeOK, ChatTypes, Recorded
  <2>3. ColumnTypes'
    <3>1. waiting # 0 => chat'[waiting].kind = "waiting"
      <4>1. waiting # 0 => waiting \in 1..Len(chat) /\ chat[waiting].kind = "waiting"
        BY DEF NoticesInv, NoticesTypeOK, ColumnTypes, ChatTypes
      <4>2. QED  BY <4>1 DEF Recorded
    <3>2. Len(chat') = Len(chat) /\ cycle' \in 1..Len(chat) /\ from' \in Nat /\ from' # 0
      BY <1>2 DEF Recorded
    <3>3. QED  BY <1>4, <3>1, <3>2 DEF NoticesInv, NoticesTypeOK, ColumnTypes
  <2>4. QED  BY <2>1, <2>2, <2>3 DEF NoticesTypeOK
<1>20. QED  BY <1>7, <1>8, <1>9, <1>12, <1>13, <1>15, <1>18, <1>19 DEF NoticesInv

\* A new waiting message is recorded.
LEMMA RecordedWaiting ==
  ASSUME NoticesInv, sender.at = "record", sender.job = "waiting", NEW m \in 1..Len(chat),
         m = sender.target, Recorded(m), slot = sender.slot, waiting = 0, waiting' = m, sender' = Idle,
         UNCHANGED <<cycle, from, session, cursor, mark, slot, card, closed, summary, blocked, graceOver,
                     faults, told>>
  PROVE  NoticesInv'
<1>1. ~BlockOpen /\ ~closed /\ sender.slot \in Nat
  BY CallFacts, SenderTypes DEF BlockJob
<1>2. /\ ~chat[m].known /\ chat[m].kind = "waiting" /\ chat[m].handed # "yes"
  BY DEF NoticesInv, SenderOK, RecordOK, TargetOK, BlockJob
<1>3. UNCHANGED <<status, trades, intent, waits>>  BY DEF session
<1>4. cycle # 0 => cycle # m /\ cycle \in 1..Len(chat) /\ chat'[cycle] = chat[cycle]
  BY <1>2 DEF NoticesInv, CycleOK, NoticesTypeOK, ColumnTypes, Recorded
<1>5. SessionOK' /\ ToldOK'  BY <1>1, <1>3 DEF NoticesInv, SessionOK, Finished, ToldOK
<1>6. ChatOK'
  <2>1. ASSUME NEW n \in 1..Len(chat), n # m
        PROVE  ~(chat[n].kind = "waiting" /\ chat[n].known /\ chat[n].live /\ ~chat[n].stray
                   /\ chat[n].handed = "no")
    BY <2>1 DEF NoticesInv, ChatOK
  <2>2. QED  BY <1>2, <1>3, <2>1 DEF NoticesInv, ChatOK, Recorded
<1>7. CycleOK'  BY <1>3, <1>4 DEF NoticesInv, CycleOK, OneCycle
<1>8. \A n \in 1..Len(chat') : chat'[n].kind = "cycle" => n # m /\ n \in 1..Len(chat) /\ chat'[n] = chat[n]
  BY <1>2 DEF Recorded
<1>9. BlocksOK'  BY <1>8 DEF NoticesInv, BlocksOK, OpenButton
<1>10. NoRepeatedBlock'
  <2>1. DOMAIN chat' = 1..Len(chat') /\ DOMAIN chat = 1..Len(chat)
    BY ChatDomain DEF Recorded, NoticesInv, NoticesTypeOK
  <2>2. QED  BY <1>8, <2>1 DEF NoticesInv, NoRepeatedBlock
<1>11. ~BlockOpen'  BY <1>1, <1>4 DEF BlockOpen, OpenButton
<1>12. ButtonJobOK' /\ RowOK' /\ SenderOK'  BY <1>11, IdleSender
<1>13. NoticesTypeOK'
  <2>1. SessionTypes'  BY <1>3 DEF NoticesInv, NoticesTypeOK, SessionTypes, session
  <2>2. ChatTypes'  BY IdleFields DEF NoticesInv, NoticesTypeOK, ChatTypes, Recorded
  <2>3. ColumnTypes'
    BY <1>1, <1>2, <1>3 DEF NoticesInv, NoticesTypeOK, ColumnTypes, Recorded, NoSlot
  <2>4. QED  BY <2>1, <2>2, <2>3 DEF NoticesTypeOK
<1>14. QED  BY <1>5, <1>6, <1>7, <1>9, <1>10, <1>11, <1>12, <1>13 DEF NoticesInv, ButtonOK

\* The record of a message sent.
LEMMA RecordKeeps == ASSUME NoticesInv, Record PROVE NoticesInv'
<1>1. /\ sender.at = "record"
      /\ UNCHANGED <<session, cursor, mark, slot, card, closed, summary, blocked, graceOver, faults, told>>
  BY DEF Record
<1>2. /\ sender.row \in RowType /\ sender.job \in {"trade", "open", "waiting", "summary"}
      /\ sender.job # "summary" => RowIsOK(sender.row)
  BY <1>1, CallFacts
<1>3. sender.target \in 1..Len(chat)  BY <1>1 DEF NoticesInv, SenderOK, RecordOK
<1>4. PICK m \in 1..Len(chat) : m = sender.target  BY <1>3
<1>5. CASE /\ BlockJob /\ cycle' = m /\ from' = sender.first /\ chat' = [chat EXCEPT ![m].known = TRUE]
           /\ sender' = Done(sender.job, [sender.row EXCEPT !.due = IF sender.row.waiting = 0
                                                                   THEN sender.row.waits ELSE @])
           /\ UNCHANGED waiting
  <2> DEFINE new == [sender.row EXCEPT !.due = IF sender.row.waiting = 0 THEN sender.row.waits ELSE @]
  <2>1. /\ new \in RowType /\ new.notified = sender.row.notified /\ new.waits = sender.row.waits
        /\ new.settled = sender.row.settled /\ new.open = sender.row.open
        /\ new.waiting = sender.row.waiting /\ new.blocked = sender.row.blocked
        /\ new.stale = sender.row.stale /\ new.due \in {sender.row.due, sender.row.waits}
    BY <1>2 DEF RowType
  <2>2. sender' = Done(sender.job, new)  BY <1>5
  <2> HIDE DEF new
  <2>3. PICK row \in RowType : row = new  BY <2>1
  <2>4. RowIsOK(row)  BY <1>2, <1>5, <2>1, <2>3 DEF RowIsOK, BlockJob
  <2>5. Recorded(m)  BY <1>5, KnownRecords
  <2>6. QED  BY <1>1, <1>4, <1>5, <2>1, <2>2, <2>3, <2>4, <2>5, RecordedBlock
<1>6. CASE /\ sender.job = "waiting" /\ slot = sender.slot /\ waiting = 0 /\ waiting' = m
           /\ chat' = [chat EXCEPT ![m].known = TRUE] /\ sender' = Idle /\ UNCHANGED <<cycle, from>>
  <2>1. Recorded(m)  BY <1>6, KnownRecords
  <2>2. QED  BY <1>1, <1>4, <1>6, <2>1, RecordedWaiting
<1>7. CASE sender.job = "waiting" /\ chat' \in {chat, Gone(m)} /\ sender' = Idle
           /\ UNCHANGED <<cycle, from, waiting>>
  <2>1. UNCHANGED columns /\ UNCHANGED worldVars  BY <1>1, <1>7 DEF columns, worldVars, session
  <2>2. ~BlockOpen  BY <1>1, <1>7, CallFacts DEF BlockJob
  <2>3. Faded /\ RepliesStay
    <3>1. CASE chat' = chat  BY <2>1, <3>1, StillWorld
    <3>2. CASE chat' = Gone(m)
      <4>1. Went(m)  BY <3>2, GoneFades DEF NoticesInv, NoticesTypeOK
      <4>2. chat[m].handed # "yes"  BY <1>1, <1>4 DEF NoticesInv, SenderOK, TargetOK
      <4>3. QED  BY <4>1, <4>2 DEF Went, RepliesStay, NoticesInv, ChatOK
    <3>3. QED  BY <1>7, <3>1, <3>2
  <2>4. ~BlockOpen'  BY <2>1, <2>2, <2>3, FadedWorld
  <2>5. ButtonJobOK' /\ RowOK' /\ SenderOK'  BY <1>7, <2>4, IdleSender
  <2>6. QED  BY <1>1, <1>7, <2>1, <2>3, <2>5, BlockedType, IdleFields, RemovalStep
<1>8. QED  BY <1>4, <1>5, <1>6, <1>7 DEF Record, BlockJob

-----------------------------------------------------------------------------
(* The invariant and what it means to the owner *)

\* A session that begins has no messages.
LEMMA NoticesInitOK == NoticesInit => NoticesInv
<1> SUFFICES ASSUME NoticesInit PROVE NoticesInv  OBVIOUS
<1>1. /\ status = "active" /\ noSignal = FALSE /\ trades = <<>> /\ intent = "none" /\ waits = FALSE
      /\ cursor = 0 /\ cycle = 0 /\ from = 0 /\ mark = 0 /\ waiting = 0 /\ slot = NoSlot /\ card = 0
      /\ closed = FALSE /\ summary = "no" /\ blocked = FALSE /\ graceOver = FALSE
      /\ chat = <<>> /\ sender = Idle /\ faults = 0 /\ told = [k \in 1..MaxResults |-> 0]
  BY DEF NoticesInit
<1>2. Len(chat) = 0 /\ 1..Len(chat) = {} /\ DOMAIN chat = {} /\ Len(trades) = 0  BY <1>1
<1>3. MaxResults \in Nat  BY NoticesAssumption
<1>4. sender \in SenderType /\ sender.at = "idle" /\ sender.job = "none" /\ sender.open = 0
  BY <1>1, IdleFields DEF Idle
<1>5. NoticesTypeOK
  <2>1. SessionTypes
    <3>1. trades \in Seq({"won", "lost"}) /\ Len(trades) <= MaxResults  BY <1>1, <1>2, <1>3
    <3>2. noSignal \in BOOLEAN /\ waits \in BOOLEAN /\ blocked \in BOOLEAN /\ graceOver \in BOOLEAN
      BY <1>1, Zenon
    <3>3. status \in {"active", "stopped"} /\ intent \in {"none", "queued", "open"} /\ faults \in Nat
      BY <1>1
    <3>4. QED  BY <3>1, <3>2, <3>3 DEF SessionTypes
  <2>2. ChatTypes  BY <1>1, <1>4 DEF ChatTypes
  <2>3. ColumnTypes
    <3>1. /\ cursor \in 0..Len(trades) /\ mark \in 0..(Len(trades) + 1) /\ cycle \in 0..Len(chat)
          /\ waiting \in 0..Len(chat) /\ card \in 0..Len(chat) /\ from \in Nat /\ cycle = 0 /\ from = 0
          /\ waiting = 0 /\ slot \in Nat \cup {NoSlot} /\ summary \in {"no", "bot", "text", "nothing"}
      BY <1>1, <1>2
    <3>2. closed \in BOOLEAN  BY <1>1, Zenon
    <3>3. QED  BY <3>1, <3>2 DEF ColumnTypes
  <2>4. QED  BY <2>1, <2>2, <2>3 DEF NoticesTypeOK
<1>6. ~BlockOpen  BY <1>1 DEF BlockOpen
<1>7. SessionOK /\ ToldOK  BY <1>1 DEF SessionOK, ToldOK
<1>8. ChatOK /\ BlocksOK /\ NoRepeatedBlock  BY <1>2 DEF ChatOK, BlocksOK, NoRepeatedBlock
<1>9. CycleOK /\ ButtonOK /\ ButtonJobOK  BY <1>1, <1>6 DEF CycleOK, ButtonOK, ButtonJobOK
<1>10. RowOK  BY <1>4 DEF RowOK, InTurn
<1>11. SenderOK
  <2>1. StepOK  BY <1>4 DEF StepOK, Removing, Calls
  <2>2. ClaimOK /\ BlockOK  BY <1>4 DEF ClaimOK, BlockOK, BlockJob
  <2>3. TargetOK /\ RecordOK  BY <1>4 DEF TargetOK, RecordOK, Removing
  <2>4. QED  BY <2>1, <2>2, <2>3 DEF SenderOK
<1>12. QED  BY <1>5, <1>7, <1>8, <1>9, <1>10, <1>11 DEF NoticesInv

\* Every step keeps the invariant.
LEMMA NoticesNextKeeps == ASSUME NoticesInv, [NoticesNext]_noticesVars PROVE NoticesInv'
<1>1. CASE NewIntent \/ IntentMoves \/ NoSignal \/ Stop
  BY <1>1, NewIntentKeeps, IntentMovesKeeps, NoSignalKeeps, StopKeeps
<1>2. CASE SendCard \/ RecordCard \/ Press \/ BotSummary \/ OwnerDeletes \/ Unblock \/ GracePasses
  BY <1>2, SendCardKeeps, RecordCardKeeps, PressKeeps, BotSummaryKeeps, OwnerDeletesKeeps, UnblockKeeps
<1>3. CASE Turn
  <2>1. CASE List \/ EndTurn \/ ClaimTrade \/ ClaimOpen \/ ClaimWaiting \/ StaleWaiting \/ Close
    BY <2>1, ListKeeps, EndTurnKeeps, ClaimTradeKeeps, ClaimOpenKeeps, ClaimWaitingKeeps,
       StaleWaitingKeeps, CloseKeeps
  <2>2. CASE ListCaption \/ ReReadCaption \/ EditCaption
    BY <2>2, ListCaptionKeeps, CaptionKeeps
  <2>3. CASE ReRead \/ Delete \/ Clear \/ Send \/ Edit \/ Record \/ Release
    BY <2>3, ReReadKeeps, DeleteKeeps, ClearKeeps, SendKeeps, EditKeeps, RecordKeeps, ReleaseKeeps
  <2>4. QED  BY <1>3, <2>1, <2>2, <2>3 DEF Turn
<1>4. CASE ClaimFallback \/ Crash  BY <1>4, ClaimFallbackKeeps, CrashKeeps
<1>5. CASE UNCHANGED noticesVars
  <2>1. UNCHANGED <<session, columns, blocked, graceOver, chat, sender, faults, told>>
    BY <1>5 DEF noticesVars
  <2>2. /\ UNCHANGED <<status, noSignal, trades, intent, waits, cursor, cycle, from, mark, waiting, slot,
                       card, closed, summary, blocked, graceOver, chat, sender, faults, told>>
    BY <2>1 DEF session, columns
  <2>3. NoticesTypeOK' /\ SessionOK'
    BY <2>2 DEF NoticesInv, NoticesTypeOK, SessionTypes, ChatTypes, ColumnTypes, SessionOK, Finished
  <2>4. QED  BY <2>2, <2>3, CalmKeeps
<1>6. QED  BY <1>1, <1>2, <1>3, <1>4, <1>5 DEF NoticesNext

\* A waiting message with a live button is the recorded one, a block's button is the cycle message's,
\* and the two do not stand together.
LEMMA ButtonsAre ==
  ASSUME NoticesInv
  PROVE  \E b : Buttons \subseteq {b}
<1>1. DOMAIN chat = 1..Len(chat)  BY ChatDomain DEF NoticesInv, NoticesTypeOK
<1>2. ASSUME NEW m \in Buttons
      PROVE  (chat[m].kind = "waiting" /\ m = waiting) \/ (m = cycle /\ BlockOpen)
  <2>1. /\ m \in 1..Len(chat) /\ chat[m].live /\ chat[m].known /\ ~chat[m].stray /\ chat[m].handed = "no"
        /\ chat[m].kind = "waiting" \/ chat[m].open # 0
    BY <1>1, <1>2 DEF Buttons
  <2>2. CASE chat[m].kind = "waiting"  BY <2>1, <2>2 DEF NoticesInv, ChatOK
  <2>3. CASE chat[m].kind # "waiting"
    <3>1. chat[m].kind = "cycle" /\ OpenButton(m)  BY <2>1, <2>3 DEF NoticesInv, ChatOK, OpenButton
    <3>2. m = cycle  BY <2>1, <3>1 DEF NoticesInv, BlocksOK
    <3>3. QED  BY <2>1, <3>1, <3>2 DEF BlockOpen
  <2>4. QED  BY <2>2, <2>3
<1>3. CASE BlockOpen
  <2>1. \A m \in Buttons : m = cycle
    <3>1. waiting = 0  BY <1>3 DEF NoticesInv, ButtonOK
    <3>2. \A m \in Buttons : m # 0  BY <1>1 DEF Buttons
    <3>3. QED  BY <1>2, <3>1, <3>2
  <2>2. QED  BY <2>1
<1>4. CASE ~BlockOpen
  <2>1. \A m \in Buttons : m = waiting  BY <1>2, <1>4
  <2>2. QED  BY <2>1
<1>5. QED  BY <1>3, <1>4

\* The invariant is what the owner may rely on.
LEMMA NoticesInvMeans == NoticesInv => NoticesSafe
<1> SUFFICES ASSUME NoticesInv PROVE NoticesSafe  OBVIOUS
<1>1. DOMAIN chat = 1..Len(chat)  BY ChatDomain DEF NoticesInv, NoticesTypeOK
<1>2. NoticesTypeOK /\ NoRepeatedBlock  BY DEF NoticesInv
<1>3. ToldOnce
  <2>1. DOMAIN told = 1..MaxResults  BY DEF NoticesInv, NoticesTypeOK, ChatTypes
  <2>2. QED  BY <2>1 DEF NoticesInv, ToldOK, ToldOnce
<1>4. OneStopButton
  <2>1. PICK b : Buttons \subseteq {b}  BY ButtonsAre
  <2>2. IsFiniteSet({b}) /\ Cardinality({b}) = 1  BY FS_Singleton
  <2>3. Cardinality(Buttons) <= Cardinality({b})  BY <2>1, <2>2, FS_Subset
  <2>4. QED  BY <2>2, <2>3 DEF OneStopButton
<1>5. SummaryIsLast
  <2>1. closed => cursor = Len(trades) /\ waiting = 0  BY DEF NoticesInv, SessionOK
  <2>2. \A m \in Buttons : chat[m].kind = "waiting" => m = waiting /\ m # 0
    <3>1. ASSUME NEW m \in Buttons, chat[m].kind = "waiting" PROVE m = waiting /\ m # 0
      <4>1. /\ m \in 1..Len(chat) /\ chat[m].live /\ chat[m].known /\ ~chat[m].stray
            /\ chat[m].handed = "no"
        BY <1>1 DEF Buttons
      <4>2. QED  BY <3>1, <4>1 DEF NoticesInv, ChatOK
    <3>2. QED  BY <3>1
  <2>3. \A m \in DOMAIN chat : chat[m].kind = "summary" => \A n \in DOMAIN chat : ~(n > m)
    <3>1. ASSUME NEW m \in 1..Len(chat), chat[m].kind = "summary", NEW n \in 1..Len(chat) PROVE ~(n > m)
      <4>1. m = Len(chat)  BY <3>1 DEF NoticesInv, ChatOK
      <4>2. QED  BY <4>1
    <3>2. QED  BY <1>1, <3>1
  <2>4. QED  BY <2>1, <2>2, <2>3 DEF SummaryIsLast
<1>6. ReplyStays  BY <1>1 DEF NoticesInv, ChatOK, ReplyStays
<1>7. QED  BY <1>2, <1>3, <1>4, <1>5, <1>6 DEF NoticesSafe

\* What the messages of a session are to its owner (session-notices.ts, session-notice-ops.ts), for
\* any number of trades, cards, waits and faults: a result is told at most once, no two recorded cycle
\* messages show one trade, at most one stop button stands, nothing follows the summary, and the
\* message the stop's reply was drawn in stays.
THEOREM NoticesStaySafe == NoticesSpec => []NoticesSafe
<1>1. NoticesInv /\ [NoticesNext]_noticesVars => NoticesInv'  BY NoticesNextKeeps
<1>2. QED  BY <1>1, NoticesInitOK, NoticesInvMeans, PTL DEF NoticesSpec
=============================================================================
