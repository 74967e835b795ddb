----------------------------- MODULE TokenEscrow -----------------------------
(***************************************************************************)
(* What the token cache promises, whatever path an intent takes: the token  *)
(* of an intent is held once, and then it is either given back or spent.    *)
(* Nothing else touches the reserve, and the balance never drops below it.  *)
(*                                                                         *)
(* IntentStore implements this specification: see Escrow there.             *)
(***************************************************************************)
EXTENDS Integers, FiniteSets

CONSTANTS Users, Intents,
          Holder,          \* intent -> the user whose token it holds
          InitialBalance

VARIABLES balance,   \* users.token_balance
          reserved,  \* users.token_reserved
          phase      \* where the token of an intent is

vars == <<balance, reserved, phase>>

\* What the constants have to be.
EscrowAssumption ==
  /\ IsFiniteSet(Intents)
  /\ Holder \in [Intents -> Users]
  /\ InitialBalance \in Nat

Phases == {"idle", "held", "released", "consumed"}

TypeOK == /\ balance \in [Users -> Int]
          /\ reserved \in [Users -> Int]
          /\ phase \in [Intents -> Phases]

Init == /\ balance = [u \in Users |-> InitialBalance]
        /\ reserved = [u \in Users |-> 0]
        /\ phase = [i \in Intents |-> "idle"]

\* A reserve needs a token that is neither spent nor held.
Hold(i) == /\ phase[i] = "idle"
           /\ balance[Holder[i]] - reserved[Holder[i]] >= 1
           /\ phase' = [phase EXCEPT ![i] = "held"]
           /\ reserved' = [reserved EXCEPT ![Holder[i]] = @ + 1]
           /\ UNCHANGED balance

Release(i) == /\ phase[i] = "held"
              /\ phase' = [phase EXCEPT ![i] = "released"]
              /\ reserved' = [reserved EXCEPT ![Holder[i]] = @ - 1]
              /\ UNCHANGED balance

Consume(i) == /\ phase[i] = "held"
              /\ phase' = [phase EXCEPT ![i] = "consumed"]
              /\ reserved' = [reserved EXCEPT ![Holder[i]] = @ - 1]
              /\ balance' = [balance EXCEPT ![Holder[i]] = @ - 1]

\* A credit or a debit of the balance, whatever its size, may not eat into the
\* reserve.
Credit(u) == /\ balance'[u] \in Int
             /\ balance'[u] >= reserved[u]
             /\ balance' = [balance EXCEPT ![u] = balance'[u]]
             /\ UNCHANGED <<reserved, phase>>

Next == \/ \E i \in Intents : Hold(i) \/ Release(i) \/ Consume(i)
        \/ \E u \in Users : Credit(u)

Spec == Init /\ [][Next]_vars

-----------------------------------------------------------------------------
HeldBy(u) == {i \in Intents : Holder[i] = u /\ phase[i] = "held"}

\* token_reserved is the number of tokens held, never more than the balance: a
\* release or a settlement can therefore never underflow the cache.
ReserveCovered ==
  \A u \in Users : reserved[u] = Cardinality(HeldBy(u)) /\ reserved[u] <= balance[u]

=============================================================================
