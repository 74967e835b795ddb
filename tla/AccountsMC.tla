----------------------------- MODULE AccountsMC -----------------------------
(***************************************************************************)
(* Small instances of four parts of a user's account that share no state   *)
(* in a run: the linking of a broker account and its deposits, its token   *)
(* pair, the mode a deposit switches, the payments in stars.  A behaviour  *)
(* is of one of them.                                                      *)
(***************************************************************************)
EXTENDS TokenService, AccountLink, DepositModeSwitch, StarPayments, TLC

VARIABLE
  part              \* the component the behaviour is of

\* TokenService: two callers of the backend, one of another process.
Homes  == "c1" :> "p1" @@ "c2" :> "p1" @@ "c3" :> "p2"
User     == [mayRefresh |-> TRUE,  refuses |-> FALSE, serviceOnly |-> FALSE]
Probe    == [mayRefresh |-> FALSE, refuses |-> FALSE, serviceOnly |-> FALSE]
Reporter == [mayRefresh |-> TRUE,  refuses |-> TRUE,  serviceOnly |-> FALSE]
Options == "c1" :> User @@ "c2" :> Reporter @@ "c3" :> Probe
OneKey == [p \in {"p1", "p2"} |-> "key"]

\* AccountLink: two users, the first invited the second; two deposits of one account.
Chain == "u1" :> "nobody" @@ "u2" :> "u1"
TraderOne == "d1" :> "a1" @@ "d2" :> "a1"
PaymentOne == "p1" :> "d1" @@ "p2" :> "d1" @@ "p3" :> "d2"

\* DepositModeSwitch: one user with two accounts and a deposit on each.
OneOwner == [a \in {"a1", "a2"} |-> "u1"]
TwoAccounts == <<"a1", "a2">>

\* StarPayments: one charge of two tokens, reported twice, returned by two desks and the tick.
OneBuyer == [c \in {"charge"} |-> "u1"]
Checks == [c \in {"charge"} |-> {"paid", "held"}]
TwoTokens == [c \in {"charge"} |-> 2]

ASSUME PartsAssumption ==
  /\ TokenAssumption /\ LinkAssumption
  /\ SwitchAssumption /\ StarAssumption

-----------------------------------------------------------------------------
Parts == {"link", "pair", "switch", "stars"}

PartsInit ==
  /\ part \in Parts
  /\ Init /\ LinkInit /\ SwitchInit /\ StarInit
  /\ part # "pair" => row.status = "active" /\ row.intact /\ row.key = "key"

\* One component moves and the others stay in their initial states.
PartsNext ==
  /\ UNCHANGED part
  /\ \/ part = "pair" /\ Next /\ UNCHANGED <<linkVars, switchVars, starVars>>
     \/ part = "link" /\ LinkNext /\ UNCHANGED <<vars, switchVars, starVars>>
     \/ part = "switch" /\ SwitchNext /\ UNCHANGED <<vars, linkVars, starVars>>
     \/ part = "stars" /\ StarNext /\ UNCHANGED <<vars, linkVars, switchVars>>

PartsSpec == PartsInit /\ [][PartsNext]_<<part, vars, linkVars, switchVars, starVars>>

=============================================================================
