----------------------------- MODULE ReconcileMC -----------------------------
(***************************************************************************)
(* Small instances of three comparisons with the broker that share no      *)
(* state: the check of a balance against the broker's open trades, the     *)
(* attempt that pages through the lists for the trade of an unknown order, *)
(* of which there is a twin, the writers of the balance row.  A behaviour  *)
(* is of one of them.                                                      *)
(***************************************************************************)
EXTENDS BalanceCheck, BalanceRow, TradePages

VARIABLES
  part              \* the component the behaviour is of

ASSUME PartsAssumption == RowAssumption

-----------------------------------------------------------------------------
Parts == {"check", "pages", "row"}

PartsInit ==
  /\ part \in Parts
  /\ Init /\ RowInit /\ PagesInit
  /\ part # "pages" => ~over /\ \A t \in Trades : book[t] = "none"

\* One component moves and the others stay in their initial states.
PartsNext ==
  /\ UNCHANGED part
  /\ \/ part = "check" /\ Next /\ UNCHANGED <<pagesVars, rowVars>>
     \/ part = "pages" /\ PagesNext /\ UNCHANGED <<vars, rowVars>>
     \/ part = "row" /\ RowNext /\ UNCHANGED <<vars, pagesVars>>

PartsSpec == PartsInit /\ [][PartsNext]_<<part, vars, pagesVars, rowVars>>

=============================================================================
