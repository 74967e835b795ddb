---------------------------- MODULE IntentStoreMC ----------------------------
(***************************************************************************)
(* A small instance of IntentStore: a user with one account, a demo        *)
(* session's intent and a real intent of the bot that compete for its live *)
(* slot, its token and its trade.                                          *)
(***************************************************************************)
EXTENDS IntentStore, TLC

CONSTANTS u1, a1, i1, i2, s1, t1

DemoTerms == [mode |-> "demo", side |-> "s1", amount |-> 1]
RealTerms == [mode |-> "real", side |-> "s1", amount |-> 1]

ModeTerms    == {DemoTerms, RealTerms}
OneAccountOf == i1 :> a1 @@ i2 :> a1
OneOwner     == a1 :> u1
DemoReal     == i1 :> DemoTerms @@ i2 :> RealTerms
FirstSession == i1 :> s1 @@ i2 :> NoSession
S1Account    == s1 :> a1
S1Mode       == s1 :> "demo"

=============================================================================
