-------------------------- MODULE IntentPipelineMC --------------------------
(***************************************************************************)
(* Small instances of IntentPipeline: one account; one intent with every   *)
(* slot doubled, or three intents in turn.                                 *)
(***************************************************************************)
EXTENDS IntentPipeline, TLC

CONSTANTS u1, a1, s1, i1, i2, i3, w1, w2, r1

DemoTerms == [mode |-> "demo", side |-> "s1", amount |-> 1]
NearTerms == [mode |-> "demo", side |-> "s1", amount |-> 2]
RealTerms == [mode |-> "real", side |-> "s1", amount |-> 1]

DemoOnlyTerms == {DemoTerms}
RoundedTerms  == {DemoTerms, NearTerms}
MixedTerms    == {DemoTerms, NearTerms, RealTerms}

Owner      == a1 :> u1
OneOf      == i1 :> a1
ThreeOf    == i1 :> a1 @@ i2 :> a1 @@ i3 :> a1
OneDemo    == i1 :> DemoTerms
ThreeTerms == i1 :> DemoTerms @@ i2 :> DemoTerms @@ i3 :> RealTerms
OneBot     == i1 :> NoSession
EntryFirst == i1 :> s1 @@ i2 :> NoSession @@ i3 :> NoSession
NoSessions == << >>
S1Account  == s1 :> a1
S1Mode     == s1 :> "demo"

SlotSymmetry == Permutations(Workers) \cup Permutations(Replicas)

=============================================================================
