----------------------------- MODULE TradePages -----------------------------
(***************************************************************************)
(* How the reconciler reads the broker's trade lists while they change, and  *)
(* what it concludes.  An attempt reads the open list, then the closed one,  *)
(* page by page; between two requests trades open, close and move from one   *)
(* list to the other.  `found` links a trade, a proof of absence in two      *)
(* attempts gives the token back.  Assumptions about the broker (A1, A2, A3  *)
(* of docs/broker-rest.md) are constants, so that each property says which   *)
(* of them it needs.                                                         *)
(***************************************************************************)
EXTENDS Integers, FiniteSets, Sequences, SequencesExt

CONSTANTS
  Trades,           \* the account's trades of the mode; a trade is its open_timestamp
  Matching,         \* those with the intent's asset, direction and amount, not linked
  Ours,             \* the trade of the order, if it comes to exist
  WindowStart,      \* submitted_at - windowBeforeMs
  MaxPages,
  PageSize,
  Caps,             \* A2: the lengths the broker may cut a page to
  NewestFirst,      \* A1
  OffsetHonoured,   \* A2
  MaxGap,           \* A3: ticks a closing trade may be on neither list
  Retry,            \* the lease, in ticks
  Timeout,          \* the attempt's deadline, in ticks
  MaxPagesFaults         \* bound: failed attempts and restarts

ASSUME PagesAssumption ==
  /\ Trades \subseteq Nat /\ IsFiniteSet(Trades)
  /\ Matching \subseteq Trades /\ Ours \in Matching
  /\ \A t \in Matching : t >= WindowStart
  /\ MaxPages \in Nat \ {0} /\ PageSize \in Nat \ {0} /\ Caps \subseteq 1..PageSize
  /\ WindowStart \in Nat
  /\ {MaxGap, Retry, Timeout, MaxPagesFaults} \subseteq Nat
  /\ {NewestFirst, OffsetHonoured} \subseteq BOOLEAN
  \* the reads of two attempts are further apart than a trade stays between the lists
  /\ Timeout < Retry /\ MaxGap < Retry - Timeout

VARIABLES
  book,             \* where each trade is at the broker
  gap,              \* ticks the trade "between" has been there
  over,             \* the window has closed by the database clock
  rec,              \* the attempt
  age,              \* ticks since the claim
  absent,           \* absentSince: absence was proved once
  answer,           \* what ended the intent's reconciliation
  pagesFaults

pagesVars == <<book, gap, over, rec, age, absent, answer, pagesFaults>>

Places == {"none", "open", "between", "closed"}
Answers == {"none", "found", "parked", "released"}

\* A list as the broker gives it, newest first or, if A1 fails, oldest first: there is one.
BrokerLists(status) ==
  LET listed == {t \in Trades : book[t] = status}
      size == Cardinality(listed)
  IN {list \in [1..size -> listed] :
        \A i, j \in 1..size : i < j => IF NewestFirst THEN list[i] > list[j] ELSE list[i] < list[j]}

\* Mutant: the closed list first; a trade that closes between the two reads is on neither.
ListOrder_ClosedFirst == <<"closed", "open">>

\* decide asks for the open list, then for the closed one.
ListOrder == <<"open", "closed">>

Unread == [seen |-> {}, prev |-> <<>>, offset |-> 0, pages |-> 0, covered |-> FALSE,
           proof |-> FALSE]

\* Two ghosts: the trades that existed when the attempt was claimed, and that A2 and A3 held since:
\* no trade was on neither list, no page was cut to one trade of several.
NoAttempt == [pc |-> "idle", list |-> 1, read |-> [k \in {1, 2} |-> Unread], over |-> FALSE,
              before |-> {}, smooth |-> TRUE]

Exists == {t \in Trades : book[t] # "none"}
Moving == \E t \in Trades : book[t] = "between"

PagesInit ==
  /\ book \in [Trades -> {"none", "open", "closed"}]
  /\ gap = 0 /\ over \in BOOLEAN
  /\ rec = NoAttempt /\ age = Retry
  /\ absent = FALSE /\ answer = "none" /\ pagesFaults = 0

-----------------------------------------------------------------------------
(* The broker                                                              *)

\* Timestamps grow; the order is decided before its window closes.
OpenTrade(t) ==
  /\ book[t] = "none" /\ \A u \in Exists : u < t
  /\ t = Ours => ~over
  /\ book' = [book EXCEPT ![t] = "open"]
  /\ UNCHANGED <<gap, over, rec, age, absent, answer, pagesFaults>>

CloseTrade(t) ==
  /\ book[t] = "open"
  /\ \/ book' = [book EXCEPT ![t] = "closed"] /\ UNCHANGED <<gap, rec>>
     \/ /\ MaxGap > 0 /\ ~Moving
        /\ book' = [book EXCEPT ![t] = "between"] /\ gap' = 0
        /\ rec' = [rec EXCEPT !.smooth = (rec.pc = "idle")]
  /\ UNCHANGED <<over, age, absent, answer, pagesFaults>>

Appear(t) ==
  /\ book[t] = "between"
  /\ book' = [book EXCEPT ![t] = "closed"] /\ gap' = 0
  /\ UNCHANGED <<over, rec, age, absent, answer, pagesFaults>>

WindowCloses ==
  /\ ~over /\ over' = TRUE
  /\ UNCHANGED <<book, gap, rec, age, absent, answer, pagesFaults>>

\* An attempt does not outlive its deadline, nor a trade between the lists the gap.
Tick ==
  /\ age < Retry
  /\ rec.pc # "idle" => age < Timeout
  /\ Moving => gap < MaxGap
  /\ age' = age + 1
  /\ gap' = IF Moving THEN gap + 1 ELSE gap
  /\ UNCHANGED <<book, over, rec, absent, answer, pagesFaults>>

-----------------------------------------------------------------------------
(* readTradePages                                                          *)

\* The page at an offset, cut by the broker to a cap.
PageAt(list, offset, cap) ==
  SubSeq(list, offset + 1, IF offset + cap < Len(list) THEN offset + cap ELSE Len(list))

StopAt(t) == t < WindowStart

Older(t, u) == t <= u

\* After the first page, a page starts with a trade already read; nothing follows a one-trade page.
Continuous(r, items) == Len(r.prev) # 1 /\ items[1] \in r.seen

\* The checks of a page that is not empty: order, continuity, seam, progress.
PageHolds(r, items) ==
  LET fresh == {k \in 1..Len(items) : items[k] \notin r.seen}
  IN /\ \A k \in 2..Len(items) : Older(items[k], items[k - 1])
     /\ r.prev # <<>> =>
          /\ Continuous(r, items)
          /\ \A k \in fresh : (\A j \in fresh : k <= j) => Older(items[k], Last(r.prev))
     /\ fresh = {} => Len(items) = 1

\* A first page proves the list's end: empty, or strictly newest first down to an older trade.
Proof(r, items) == r.pages = 0 /\ (items # <<>> => items[1] > Last(items))

LastPage(r) == r.pages = MaxPages

\* What a page makes of the reader: "again" for the next page, "done", or "error".
PageRead(r, items) ==
  LET read == [r EXCEPT !.pages = @ + 1, !.seen = @ \cup ToSet(items), !.prev = items,
                        !.offset = @ + (IF Len(items) >= 2 THEN Len(items) - 1 ELSE 1)]
      end == [read EXCEPT !.covered = TRUE, !.proof = Proof(r, items)]
  IN IF items = <<>>
       THEN IF Len(r.prev) >= 2 THEN <<"error", r>> ELSE <<"done", end>>
     ELSE IF ~PageHolds(r, items) THEN <<"error", r>>
     ELSE IF ToSet(items) \subseteq r.seen \/ \E t \in ToSet(items) : StopAt(t) THEN <<"done", end>>
     ELSE IF LastPage(read) THEN <<"done", read>> ELSE <<"again", read>>

Drop == rec' = NoAttempt /\ absent' = FALSE

Claim ==
  /\ answer = "none" /\ rec.pc = "idle" /\ age = Retry
  /\ rec' = [NoAttempt EXCEPT !.pc = "reading", !.over = over, !.before = Exists,
                               !.smooth = ~Moving]
  /\ age' = 0
  /\ UNCHANGED <<book, gap, over, absent, answer, pagesFaults>>

\* One request of the list being read, and what its answer leads to.
Request(list, offset, cap) ==
  LET r == rec.read[rec.list]
      items == PageAt(list, offset, cap)
      res == PageRead(r, items)
      next == [rec EXCEPT !.read[rec.list] = res[2],
                          !.smooth = @ /\ (Len(items) = 1 => offset + 1 = Len(list))]
  IN \/ res[1] = "error" /\ Drop
     \/ res[1] = "again" /\ rec' = next /\ UNCHANGED absent
     \/ /\ res[1] = "done" /\ UNCHANGED absent
        /\ rec' = IF rec.list = 1 THEN [next EXCEPT !.list = 2] ELSE [next EXCEPT !.pc = "deciding"]

ReadPage ==
  /\ rec.pc = "reading"
  /\ LET from == rec.read[rec.list].offset
     IN \E list \in BrokerLists(ListOrder[rec.list]), cap \in Caps :
          \E offset \in IF OffsetHonoured \/ from = 0 THEN {from} ELSE 0..Len(list) :
            Request(list, offset, cap)
  /\ UNCHANGED <<book, gap, over, age, answer, pagesFaults>>

-----------------------------------------------------------------------------
(* decide, confirmAbsence, reconcile                                       *)

Seen == rec.read[1].seen \cup rec.read[2].seen
Covered == rec.read[1].covered /\ rec.read[2].covered
Exact == Seen \cap Matching

Found == Cardinality(Exact) = 1 /\ Covered

Confirmed == absent

Release == absent' = FALSE /\ answer' = "released"

Absence ==
  \/ Confirmed /\ Release
  \/ ~Confirmed /\ absent' = TRUE /\ UNCHANGED answer

\* A demo intent; the executor saw no mismatch and no near match is there.
Decide ==
  /\ rec.pc = "deciding"
  /\ rec' = NoAttempt
  /\ LET open == rec.over = FALSE
         proof == rec.read[1].proof /\ rec.read[2].proof
     IN \/ /\ Cardinality(Exact) > 1
           /\ answer' = "parked" /\ absent' = FALSE
        \/ /\ Found
           /\ answer' = "found" /\ absent' = FALSE
        \/ /\ Cardinality(Exact) <= 1 /\ ~Found /\ open
           /\ absent' = FALSE /\ UNCHANGED answer
        \/ /\ Cardinality(Exact) <= 1 /\ ~Found /\ ~open
           /\ IF Exact = {} /\ proof THEN Absence
              ELSE answer' = "parked" /\ absent' = FALSE
  /\ UNCHANGED <<book, gap, over, age, pagesFaults>>

\* The deadline: the pass gives the attempt up, which then neither records nor forgets a proof.
AttemptTimesOut ==
  /\ rec.pc # "idle" /\ age = Timeout
  /\ pagesFaults < MaxPagesFaults /\ pagesFaults' = pagesFaults + 1
  /\ rec' = NoAttempt
  /\ UNCHANGED <<book, gap, over, age, absent, answer>>

\* The broker or the backend refuses a request, or the worker restarts.
Fail ==
  /\ rec.pc = "reading"
  /\ pagesFaults < MaxPagesFaults /\ pagesFaults' = pagesFaults + 1
  /\ Drop
  /\ UNCHANGED <<book, gap, over, age, answer>>

Broker ==
  \/ \E t \in Trades : OpenTrade(t) \/ CloseTrade(t) \/ Appear(t)
  \/ WindowCloses \/ Tick

Attempt == Claim \/ ReadPage \/ Decide \/ AttemptTimesOut \/ Fail

PagesNext == answer = "none" /\ (Broker \/ Attempt)

PagesSpec == PagesInit /\ [][PagesNext]_pagesVars

-----------------------------------------------------------------------------
\* An attempt makes at most the GETs that its reservation counts (intents/config.ts:178).
PagesTypeOK ==
  /\ book \in [Trades -> Places] /\ answer \in Answers
  /\ age \in 0..Retry /\ gap \in 0..MaxGap /\ pagesFaults \in 0..MaxPagesFaults
  /\ {over, absent, rec.over, rec.smooth} \subseteq BOOLEAN
  /\ rec.pc \in {"idle", "reading", "deciding"} /\ rec.list \in {1, 2}
  /\ \A k \in {1, 2} : rec.read[k].pages \in 0..MaxPages /\ rec.read[k].seen \subseteq Trades

\* The trade answered as found has no twin: no other trade with the same terms existed when the
\* attempt began, though the two lists are read one after the other (rest-reconciler.ts:239-241),
\* if meanwhile no trade was on neither list and no page was cut to one trade (A3, A2).
FoundIsAlone ==
  answer' = "found" /\ rec.smooth =>
    Cardinality(Exact) = 1 /\ rec.before \cap Matching \subseteq Exact

\* The token is given back only when the order has no trade, even if the broker moves a closing
\* trade over a gap, cuts pages, ignores offsets or lists oldest first (docs/broker-rest.md, A1-A3).
ReleasedHasNoTrade == answer = "released" => book[Ours] = "none"

\* The token is given back only when the order has no trade, however the broker cuts and orders its
\* pages; an attempt that finds the trade of the order finds no twin of it, under A2 and A3.
PagesSafe ==
  [](PagesTypeOK /\ ReleasedHasNoTrade) /\ [][FoundIsAlone]_pagesVars

=============================================================================
