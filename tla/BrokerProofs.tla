---------------------------- MODULE BrokerProofs ----------------------------
(***************************************************************************)
(* The worker processes' connection to the broker: the lease of an          *)
(* account's session, for every set of processes, every pair of times with  *)
(* the fence before the end of the lease, and whatever the timers of the    *)
(* processes do; one process's sessions, for every set of accounts; the       *)
(* socket client under a session, for every set of assets and commands; and *)
(* the market data's two slots, for every list of service accounts.         *)
(*                                                                         *)
(* TrustedIsHeld is not inductive: an answer in flight becomes trust, a     *)
(* release in flight takes the row away.  LeaseInv says what each statement *)
(* in flight still means for its sender; the statements move by six         *)
(* operators, each of which leaves them Sound and weakens them only.        *)
(*                                                                         *)
(* ManagerSafe is not inductive either: a call's answer starts a client, so *)
(* ManagerInv says which call an entry awaits and that an older one cannot  *)
(* be taken for it; and a restart is no loop as long as the entry's token   *)
(* is newer than each the broker refused.                                   *)
(*                                                                         *)
(* SocketInv says what a wire and a queue hold: a trade that went out and   *)
(* was not answered is the one that waits or is tainted, and the queue      *)
(* leads each listener from the state it heard last to the one there is.    *)
(*                                                                         *)
(* FeedInv says that a start is one job, a running client one of its        *)
(* account's, that the timer is set for every deadline to come and that the *)
(* mark is there whenever the feed stands still.  Inside a handler the mark *)
(* and the world go through the rules of reconcile() one by one (Through).  *)
(***************************************************************************)
EXTENDS SessionLease, SessionManager, BrokerSocket, DataSocket, FiniteSetTheorems, SequenceTheorems,
        NaturalsInduction, WellFoundedInduction, TLAPS

Operations == {"acquire", "renew", "releaseOne", "release"}
Statement == [op : Operations, by : Processes, current : BOOLEAN, age : Nat,
              waiting : BOOLEAN, answer : {"none", "ok", "refused"}]
Kinds == {"none", "acquiring", "fetching", "running", "refreshing"}
Entry == [kind : Kinds, current : BOOLEAN, left : Nat, verified : BOOLEAN, shed : Int]

LeaseTypeOK ==
  /\ row \in [owner : Processes \cup {Nobody}, left : Int]
  /\ entry \in [Processes -> Entry]
  /\ alive \subseteq Processes

\* A process awaits one acquire and one renewal at most; a renewal for the lease it has is awaited.
Sound(set) ==
  /\ set \subseteq Statement
  /\ \A s \in set : s.waiting => s.op \in {"acquire", "renew"}
  /\ \A s \in set : s.op = "renew" /\ s.current => s.waiting
  /\ \A s, t \in set : s.waiting /\ t.waiting /\ s.op = t.op /\ s.by = t.by => s = t

\* An acquire is awaited by an entry that is acquiring, a renewal is for the lease of an entry.
AskedByEntry ==
  \A s \in statements :
    /\ s.op = "acquire" /\ s.waiting => entry[s.by].kind = "acquiring"
    /\ s.op = "renew" /\ s.current => HasLease(s.by)

\* While a release would still delete the row, its sender has no lease and no grant on its way.
GivenBack ==
  \A s \in statements :
    s.op = "releaseOne" /\ s.current =>
      /\ ~HasLease(s.by)
      /\ \A t \in statements :
           ~(t.op = "acquire" /\ t.by = s.by /\ t.waiting /\ t.answer = "ok")

\* A process that has ended has no entry and awaits nothing; only then it releases everything.
EndedIsSilent ==
  /\ \A p \in Processes \ alive : entry[p].kind = "none"
  /\ \A s \in statements : /\ s.waiting => s.by \in alive
                           /\ s.op = "release" => s.by \notin alive

\* A grant on its way to a process that will trust it is in the row, for longer.
Grant(s) == /\ s.waiting /\ s.answer = "ok" /\ s.age < Fence
            /\ s.op = "acquire" \/ (s.op = "renew" /\ s.current)
GrantIsHeld ==
  \A s \in statements : Grant(s) => row.owner = s.by /\ row.left > Fence - s.age

LeaseInv == /\ LeaseTypeOK /\ Sound(statements)
            /\ AskedByEntry /\ GivenBack /\ EndedIsSilent
            /\ GrantIsHeld /\ TrustedIsHeld

-----------------------------------------------------------------------------
(* The statements                                                           *)

\* Each statement of new comes from one of old: it is awaited, and for a lease, only if that one was.
Weakens(new, old) ==
  \A t \in new : \E s \in old :
    /\ t.op = s.op /\ t.by = s.by /\ t.answer = s.answer /\ t.age = s.age
    /\ t.waiting => s.waiting
    /\ t.current => s.current

\* Statements that were committed, lost or answered are gone from the set.
LEMMA SubsetSound ==
  ASSUME NEW set, Sound(set), NEW new \in SUBSET set
  PROVE  Sound(new) /\ Weakens(new, set)
BY DEF Sound, Weakens

LEMMA WeakensTwice ==
  ASSUME NEW a, NEW b, NEW c, Weakens(a, b), Weakens(b, c)
  PROVE  Weakens(a, c)
BY DEF Weakens

\* Forget: the sender awaits none of these any more.
LEMMA ForgetSound ==
  ASSUME NEW set, Sound(set), NEW p \in Processes, NEW op \in Operations
  PROVE  /\ Sound(Forget(set, p, op)) /\ Weakens(Forget(set, p, op), set)
         /\ \A t \in Forget(set, p, op) : t.by = p /\ t.op = op => ~t.waiting
<1> DEFINE given == {s \in set : s.by = p /\ s.op = op}
           F(s) == [s EXCEPT !.waiting = FALSE, !.current = s.op # "renew" /\ @]
<1>1. ASSUME NEW s \in set
      PROVE  /\ F(s) \in Statement /\ s \in Statement
             /\ F(s).op = s.op /\ F(s).by = s.by /\ F(s).answer = s.answer /\ F(s).age = s.age
             /\ ~F(s).waiting
             /\ F(s).current => s.current /\ s.op # "renew"
  BY DEF Sound, Statement
<1>2. Forget(set, p, op) = (set \ given) \cup {F(s) : s \in {g \in given : g.answer = "none"}}
  BY DEF Forget
<1>3. \A t \in Forget(set, p, op) :
        t \in set \ given \/ \E s \in set : s.by = p /\ s.op = op /\ t = F(s)
  BY <1>2
<1> HIDE DEF F
<1>4. \A t \in Forget(set, p, op) : t.by = p /\ t.op = op => ~t.waiting
  BY <1>1, <1>3
<1>5. Weakens(Forget(set, p, op), set)
  BY <1>1, <1>3 DEF Weakens
<1>6. Sound(Forget(set, p, op))
  <2>1. Forget(set, p, op) \subseteq Statement
    BY <1>1, <1>3
  <2>2. ASSUME NEW t \in Forget(set, p, op), t.waiting PROVE t \in set
    BY <1>1, <1>3, <2>2
  <2>3. \A t \in Forget(set, p, op) : t.waiting => t.op \in {"acquire", "renew"}
    BY <2>2 DEF Sound
  <2>4. \A t \in Forget(set, p, op) : t.op = "renew" /\ t.current => t.waiting
    BY <1>1, <1>3 DEF Sound
  <2>5. \A s, t \in Forget(set, p, op) :
          s.waiting /\ t.waiting /\ s.op = t.op /\ s.by = t.by => s = t
    BY <2>2 DEF Sound
  <2> QED
    BY <2>1, <2>3, <2>4, <2>5 DEF Sound
<1> QED
  BY <1>4, <1>5, <1>6

\* Orphan: the renewals of p are for a lease it has no more.
LEMMA OrphanSound ==
  ASSUME NEW set, Sound(set), NEW p \in Processes
  PROVE  /\ Sound(Orphan(set, p)) /\ Weakens(Orphan(set, p), set)
         /\ \A t \in Orphan(set, p) : t.by = p /\ t.op = "renew" => ~t.current
<1> DEFINE F(s) == IF s.by = p /\ s.op = "renew" THEN [s EXCEPT !.current = FALSE] ELSE s
<1>1. ASSUME NEW s \in set
      PROVE  /\ F(s) \in Statement /\ s \in Statement
             /\ F(s).op = s.op /\ F(s).by = s.by /\ F(s).answer = s.answer /\ F(s).age = s.age
             /\ F(s).waiting = s.waiting
             /\ F(s).current => s.current /\ ~(s.by = p /\ s.op = "renew")
  BY DEF Sound, Statement
<1>2. \A t \in Orphan(set, p) : \E s \in set : t = F(s)
  BY DEF Orphan
<1> HIDE DEF F
<1>3. \A t \in Orphan(set, p) : t.by = p /\ t.op = "renew" => ~t.current
  BY <1>1, <1>2
<1>4. Weakens(Orphan(set, p), set)
  BY <1>1, <1>2 DEF Weakens
<1>5. Sound(Orphan(set, p))
  <2>1. Orphan(set, p) \subseteq Statement
    BY <1>1, <1>2
  <2>2. \A t \in Orphan(set, p) : t.waiting => t.op \in {"acquire", "renew"}
    BY <1>1, <1>2 DEF Sound
  <2>3. \A t \in Orphan(set, p) : t.op = "renew" /\ t.current => t.waiting
    BY <1>1, <1>2 DEF Sound
  <2>4. \A s, t \in Orphan(set, p) :
          s.waiting /\ t.waiting /\ s.op = t.op /\ s.by = t.by => s = t
    BY <1>1, <1>2 DEF Sound
  <2> QED
    BY <2>1, <2>2, <2>3, <2>4 DEF Sound
<1> QED
  BY <1>3, <1>4, <1>5

\* NewRow: no release in flight is for the row any more.
LEMMA NewRowSound ==
  ASSUME NEW set, Sound(set)
  PROVE  /\ Sound(NewRow(set)) /\ Weakens(NewRow(set), set)
         /\ \A t \in NewRow(set) : t.op # "renew" => ~t.current
<1> DEFINE F(s) == IF s.op = "renew" THEN s ELSE [s EXCEPT !.current = FALSE]
<1>1. ASSUME NEW s \in set
      PROVE  /\ F(s) \in Statement /\ s \in Statement
             /\ F(s).op = s.op /\ F(s).by = s.by /\ F(s).answer = s.answer /\ F(s).age = s.age
             /\ F(s).waiting = s.waiting
             /\ F(s).current => s.current /\ s.op = "renew"
  BY DEF Sound, Statement
<1>2. \A t \in NewRow(set) : \E s \in set : t = F(s)
  BY DEF NewRow
<1> HIDE DEF F
<1>3. \A t \in NewRow(set) : t.op # "renew" => ~t.current
  BY <1>1, <1>2
<1>4. Weakens(NewRow(set), set)
  BY <1>1, <1>2 DEF Weakens
<1>5. Sound(NewRow(set))
  <2>1. NewRow(set) \subseteq Statement
    BY <1>1, <1>2
  <2>2. \A t \in NewRow(set) : t.waiting => t.op \in {"acquire", "renew"}
    BY <1>1, <1>2 DEF Sound
  <2>3. \A t \in NewRow(set) : t.op = "renew" /\ t.current => t.waiting
    BY <1>1, <1>2 DEF Sound
  <2>4. \A s, t \in NewRow(set) :
          s.waiting /\ t.waiting /\ s.op = t.op /\ s.by = t.by => s = t
    BY <1>1, <1>2 DEF Sound
  <2> QED
    BY <2>1, <2>2, <2>3, <2>4 DEF Sound
<1> QED
  BY <1>3, <1>4, <1>5

\* A statement that is sent: none of its kind was awaited.
LEMMA SentSound ==
  ASSUME NEW set, Sound(set), NEW s \in Statement,
         s.waiting => /\ s.op \in {"acquire", "renew"}
                      /\ \A t \in set : ~(t.waiting /\ t.op = s.op /\ t.by = s.by),
         s.op = "renew" => s.waiting
  PROVE  Sound(set \cup {s})
BY DEF Sound

-----------------------------------------------------------------------------
(* The steps                                                                *)

\* The steps that give a lease, a grant and the row to nobody.
LEMMA WeakeningStep ==
  ASSUME LeaseInv, row' = row, alive' = alive, entry' \in [Processes -> Entry],
         Sound(statements'), Weakens(statements', statements), AskedByEntry',
         \A p \in Processes : entry'[p].kind \in {"fetching", "running", "refreshing"}
                                => HasLease(p) /\ entry'[p].left <= entry[p].left,
         \A p \in Processes \ alive : entry'[p].kind = "none"
  PROVE  LeaseInv'
<1> USE DEF LeaseInv, HasLease
<1>1. LeaseTypeOK'
  BY DEF LeaseTypeOK
<1>2. GivenBack'
  <2> SUFFICES ASSUME NEW t \in statements', t.op = "releaseOne", t.current
               PROVE  /\ entry'[t.by].kind \notin {"fetching", "running", "refreshing"}
                      /\ \A u \in statements' : ~(u.op = "acquire" /\ u.by = t.by /\ u.waiting
                                                    /\ u.answer = "ok")
    BY DEF GivenBack
  <2>1. PICK s \in statements : s.op = "releaseOne" /\ s.by = t.by /\ s.current
    BY DEF Weakens
  <2>2. t.by \in Processes
    BY DEF Sound, Statement
  <2>3. ~HasLease(t.by)
    BY <2>1 DEF GivenBack
  <2>4. \A u \in statements : ~(u.op = "acquire" /\ u.by = t.by /\ u.waiting /\ u.answer = "ok")
    BY <2>1 DEF GivenBack
  <2> QED
    BY <2>2, <2>3, <2>4 DEF Weakens
<1>3. EndedIsSilent'
  BY DEF EndedIsSilent, Weakens
<1>4. GrantIsHeld'
  <2> SUFFICES ASSUME NEW t \in statements', Grant(t)'
               PROVE  row.owner = t.by /\ row.left > Fence - t.age
    BY DEF GrantIsHeld
  <2>1. PICK s \in statements :
          /\ t.op = s.op /\ t.by = s.by /\ t.answer = s.answer /\ t.age = s.age
          /\ t.waiting => s.waiting
          /\ t.current => s.current
    BY DEF Weakens
  <2>2. Grant(s)
    BY <2>1 DEF Grant
  <2> QED
    BY <2>1, <2>2 DEF GrantIsHeld
<1>5. TrustedIsHeld'
  <2> SUFFICES ASSUME NEW p \in Processes, HasLease(p)', entry'[p].left > 0
               PROVE  row.owner = p /\ row.left > entry'[p].left
    BY DEF TrustedIsHeld
  <2>1. HasLease(p) /\ entry'[p].left <= entry[p].left
    OBVIOUS
  <2>2. entry[p].left \in Nat /\ entry'[p].left \in Nat /\ row.left \in Int
    BY DEF LeaseTypeOK, Entry
  <2> QED
    BY <2>1, <2>2 DEF TrustedIsHeld
<1> QED
  BY <1>1, <1>2, <1>3, <1>4, <1>5

\* An entry that is dropped, and the others as they were.
LEMMA NoEntryType ==
  ASSUME LeaseTypeOK, NEW p \in Processes
  PROVE  /\ [entry EXCEPT ![p] = NoEntry] \in [Processes -> Entry]
         /\ entry[p] \in Entry /\ entry[p].left \in Nat /\ entry[p].kind \in Kinds
         /\ row.left \in Int
<1>1. NoEntry \in Entry
  BY DEF NoEntry, Entry, Kinds
<1> QED
  BY <1>1 DEF LeaseTypeOK, Entry

\* The entry of p is dropped and no acquire of it is awaited any more.
LEMMA DropStep ==
  ASSUME LeaseInv, NEW p \in Processes, entry' = [entry EXCEPT ![p] = NoEntry],
         Sound(statements'), Weakens(statements', statements), row' = row, alive' = alive,
         \A t \in statements' : t.by = p =>
           (t.op = "acquire" => ~t.waiting) /\ (t.op = "renew" => ~t.current)
  PROVE  LeaseInv'
<1>1. entry' \in [Processes -> Entry]
  BY NoEntryType DEF LeaseInv
<1>2. \A q \in Processes : entry'[q] = IF q = p THEN NoEntry ELSE entry[q]
  BY DEF LeaseInv, LeaseTypeOK
<1>3. NoEntry.kind = "none"
  BY DEF NoEntry
<1>4. AskedByEntry'
  <2> SUFFICES ASSUME NEW t \in statements'
               PROVE  /\ (t.op = "acquire" /\ t.waiting) => entry'[t.by].kind = "acquiring"
                      /\ (t.op = "renew" /\ t.current) =>
                           entry'[t.by].kind \in {"fetching", "running", "refreshing"}
    BY DEF AskedByEntry, HasLease
  <2>1. PICK s \in statements : /\ t.op = s.op /\ t.by = s.by
                                /\ t.waiting => s.waiting
                                /\ t.current => s.current
    BY DEF Weakens
  <2>2. t.by \in Processes
    BY DEF Sound, Statement
  <2>3. CASE t.by = p
    BY <2>3
  <2>4. CASE t.by # p
    <3>1. entry'[t.by] = entry[t.by] /\ s.by = t.by
      BY <1>2, <2>1, <2>2, <2>4
    <3> QED
      BY <2>1, <3>1 DEF LeaseInv, AskedByEntry, HasLease
  <2> QED
    BY <2>3, <2>4
<1>5. ASSUME NEW q \in Processes, entry'[q].kind \in {"fetching", "running", "refreshing"}
      PROVE  HasLease(q) /\ entry'[q].left <= entry[q].left
  <2>1. entry'[q] = entry[q]
    BY <1>2, <1>3, <1>5
  <2>2. entry[q].left \in Nat
    BY NoEntryType DEF LeaseInv
  <2> QED
    BY <1>5, <2>1, <2>2 DEF HasLease
<1>6. \A q \in Processes \ alive : entry'[q].kind = "none"
  BY <1>2, <1>3 DEF LeaseInv, EndedIsSilent
<1> QED
  BY <1>1, <1>4, <1>5, <1>6, WeakeningStep

\* drop of an entry that has a lease.
LEMMA DropOnlyStep ==
  ASSUME LeaseInv, NEW p \in Processes, HasLease(p), DropOnly(p), row' = row, alive' = alive
  PROVE  LeaseInv'
<1>1. Sound(statements)
  BY DEF LeaseInv
<1>2. /\ Sound(statements') /\ Weakens(statements', statements)
      /\ \A t \in statements' : t.by = p /\ t.op = "renew" => ~t.current
  BY <1>1, OrphanSound DEF DropOnly
<1>3. \A t \in statements' : t.by = p => (t.op = "acquire" => ~t.waiting)
  BY <1>2 DEF Weakens, LeaseInv, AskedByEntry, HasLease
<1> QED
  BY <1>2, <1>3, DropStep DEF DropOnly, DropAndHold, Drop

\* drop with the acquire given up: runTick's, and that of a shed without a release.
LEMMA GiveUpSound ==
  ASSUME LeaseInv, NEW p \in Processes
  PROVE  LET new == Orphan(Forget(statements, p, "acquire"), p)
         IN  /\ Sound(new) /\ Weakens(new, statements)
             /\ \A t \in new : t.by = p => (t.op = "acquire" => ~t.waiting) /\ (t.op = "renew" => ~t.current)
<1> DEFINE f == Forget(statements, p, "acquire")
           new == Orphan(f, p)
<1>1. /\ Sound(f) /\ Weakens(f, statements)
      /\ \A t \in f : t.by = p /\ t.op = "acquire" => ~t.waiting
  BY ForgetSound DEF LeaseInv, Operations
<1> HIDE DEF f
<1>2. /\ Sound(new) /\ Weakens(new, f)
      /\ \A t \in new : t.by = p /\ t.op = "renew" => ~t.current
  BY <1>1, OrphanSound
<1> HIDE DEF new
<1>3. Weakens(new, statements)
  BY <1>1, <1>2, WeakensTwice
<1>4. \A t \in new : t.by = p => (t.op = "acquire" => ~t.waiting)
  BY <1>1, <1>2 DEF Weakens
<1>5. /\ Sound(new) /\ Weakens(new, statements)
      /\ \A t \in new : t.by = p => (t.op = "acquire" => ~t.waiting) /\ (t.op = "renew" => ~t.current)
  BY <1>2, <1>3, <1>4
<1> QED
  BY <1>5 DEF new, f

\* An entry that keeps its lease, or none, with what it trusts of it.
LEMMA EntryStep ==
  ASSUME LeaseInv, NEW p \in Processes, NEW e \in Entry,
         entry' = [entry EXCEPT ![p] = e], statements' = statements, row' = row, alive' = alive,
         e.left = entry[p].left, HasLease(p), e.kind \in {"fetching", "running", "refreshing"}
  PROVE  LeaseInv'
<1>1. entry' \in [Processes -> Entry]
  BY DEF LeaseInv, LeaseTypeOK
<1>2. \A q \in Processes : entry'[q] = IF q = p THEN e ELSE entry[q]
  BY DEF LeaseInv, LeaseTypeOK
<1>3. \A q \in Processes : entry[q].left \in Nat
  BY NoEntryType DEF LeaseInv
<1>4. Sound(statements') /\ Weakens(statements', statements)
  BY SubsetSound DEF LeaseInv
<1>5. AskedByEntry'
  BY <1>2 DEF LeaseInv, AskedByEntry, HasLease, Sound, Statement
<1>6. \A q \in Processes : entry'[q].kind \in {"fetching", "running", "refreshing"}
                           => HasLease(q) /\ entry'[q].left <= entry[q].left
  BY <1>2, <1>3 DEF HasLease
<1>7. \A q \in Processes \ alive : entry'[q].kind = "none"
  BY <1>2 DEF LeaseInv, EndedIsSilent, HasLease
<1> QED
  BY <1>1, <1>4, <1>5, <1>6, <1>7, WeakeningStep

-----------------------------------------------------------------------------
\* A sender that still waits for s is told answer; nothing else is new.
Tells(new, set, s, answer) ==
  /\ Sound(new)
  /\ \E told : /\ \A t \in new : t \in set \/ (t = told /\ s.waiting)
               /\ told.op = s.op /\ told.by = s.by /\ told.age = s.age
               /\ told.answer = answer
               /\ told.waiting = s.waiting /\ told.current = s.current

\* A commit and its answer: to a sender that still waits, and the statement is gone otherwise.
LEMMA AnsweredSound ==
  ASSUME NEW set, Sound(set), NEW s \in set, NEW answer \in {"ok", "refused"},
         NEW new, new = (set \ {s}) \cup Answered(s, answer)
  PROVE  Tells(new, set, s, answer)
<1> DEFINE told == [s EXCEPT !.answer = answer]
<1>1. /\ told \in Statement /\ told.op = s.op /\ told.by = s.by
      /\ told.age = s.age /\ told.waiting = s.waiting /\ told.current = s.current
      /\ told.answer = answer
  BY DEF Sound, Statement
<1>2. Answered(s, answer) = IF s.waiting THEN {told} ELSE {}
  BY DEF Answered
<1> HIDE DEF told
<1>3. \A t \in new : (t \in set /\ t # s) \/ (t = told /\ s.waiting)
  BY <1>2
<1>4. Sound(new)
  <2>1. new \subseteq Statement
    BY <1>1, <1>3 DEF Sound
  <2>2. \A t \in new : t.waiting => t.op \in {"acquire", "renew"}
    BY <1>1, <1>3 DEF Sound
  <2>3. \A t \in new : t.op = "renew" /\ t.current => t.waiting
    BY <1>1, <1>3 DEF Sound
  <2>4. \A t, u \in new : t.waiting /\ u.waiting /\ t.op = u.op /\ t.by = u.by => t = u
    BY <1>1, <1>3 DEF Sound
  <2> QED
    BY <2>1, <2>2, <2>3, <2>4 DEF Sound
<1>5. \A t \in new : t \in set \/ (t = told /\ s.waiting)
  BY <1>3
<1> QED
  BY <1>1, <1>4, <1>5 DEF Tells

\* A commit that changes nothing, whose sender is told so.
LEMMA RefusedStep ==
  ASSUME LeaseInv, NEW s \in statements, row' = row, entry' = entry, alive' = alive,
         statements' = (statements \ {s}) \cup Answered(s, "refused")
  PROVE  LeaseInv'
<1>7. Sound(statements) /\ "refused" \in {"ok", "refused"}
  BY DEF LeaseInv
<1>9. Tells(statements', statements, s, "refused")
  BY <1>7, AnsweredSound
<1>1. Sound(statements')
  BY <1>9 DEF Tells
<1>8. PICK told : /\ \A t \in statements' : t \in statements \/ (t = told /\ s.waiting)
                  /\ told.op = s.op /\ told.by = s.by /\ told.age = s.age
                  /\ told.answer = "refused"
                  /\ told.waiting = s.waiting /\ told.current = s.current
  BY <1>9 DEF Tells
<1>2. AskedByEntry'
  BY <1>8 DEF LeaseInv, AskedByEntry, HasLease
<1>3. GivenBack'
  BY <1>8 DEF LeaseInv, GivenBack, HasLease
<1>4. EndedIsSilent'
  BY <1>8 DEF LeaseInv, EndedIsSilent
<1>5. GrantIsHeld'
  BY <1>8 DEF LeaseInv, GrantIsHeld, Grant
<1>6. LeaseTypeOK' /\ TrustedIsHeld'
  BY DEF LeaseInv, LeaseTypeOK, TrustedIsHeld, HasLease
<1> QED
  BY <1>1, <1>2, <1>3, <1>4, <1>5, <1>6 DEF LeaseInv

\* A commit of an acquire: the row is its sender's, for longer than he will trust it.
LEMMA AcquireStep ==
  ASSUME LeaseInv, NEW s \in statements, NEW b \in 0..s.age, s.op = "acquire",
         s.answer = "none", Acquire(s, b), alive' = alive
  PROVE  LeaseInv'
<1> DEFINE rest == statements \ {s}
           granted == [s EXCEPT !.current = TRUE, !.answer = "ok"]
<1>1. /\ s \in Statement /\ s.by \in Processes /\ s.age \in Nat /\ b \in Nat /\ b <= s.age
      /\ Fence \in Nat /\ Ttl \in Nat /\ Fence < Ttl /\ Nobody \notin Processes
      /\ row.left \in Int /\ Sound(rest)
  <2>1. s \in Statement
    BY DEF LeaseInv, Sound
  <2>2. s.by \in Processes /\ s.age \in Nat
    BY <2>1 DEF Statement
  <2>3. row.left \in Int /\ Sound(rest)
    BY SubsetSound DEF LeaseInv, LeaseTypeOK
  <2> QED
    BY <2>1, <2>2, <2>3, LeaseAssumption DEF LeaseAssumption
<1>2. CASE row = NoRow \/ Lapsed(b) \/ row.owner = s.by
  <2> DEFINE left == IF row = NoRow THEN Ttl - b ELSE Extended(Ttl - b)
             kept == NewRow(rest)
  <2>1. left \in Int /\ left >= Ttl - b
    BY <1>1 DEF Extended
  <2>2. row' = [owner |-> s.by, left |-> left]
    BY <1>2 DEF Acquire
  <2> HIDE DEF left
  <2>3. /\ Sound(kept) /\ Weakens(kept, rest)
        /\ \A t \in kept : t.op # "renew" => ~t.current
    BY <1>1, NewRowSound
  <2> HIDE DEF kept
  <2>4. statements' = kept \cup (IF s.waiting THEN {granted} ELSE {})
    <3>1. Answered([s EXCEPT !.current = TRUE], "ok") = IF s.waiting THEN {granted} ELSE {}
      BY <1>1 DEF Answered, Statement
    <3> QED
      BY <1>2, <3>1 DEF Acquire, kept
  <2>5. /\ granted \in Statement /\ granted.op = "acquire" /\ granted.by = s.by
        /\ granted.age = s.age /\ granted.waiting = s.waiting
    BY <1>1 DEF Statement
  <2>6. \A t \in kept : ~(t.waiting /\ t.op = "acquire" /\ t.by = s.by /\ s.waiting)
    BY <2>3 DEF Weakens, LeaseInv, Sound
  <2> HIDE DEF granted
  <2>7. Sound(statements')
    BY <2>3, <2>4, <2>5, <2>6, SentSound
  <2>8. \A q \in Processes : /\ entry'[q] \in Entry
                             /\ entry'[q].kind = entry[q].kind /\ entry'[q].left = entry[q].left
    <3>1. \A q \in Processes : entry[q] \in Entry /\ entry'[q] = [entry[q] EXCEPT !.current = FALSE]
      BY <1>2 DEF Acquire, NewRowForEntries, LeaseInv, LeaseTypeOK
    <3> QED
      BY <3>1 DEF Entry
  <2>9. LeaseTypeOK'
    <3>1. entry' \in [Processes -> Entry]
      BY <1>2, <2>8 DEF Acquire, NewRowForEntries
    <3>2. row' \in [owner : Processes \cup {Nobody}, left : Int]
      BY <1>1, <2>1, <2>2
    <3> QED
      BY <3>1, <3>2 DEF LeaseInv, LeaseTypeOK
  <2>10. AskedByEntry'
    <3>1. \A t \in kept : /\ t.op = "acquire" /\ t.waiting => entry[t.by].kind = "acquiring"
                          /\ t.op = "renew" /\ t.current => HasLease(t.by)
      BY <2>3 DEF Weakens, LeaseInv, AskedByEntry, HasLease
    <3>2. s.waiting => entry[s.by].kind = "acquiring"
      BY DEF LeaseInv, AskedByEntry
    <3>3. \A t \in statements' : t.by \in Processes
      BY <2>7 DEF Sound, Statement
    <3> QED
      BY <2>4, <2>5, <2>8, <3>1, <3>2, <3>3 DEF AskedByEntry, HasLease
  <2>11. GivenBack'
    BY <2>3, <2>4, <2>5 DEF GivenBack
  <2>12. EndedIsSilent'
    <3>1. \A t \in kept : (t.waiting => t.by \in alive) /\ (t.op = "release" => t.by \notin alive)
      BY <2>3 DEF Weakens, LeaseInv, EndedIsSilent
    <3>2. s.waiting => s.by \in alive
      BY DEF LeaseInv, EndedIsSilent
    <3>3. \A p \in Processes \ alive : entry'[p].kind = "none"
      BY <2>8 DEF LeaseInv, EndedIsSilent
    <3> QED
      BY <2>4, <2>5, <3>1, <3>2, <3>3 DEF EndedIsSilent
  <2>13. \A q \in Processes, n \in Nat \ {0} :
           row.owner = q /\ row.left > n => q = s.by /\ row'.owner = q /\ row'.left > n
    <3> SUFFICES ASSUME NEW q \in Processes, NEW n \in Nat \ {0}, row.owner = q, row.left > n
                 PROVE  q = s.by /\ row'.owner = q /\ row'.left > n
      OBVIOUS
    <3>1. row # NoRow /\ ~Lapsed(b)
      BY <1>1 DEF NoRow, Lapsed
    <3>2. left >= row.left
      BY <1>1, <3>1 DEF left, Extended
    <3> QED
      BY <1>1, <1>2, <2>1, <2>2, <3>1, <3>2
  <2>14. GrantIsHeld'
    <3> SUFFICES ASSUME NEW t \in statements', Grant(t)
                 PROVE  row'.owner = t.by /\ row'.left > Fence - t.age
      BY DEF GrantIsHeld, Grant
    <3>1. CASE t = granted
      BY <1>1, <2>1, <2>2, <2>5, <3>1
    <3>2. CASE t \in kept
      <4>1. PICK u \in rest :
              /\ t.op = u.op /\ t.by = u.by /\ t.answer = u.answer /\ t.age = u.age
              /\ t.waiting => u.waiting
              /\ t.current => u.current
        BY <2>3, <3>2 DEF Weakens
      <4>2. row.owner = t.by /\ row.left > Fence - t.age
        BY <4>1 DEF Grant, LeaseInv, GrantIsHeld
      <4>3. t.by \in Processes /\ t.age \in Nat /\ t.age < Fence
        BY <2>7 DEF Sound, Statement, Grant
      <4>4. Fence - t.age \in Nat \ {0}
        BY <1>1, <4>3
      <4> QED
        BY <2>13, <4>2, <4>3, <4>4
    <3> QED
      BY <2>4, <3>1, <3>2
  <2>15. TrustedIsHeld'
    <3> SUFFICES ASSUME NEW p \in Processes, HasLease(p), entry[p].left > 0
                 PROVE  row'.owner = p /\ row'.left > entry[p].left
      BY <2>8 DEF TrustedIsHeld, HasLease
    <3>1. entry[p].left \in Nat \ {0}
      BY NoEntryType DEF LeaseInv
    <3> QED
      BY <2>13, <3>1 DEF LeaseInv, TrustedIsHeld
  <2> QED
    BY <2>7, <2>9, <2>10, <2>11, <2>12, <2>14, <2>15 DEF LeaseInv
<1>3. CASE ~(row = NoRow \/ Lapsed(b) \/ row.owner = s.by)
  BY <1>3, RefusedStep DEF Acquire
<1> QED
  BY <1>2, <1>3

\* A commit of a renewal: the row stays its owner's, no shorter than before.
LEMMA RenewStep ==
  ASSUME LeaseInv, NEW s \in statements, NEW b \in 0..s.age, s.op = "renew",
         s.answer = "none", Renew(s, b), alive' = alive
  PROVE  LeaseInv'
<1>1. /\ s.by \in Processes /\ s.age \in Nat /\ b \in Nat /\ b <= s.age
      /\ Fence \in Nat /\ Ttl \in Nat /\ Fence < Ttl
      /\ row.left \in Int /\ row \in [owner : Processes \cup {Nobody}, left : Int]
  <2>1. s \in Statement
    BY DEF LeaseInv, Sound
  <2>2. s.by \in Processes /\ s.age \in Nat
    BY <2>1 DEF Statement
  <2>3. row.left \in Int /\ row \in [owner : Processes \cup {Nobody}, left : Int]
    BY DEF LeaseInv, LeaseTypeOK
  <2> QED
    BY <2>2, <2>3, LeaseAssumption DEF LeaseAssumption
<1>2. CASE row.owner = s.by /\ ~Lapsed(b)
  <2> DEFINE left == Extended(Ttl - b)
  <2>1. left \in Int /\ left >= Ttl - b /\ left >= row.left
    BY <1>1 DEF Extended
  <2>2. row' = [row EXCEPT !.left = left] /\ entry' = entry
    BY <1>2 DEF Renew
  <2>3. row'.owner = row.owner /\ row'.left = left
    BY <1>1, <2>2
  <2> HIDE DEF left
  <2>0. /\ Sound(statements) /\ "ok" \in {"ok", "refused"}
        /\ statements' = (statements \ {s}) \cup Answered(s, "ok")
    BY <1>2 DEF LeaseInv, Renew
  <2>12. Tells(statements', statements, s, "ok")
    BY <2>0, AnsweredSound
  <2>4. PICK told : /\ \A t \in statements' : t \in statements \/ (t = told /\ s.waiting)
                    /\ told.op = s.op /\ told.by = s.by /\ told.age = s.age
                    /\ told.answer = "ok"
                    /\ told.waiting = s.waiting /\ told.current = s.current
    BY <2>12 DEF Tells
  <2>11. Sound(statements')
    BY <2>12 DEF Tells
  <2>5. AskedByEntry'
    BY <2>2, <2>4 DEF LeaseInv, AskedByEntry, HasLease
  <2>6. GivenBack'
    BY <2>2, <2>4 DEF LeaseInv, GivenBack, HasLease
  <2>7. EndedIsSilent'
    BY <2>2, <2>4 DEF LeaseInv, EndedIsSilent
  <2>8. GrantIsHeld'
    <3> SUFFICES ASSUME NEW t \in statements', Grant(t)
                 PROVE  row'.owner = t.by /\ row'.left > Fence - t.age
      BY DEF GrantIsHeld, Grant
    <3>1. CASE t = told
      BY <1>1, <1>2, <2>1, <2>3, <2>4, <3>1
    <3>2. CASE t \in statements
      <4>1. row.owner = t.by /\ row.left > Fence - t.age
        BY <3>2 DEF LeaseInv, GrantIsHeld
      <4>2. t.age \in Nat
        BY <2>11 DEF Sound, Statement
      <4> QED
        BY <1>1, <2>1, <2>3, <4>1, <4>2
    <3> QED
      BY <2>4, <3>1, <3>2
  <2>9. TrustedIsHeld'
    <3> SUFFICES ASSUME NEW p \in Processes, HasLease(p), entry[p].left > 0
                 PROVE  row'.owner = p /\ row'.left > entry[p].left
      BY <2>2 DEF TrustedIsHeld, HasLease
    <3>1. row.owner = p /\ row.left > entry[p].left /\ entry[p].left \in Nat
      BY NoEntryType DEF LeaseInv, TrustedIsHeld
    <3> QED
      BY <1>1, <2>1, <2>3, <3>1
  <2>10. LeaseTypeOK'
    BY <1>1, <2>1, <2>2 DEF LeaseInv, LeaseTypeOK
  <2> QED
    BY <2>5, <2>6, <2>7, <2>8, <2>9, <2>10, <2>11 DEF LeaseInv
<1>3. CASE ~(row.owner = s.by /\ ~Lapsed(b))
  BY <1>3, RefusedStep DEF Renew
<1> QED
  BY <1>2, <1>3

\* A commit of a release: nobody trusts the row it deletes.
LEMMA ReleaseStep ==
  ASSUME LeaseInv, NEW s \in statements, s.op \in {"releaseOne", "release"},
         Release(s), alive' = alive
  PROVE  LeaseInv'
<1> DEFINE rest == statements \ {s}
<1>1. Sound(rest) /\ Weakens(rest, statements)
  BY SubsetSound DEF LeaseInv
<1>2. CASE Releases(s)
  <2> DEFINE kept == NewRow(rest)
  <2>1. /\ Sound(kept) /\ Weakens(kept, rest)
        /\ \A t \in kept : t.op # "renew" => ~t.current
    BY <1>1, NewRowSound
  <2> HIDE DEF kept
  <2>2. Weakens(kept, statements)
    BY <1>1, <2>1, WeakensTwice
  <2>3. statements' = kept /\ row' = NoRow /\ row.owner = s.by
    BY <1>2 DEF Release, Releases, kept
  <2>4. \A q \in Processes : /\ entry'[q] \in Entry
                             /\ entry'[q].kind = entry[q].kind /\ entry'[q].left = entry[q].left
    <3>1. \A q \in Processes : entry[q] \in Entry /\ entry'[q] = [entry[q] EXCEPT !.current = FALSE]
      BY <1>2 DEF Release, NewRowForEntries, LeaseInv, LeaseTypeOK
    <3> QED
      BY <3>1 DEF Entry
  <2>5. LeaseTypeOK'
    <3>1. entry' \in [Processes -> Entry]
      BY <1>2, <2>4 DEF Release, NewRowForEntries
    <3> QED
      BY <2>3, <3>1 DEF LeaseInv, LeaseTypeOK, NoRow
  <2>6. AskedByEntry'
    <3>1. \A t \in kept : /\ t.op = "acquire" /\ t.waiting => entry[t.by].kind = "acquiring"
                          /\ t.op = "renew" /\ t.current => HasLease(t.by)
      BY <2>2 DEF Weakens, LeaseInv, AskedByEntry, HasLease
    <3>2. \A t \in kept : t.by \in Processes
      BY <2>1 DEF Sound, Statement
    <3> QED
      BY <2>3, <2>4, <3>1, <3>2 DEF AskedByEntry, HasLease
  <2>7. GivenBack'
    BY <2>1, <2>3 DEF GivenBack
  <2>8. EndedIsSilent'
    <3>1. \A t \in kept : (t.waiting => t.by \in alive) /\ (t.op = "release" => t.by \notin alive)
      BY <2>2 DEF Weakens, LeaseInv, EndedIsSilent
    <3> QED
      BY <2>3, <2>4, <3>1 DEF LeaseInv, EndedIsSilent
  <2>9. s.by \in Processes /\ ~HasLease(s.by)
    <3>1. s \in Statement /\ s.by \in Processes
      BY DEF LeaseInv, Sound, Statement
    <3>2. CASE s.op = "releaseOne"
      BY <1>2, <3>1, <3>2 DEF Releases, LeaseInv, GivenBack
    <3>3. CASE s.op = "release"
      BY <3>1, <3>3 DEF LeaseInv, EndedIsSilent, HasLease
    <3> QED
      BY <3>1, <3>2, <3>3
  <2>10. \A t \in statements : t.by = s.by => ~Grant(t)
    <3> SUFFICES ASSUME NEW t \in statements, t.by = s.by, Grant(t)
                 PROVE  FALSE
      OBVIOUS
    <3>1. t.waiting /\ t.answer = "ok" /\ (t.op = "acquire" \/ (t.op = "renew" /\ t.current))
      BY DEF Grant
    <3>2. t.op = "acquire"
      BY <2>9, <3>1 DEF LeaseInv, AskedByEntry
    <3>3. CASE s.op = "releaseOne"
      BY <1>2, <3>1, <3>2, <3>3 DEF Releases, LeaseInv, GivenBack
    <3>4. CASE s.op = "release"
      BY <3>1, <3>4 DEF LeaseInv, EndedIsSilent
    <3> QED
      BY <3>3, <3>4
  <2>11. GrantIsHeld'
    <3> SUFFICES ASSUME NEW t \in kept, Grant(t) PROVE FALSE
      BY <2>3 DEF GrantIsHeld, Grant
    <3>1. PICK u \in statements :
            /\ t.op = u.op /\ t.by = u.by /\ t.answer = u.answer /\ t.age = u.age
            /\ t.waiting => u.waiting
            /\ t.current => u.current
      BY <2>2 DEF Weakens
    <3>2. Grant(u)
      BY <3>1 DEF Grant
    <3> QED
      BY <2>3, <2>10, <3>2 DEF LeaseInv, GrantIsHeld
  <2>12. TrustedIsHeld'
    BY <2>3, <2>4, <2>9 DEF LeaseInv, TrustedIsHeld, HasLease
  <2> QED
    BY <2>1, <2>3, <2>5, <2>6, <2>7, <2>8, <2>11, <2>12 DEF LeaseInv
<1>3. CASE ~Releases(s)
  <2>1. statements' = rest /\ row' = row /\ entry' = entry
    BY <1>3 DEF Release
  <2>2. AskedByEntry'
    BY <2>1 DEF LeaseInv, AskedByEntry, HasLease
  <2>3. \A p \in Processes : entry'[p].kind \in {"fetching", "running", "refreshing"}
                             => HasLease(p) /\ entry'[p].left <= entry[p].left
    BY <2>1, NoEntryType DEF LeaseInv, HasLease
  <2> QED
    BY <1>1, <2>1, <2>2, <2>3, WeakeningStep DEF LeaseInv, LeaseTypeOK, EndedIsSilent
<1> QED
  BY <1>2, <1>3

\* An answer, or a loss, of a statement whose sender's entry stays as it is.
LEMMA UnansweredStep ==
  ASSUME LeaseInv, Sound(statements'), Weakens(statements', statements),
         UNCHANGED <<row, entry, alive>>
  PROVE  LeaseInv'
<1>1. AskedByEntry'
  BY DEF LeaseInv, AskedByEntry, HasLease, Weakens
<1>2. \A p \in Processes : entry'[p].kind \in {"fetching", "running", "refreshing"}
                           => HasLease(p) /\ entry'[p].left <= entry[p].left
  BY NoEntryType DEF LeaseInv, HasLease
<1> QED
  BY <1>1, <1>2, WeakeningStep DEF LeaseInv, LeaseTypeOK, EndedIsSilent

\* The answer to an acquire: what the row grants becomes what the process trusts.
LEMMA AcquireAnsweredStep ==
  ASSUME LeaseInv, NEW s \in statements, AcquireAnswered(s)
  PROVE  LeaseInv'
<1> DEFINE p == s.by
<1>1. /\ s \in Statement /\ p \in Processes /\ s.age \in Nat /\ Fence \in Nat
      /\ s.op = "acquire" /\ s.waiting
      /\ statements' = statements \ {s} /\ row' = row /\ alive' = alive
  <2>1. s \in Statement
    BY DEF LeaseInv, Sound
  <2> QED
    BY <2>1, LeaseAssumption DEF AcquireAnswered, Statement, LeaseAssumption
<1>2. Sound(statements') /\ Weakens(statements', statements)
  BY <1>1, SubsetSound DEF LeaseInv
<1>3. entry[p].kind = "acquiring" /\ p \in alive
  BY <1>1 DEF LeaseInv, AskedByEntry, EndedIsSilent
<1>4. \A t \in statements' : t.by = p => (t.op = "acquire" => ~t.waiting) /\ (t.op = "renew" => ~t.current)
  <2>1. \A t \in statements' : t \in statements /\ t # s
    BY <1>1
  <2>2. \A t \in statements' : t.by = p /\ t.op = "acquire" => ~t.waiting
    BY <1>1, <2>1 DEF LeaseInv, Sound
  <2>3. \A t \in statements' : t.by = p /\ t.op = "renew" => ~t.current
    BY <1>3, <2>1 DEF LeaseInv, AskedByEntry, HasLease
  <2> QED
    BY <2>2, <2>3
<1>5. CASE s.answer = "ok"
  <2> DEFINE e == [entry[p] EXCEPT !.kind = "fetching", !.current = s.current, !.left = Trusted(s)]
  <2>1. entry' = [entry EXCEPT ![p] = e]
    BY <1>5 DEF AcquireAnswered
  <2>2. Trusted(s) \in Nat /\ (Trusted(s) > 0 => s.age < Fence /\ Trusted(s) = Fence - s.age)
    BY <1>1 DEF Trusted
  <2>3. e \in Entry /\ e.left = Trusted(s) /\ e.kind = "fetching"
    BY ZenonT(60), <1>1, <2>2, NoEntryType DEF LeaseInv, Entry, Kinds, Statement
  <2> HIDE DEF e
  <2>4. \A q \in Processes : entry'[q] = IF q = p THEN e ELSE entry[q]
    BY <2>1 DEF LeaseInv, LeaseTypeOK
  <2>5. LeaseTypeOK'
    BY <1>1, <2>1, <2>3 DEF LeaseInv, LeaseTypeOK
  <2>6. AskedByEntry'
    <3> SUFFICES ASSUME NEW t \in statements'
                 PROVE  /\ (t.op = "acquire" /\ t.waiting) => entry'[t.by].kind = "acquiring"
                        /\ (t.op = "renew" /\ t.current) =>
                             entry'[t.by].kind \in {"fetching", "running", "refreshing"}
      BY DEF AskedByEntry, HasLease
    <3>1. t \in statements /\ t.by \in Processes
      BY <1>1, <1>2 DEF Sound, Statement
    <3>2. CASE t.by = p
      BY <1>4, <3>2
    <3>3. CASE t.by # p
      BY <2>4, <3>1, <3>3 DEF LeaseInv, AskedByEntry, HasLease
    <3> QED
      BY <3>2, <3>3
  <2>7. GivenBack'
    <3> SUFFICES ASSUME NEW t \in statements', t.op = "releaseOne", t.current
                 PROVE  /\ entry'[t.by].kind \notin {"fetching", "running", "refreshing"}
                        /\ \A u \in statements' :
                             ~(u.op = "acquire" /\ u.by = t.by /\ u.waiting /\ u.answer = "ok")
      BY DEF GivenBack, HasLease
    <3>1. t \in statements /\ t.by \in Processes
      BY <1>1, <1>2 DEF Sound, Statement
    <3>2. t.by # p
      BY <1>1, <1>5, <3>1 DEF LeaseInv, GivenBack
    <3> QED
      BY <1>1, <2>4, <3>1, <3>2 DEF LeaseInv, GivenBack, HasLease
  <2>8. EndedIsSilent'
    BY <1>1, <1>3, <2>4 DEF LeaseInv, EndedIsSilent
  <2>9. GrantIsHeld'
    BY <1>1 DEF LeaseInv, GrantIsHeld, Grant
  <2>10. TrustedIsHeld'
    <3> SUFFICES ASSUME NEW q \in Processes, entry'[q].left > 0,
                        entry'[q].kind \in {"fetching", "running", "refreshing"}
                 PROVE  row.owner = q /\ row.left > entry'[q].left
      BY <1>1 DEF TrustedIsHeld, HasLease
    <3>1. CASE q = p
      <4>1. s.age < Fence /\ entry'[p].left = Fence - s.age
        BY <1>1, <2>2, <2>3, <2>4, <3>1
      <4>2. Grant(s)
        BY <1>1, <1>5, <4>1 DEF Grant
      <4> QED
        BY <3>1, <4>1, <4>2 DEF LeaseInv, GrantIsHeld
    <3>2. CASE q # p
      BY <2>4, <3>2 DEF LeaseInv, TrustedIsHeld, HasLease
    <3> QED
      BY <3>1, <3>2
  <2> QED
    BY <1>2, <2>5, <2>6, <2>7, <2>8, <2>9, <2>10 DEF LeaseInv
<1>6. CASE s.answer # "ok"
  BY <1>1, <1>2, <1>4, <1>6, DropStep DEF AcquireAnswered, DropAndHold, Drop
<1> QED
  BY <1>5, <1>6

\* The answer to a renewal moves what is trusted of the lease it was sent for.
LEMMA RenewalAnsweredStep ==
  ASSUME LeaseInv, NEW s \in statements, RenewalAnswered(s)
  PROVE  LeaseInv'
<1> DEFINE p == s.by
<1>1. /\ s \in Statement /\ p \in Processes /\ s.age \in Nat /\ Fence \in Nat
      /\ s.op = "renew" /\ s.waiting
      /\ statements' = statements \ {s} /\ row' = row /\ alive' = alive
  <2>1. s \in Statement
    BY DEF LeaseInv, Sound
  <2> QED
    BY <2>1, LeaseAssumption DEF RenewalAnswered, Statement, LeaseAssumption
<1>2. Sound(statements') /\ Weakens(statements', statements)
  BY <1>1, SubsetSound DEF LeaseInv
<1>3. CASE ~s.current
  BY <1>1, <1>2, <1>3, UnansweredStep DEF RenewalAnswered
<1>4. CASE s.current /\ s.answer = "ok"
  <2> DEFINE left == IF Trusted(s) > entry[p].left THEN Trusted(s) ELSE entry[p].left
             e == [entry[p] EXCEPT !.left = left]
  <2>1. entry' = [entry EXCEPT ![p] = e] /\ HasLease(p)
    BY <1>1, <1>4 DEF RenewalAnswered, LeaseInv, AskedByEntry
  <2>2. entry[p].left \in Nat /\ row.left \in Int /\ entry[p] \in Entry
    BY <1>1, NoEntryType DEF LeaseInv
  <2>3. Trusted(s) \in Nat /\ (Trusted(s) > 0 => s.age < Fence /\ Trusted(s) = Fence - s.age)
    BY <1>1 DEF Trusted
  <2>4. left \in Nat /\ (left = entry[p].left \/ (left = Trusted(s) /\ left > 0))
    BY <2>2, <2>3
  <2>5. e \in Entry /\ e.left = left /\ e.kind = entry[p].kind
    BY <2>2, <2>4 DEF Entry
  <2> HIDE DEF e, left
  <2>6. \A q \in Processes : entry'[q] = IF q = p THEN e ELSE entry[q]
    BY <2>1 DEF LeaseInv, LeaseTypeOK
  <2>7. \A q \in Processes : entry'[q].kind = entry[q].kind
    BY <2>5, <2>6
  <2>8. LeaseTypeOK'
    BY <1>1, <2>1, <2>5 DEF LeaseInv, LeaseTypeOK
  <2>9. \A t \in statements' : t \in statements /\ t.by \in Processes
    BY <1>1, <1>2 DEF Sound, Statement
  <2>10. AskedByEntry' /\ GivenBack' /\ EndedIsSilent'
    <3>1. AskedByEntry'
      BY <2>7, <2>9 DEF LeaseInv, AskedByEntry, HasLease
    <3>2. GivenBack'
      BY <2>7, <2>9 DEF LeaseInv, GivenBack, HasLease
    <3>3. EndedIsSilent'
      BY <1>1, <2>7, <2>9 DEF LeaseInv, EndedIsSilent
    <3> QED
      BY <3>1, <3>2, <3>3
  <2>11. GrantIsHeld'
    BY <1>1 DEF LeaseInv, GrantIsHeld, Grant
  <2>12. TrustedIsHeld'
    <3> SUFFICES ASSUME NEW q \in Processes, HasLease(q), entry'[q].left > 0
                 PROVE  row.owner = q /\ row.left > entry'[q].left
      BY <1>1, <2>7 DEF TrustedIsHeld, HasLease
    <3>1. CASE q = p /\ left # entry[p].left
      <4>1. s.age < Fence /\ left = Fence - s.age
        BY <2>3, <2>4, <3>1
      <4>2. Grant(s)
        BY <1>1, <1>4, <4>1 DEF Grant
      <4> QED
        BY <2>5, <2>6, <3>1, <4>1, <4>2 DEF LeaseInv, GrantIsHeld
    <3>2. CASE q # p \/ left = entry[p].left
      <4>1. entry'[q].left = entry[q].left
        BY <2>5, <2>6, <3>2
      <4> QED
        BY <4>1 DEF LeaseInv, TrustedIsHeld
    <3> QED
      BY <3>1, <3>2
  <2> QED
    BY <1>2, <2>8, <2>10, <2>11, <2>12 DEF LeaseInv
<1>5. CASE s.current /\ s.answer # "ok"
  <2>1. HasLease(p)
    BY <1>1, <1>5 DEF LeaseInv, AskedByEntry
  <2>2. \A t \in statements' : t \in statements /\ t # s
    BY <1>1
  <2>3. \A t \in statements' : t.by = p /\ t.op = "acquire" => ~t.waiting
    BY <2>1, <2>2 DEF LeaseInv, AskedByEntry, HasLease
  <2>4. \A t \in statements' : t.by = p /\ t.op = "renew" => ~t.current
    BY <1>1, <2>2 DEF LeaseInv, Sound
  <2>5. entry' = [entry EXCEPT ![p] = NoEntry]
    BY <1>5 DEF RenewalAnswered, DropAndHold, Drop
  <2> QED
    BY <1>1, <1>2, <2>3, <2>4, <2>5, DropStep
<1> QED
  BY <1>3, <1>4, <1>5

\* An answer that is given up.
LEMMA TimesOutStep ==
  ASSUME LeaseInv, NEW s \in statements, TimesOut(s)
  PROVE  LeaseInv'
<1>1. /\ s.by \in Processes /\ s.op \in {"acquire", "renew"} /\ s.waiting
      /\ statements' = Forget(statements, s.by, s.op) /\ row' = row /\ alive' = alive
  <2>1. s \in Statement
    BY DEF LeaseInv, Sound
  <2> QED
    BY <2>1 DEF TimesOut, Statement
<1>2. s.op \in Operations /\ Sound(statements)
  BY <1>1 DEF Operations, LeaseInv
<1>3. /\ Sound(statements') /\ Weakens(statements', statements)
      /\ \A t \in statements' : t.by = s.by /\ t.op = s.op => ~t.waiting
  BY <1>1, <1>2, ForgetSound
<1>4. CASE s.op = "acquire"
  <2>1. entry[s.by].kind = "acquiring"
    BY <1>1, <1>4 DEF LeaseInv, AskedByEntry
  <2>2. \A t \in statements' : t.by = s.by /\ t.op = "renew" => ~t.current
    BY <1>3, <2>1 DEF Weakens, LeaseInv, AskedByEntry, HasLease
  <2>3. entry' = [entry EXCEPT ![s.by] = NoEntry]
    BY <1>4 DEF TimesOut, DropAndHold, Drop
  <2>4. \A t \in statements' : t.by = s.by =>
          (t.op = "acquire" => ~t.waiting) /\ (t.op = "renew" => ~t.current)
    BY <1>3, <1>4, <2>2
  <2> QED
    BY <1>1, <1>3, <2>3, <2>4, DropStep
<1>5. CASE s.op # "acquire"
  BY <1>1, <1>3, <1>5, UnansweredStep DEF TimesOut
<1> QED
  BY <1>4, <1>5

\* A statement joins the others; its sender's entry is what the statement is for.
LEMMA SendStep ==
  ASSUME LeaseInv, NEW p \in alive, NEW op \in {"acquire", "renew"}, NEW current \in BOOLEAN,
         statements' = statements \cup {Sent(op, p, current, TRUE)},
         \A s \in statements : ~(s.waiting /\ s.op = op /\ s.by = p),
         row' = row, alive' = alive, entry' \in [Processes -> Entry],
         \A q \in Processes : entry'[q].left = entry[q].left
                              /\ (q # p => entry'[q].kind = entry[q].kind),
         op = "acquire" => entry[p].kind = "none" /\ entry'[p].kind = "acquiring",
         op = "renew" => HasLease(p) /\ entry'[p].kind = entry[p].kind
  PROVE  LeaseInv'
<1> DEFINE new == Sent(op, p, current, TRUE)
<1>1. /\ new \in Statement /\ new.op = op /\ new.by = p /\ new.current = current
      /\ new.waiting /\ new.answer = "none" /\ p \in Processes
  <2>1. p \in Processes
    BY DEF LeaseInv, LeaseTypeOK
  <2> QED
    BY <2>1 DEF Sent, Statement, Operations
<1> HIDE DEF new
<1>2. Sound(statements')
  <2>1. Sound(statements) /\ statements' = statements \cup {new}
    BY DEF LeaseInv, new
  <2>2. new.waiting => /\ new.op \in {"acquire", "renew"}
                       /\ \A t \in statements : ~(t.waiting /\ t.op = new.op /\ t.by = new.by)
    BY <1>1
  <2>3. new.op = "renew" => new.waiting
    BY <1>1
  <2>4. Sound(statements \cup {new})
    BY <1>1, <2>1, <2>2, <2>3, SentSound
  <2> QED
    BY <2>1, <2>4
<1>3. LeaseTypeOK'
  BY DEF LeaseInv, LeaseTypeOK
<1>4. \A t \in statements' : t = new \/ t \in statements
  BY DEF new
<1>5. \A t \in statements' : t.by \in Processes
  BY <1>2 DEF Sound, Statement
<1>6. AskedByEntry'
  <2> SUFFICES ASSUME NEW t \in statements'
               PROVE  /\ (t.op = "acquire" /\ t.waiting) => entry'[t.by].kind = "acquiring"
                      /\ (t.op = "renew" /\ t.current) =>
                           entry'[t.by].kind \in {"fetching", "running", "refreshing"}
    BY DEF AskedByEntry, HasLease
  <2>1. CASE t = new
    BY <1>1, <2>1 DEF HasLease
  <2>2. CASE t \in statements
    <3>1. /\ (t.op = "acquire" /\ t.waiting) => entry[t.by].kind = "acquiring"
          /\ (t.op = "renew" /\ t.current) => HasLease(t.by)
      BY <2>2 DEF LeaseInv, AskedByEntry
    <3>2. CASE t.by = p
      BY <2>2, <3>1, <3>2 DEF HasLease
    <3>3. CASE t.by # p
      BY <1>5, <3>1, <3>3 DEF HasLease
    <3> QED
      BY <3>2, <3>3
  <2> QED
    BY <1>4, <2>1, <2>2
<1>7. GivenBack'
  <2> SUFFICES ASSUME NEW t \in statements', t.op = "releaseOne", t.current
               PROVE  /\ entry'[t.by].kind \notin {"fetching", "running", "refreshing"}
                      /\ \A u \in statements' :
                           ~(u.op = "acquire" /\ u.by = t.by /\ u.waiting /\ u.answer = "ok")
    BY DEF GivenBack, HasLease
  <2>1. t \in statements
    BY <1>1, <1>4
  <2>2. ~HasLease(t.by) /\ \A u \in statements :
           ~(u.op = "acquire" /\ u.by = t.by /\ u.waiting /\ u.answer = "ok")
    BY <2>1 DEF LeaseInv, GivenBack
  <2> QED
    BY <1>1, <1>4, <1>5, <2>2 DEF HasLease
<1>8. EndedIsSilent'
  BY <1>1, <1>4 DEF LeaseInv, EndedIsSilent
<1>9. GrantIsHeld'
  BY <1>1, <1>4 DEF LeaseInv, GrantIsHeld, Grant
<1>10. TrustedIsHeld'
  <2>1. \A q \in Processes : entry'[q].kind \in {"fetching", "running", "refreshing"} => HasLease(q)
    BY DEF HasLease
  <2> QED
    BY <2>1 DEF LeaseInv, TrustedIsHeld, HasLease
<1> QED
  BY <1>2, <1>3, <1>6, <1>7, <1>8, <1>9, <1>10 DEF LeaseInv

LEMMA StartStep == ASSUME LeaseInv, NEW p \in Processes, Start(p) PROVE LeaseInv'
<1> DEFINE e == [entry[p] EXCEPT !.kind = "acquiring"]
<1>1. /\ p \in alive /\ entry[p].kind = "none" /\ entry' = [entry EXCEPT ![p] = e]
      /\ statements' = statements \cup {Sent("acquire", p, FALSE, TRUE)}
      /\ row' = row /\ alive' = alive
  BY DEF Start, NoEntry
<1>2. e \in Entry /\ e.kind = "acquiring" /\ e.left = entry[p].left
  BY NoEntryType DEF LeaseInv, Entry, Kinds
<1> HIDE DEF e
<1>3. \A q \in Processes : entry'[q] = IF q = p THEN e ELSE entry[q]
  BY <1>1 DEF LeaseInv, LeaseTypeOK
<1>4. entry' \in [Processes -> Entry]
  BY <1>1, <1>2 DEF LeaseInv, LeaseTypeOK
<1>5. \A s \in statements : ~(s.waiting /\ s.op = "acquire" /\ s.by = p)
  BY <1>1 DEF LeaseInv, AskedByEntry
<1>6. \A q \in Processes : entry'[q].left = entry[q].left /\ (q # p => entry'[q].kind = entry[q].kind)
  BY <1>2, <1>3
<1> QED
  BY <1>1, <1>2, <1>3, <1>4, <1>5, <1>6, SendStep

LEMMA SendRenewalStep == ASSUME LeaseInv, NEW p \in Processes, SendRenewal(p) PROVE LeaseInv'
<1>1. /\ p \in alive /\ HasLease(p) /\ entry' = entry
      /\ statements' = statements \cup {Sent("renew", p, TRUE, TRUE)}
      /\ row' = row /\ alive' = alive
  BY DEF SendRenewal
<1>2. \A s \in statements : ~(s.waiting /\ s.op = "renew" /\ s.by = p)
  BY DEF SendRenewal, InFlight
<1>3. entry' \in [Processes -> Entry]
  BY <1>1 DEF LeaseInv, LeaseTypeOK
<1> QED
  BY <1>1, <1>2, <1>3, SendStep

\* A release joins the others: of one lease, sent without an entry, or of all, sent by the dead.
LEMMA ReleaseSound ==
  ASSUME NEW set, Sound(set), NEW p \in Processes, NEW op \in {"releaseOne", "release"},
         NEW current \in BOOLEAN, NEW new, new = Sent(op, p, current, FALSE)
  PROVE  Sound(set \cup {new})
<1>1. new \in Statement /\ ~new.waiting /\ new.op # "renew"
  BY DEF Sent, Statement, Operations
<1> QED
  BY <1>1, SentSound

\* p awaits no acquire of the set any more, and has no lease to renew.
GivenUp(set, p) ==
  \A t \in set : t.by = p => (t.op = "acquire" => ~t.waiting) /\ (t.op = "renew" => ~t.current)

\* Releases of p; of everything only by a process that is not in `living`.
ReleasesOf(set, p, living) ==
  \A t \in set : /\ t.by = p /\ ~t.waiting /\ t.op \in {"releaseOne", "release"}
                 /\ t.op = "release" => p \notin living

\* p lives on, or it awaits nothing of the set.
EndsSilently(set, p) ==
  alive' = alive \/ (/\ alive' = alive \ {p}
                     /\ \A t \in set : t.by = p => ~t.waiting)

\* An entry is dropped, perhaps with its process, and a release is sent for what it had.
LEMMA DropAndReleaseStep ==
  ASSUME LeaseInv, NEW p \in Processes, entry' = [entry EXCEPT ![p] = NoEntry], row' = row,
         NEW kept, Sound(kept), Weakens(kept, statements), GivenUp(kept, p),
         NEW sent, statements' = kept \cup sent, Sound(statements'),
         ReleasesOf(sent, p, alive'), EndsSilently(kept, p)
  PROVE  LeaseInv'
<1> /\ \A t \in kept : t.by = p => (t.op = "acquire" => ~t.waiting) /\ (t.op = "renew" => ~t.current)
    /\ \A t \in sent : /\ t.by = p /\ ~t.waiting /\ t.op \in {"releaseOne", "release"}
                       /\ t.op = "release" => p \notin alive'
    /\ alive' = alive \/ (alive' = alive \ {p} /\ \A t \in kept : t.by = p => ~t.waiting)
  <2>1. \A t \in kept : t.by = p => (t.op = "acquire" => ~t.waiting) /\ (t.op = "renew" => ~t.current)
    BY DEF GivenUp
  <2>2. \A t \in sent : /\ t.by = p /\ ~t.waiting /\ t.op \in {"releaseOne", "release"}
                        /\ t.op = "release" => p \notin alive'
    BY Zenon DEF ReleasesOf
  <2>3. alive' = alive \/ (alive' = alive \ {p} /\ \A t \in kept : t.by = p => ~t.waiting)
    BY DEF EndsSilently
  <2> QED
    BY <2>1, <2>2, <2>3
<1>1. \A q \in Processes : entry'[q] = IF q = p THEN NoEntry ELSE entry[q]
  BY DEF LeaseInv, LeaseTypeOK
<1>2. NoEntry.kind = "none" /\ NoEntry.left = 0
  BY DEF NoEntry
<1>3. LeaseTypeOK'
  BY NoEntryType DEF LeaseInv, LeaseTypeOK
<1>4. \A t \in statements' : t.by \in Processes
  BY DEF Sound, Statement
<1>5. \A t \in kept : /\ t.op = "acquire" /\ t.waiting => entry[t.by].kind = "acquiring"
                      /\ t.op = "renew" /\ t.current => HasLease(t.by)
  BY DEF Weakens, LeaseInv, AskedByEntry
<1>6. AskedByEntry'
  <2> SUFFICES ASSUME NEW t \in statements'
               PROVE  /\ (t.op = "acquire" /\ t.waiting) => entry'[t.by].kind = "acquiring"
                      /\ (t.op = "renew" /\ t.current) =>
                           entry'[t.by].kind \in {"fetching", "running", "refreshing"}
    BY DEF AskedByEntry, HasLease
  <2>1. CASE t \in sent
    BY <2>1
  <2>2. CASE t \in kept /\ t.by = p
    BY <2>2
  <2>3. CASE t \in kept /\ t.by # p
    <3>1. entry'[t.by] = entry[t.by]
      BY <1>1, <1>4, <2>3
    <3> QED
      BY <1>5, <2>3, <3>1 DEF HasLease
  <2> QED
    BY <2>1, <2>2, <2>3
<1>7. GivenBack'
  <2> SUFFICES ASSUME NEW t \in statements', t.op = "releaseOne", t.current
               PROVE  /\ entry'[t.by].kind \notin {"fetching", "running", "refreshing"}
                      /\ \A u \in statements' :
                           ~(u.op = "acquire" /\ u.by = t.by /\ u.waiting /\ u.answer = "ok")
    BY DEF GivenBack, HasLease
  <2>1. CASE t.by = p
    BY <1>1, <1>2, <2>1
  <2>2. CASE t.by # p
    <3>1. t \in kept /\ entry'[t.by] = entry[t.by]
      BY <1>1, <1>4, <2>2
    <3>2. PICK s \in statements : s.op = "releaseOne" /\ s.by = t.by /\ s.current
      BY <3>1 DEF Weakens
    <3>3. /\ ~HasLease(t.by)
          /\ \A u \in statements : ~(u.op = "acquire" /\ u.by = t.by /\ u.waiting /\ u.answer = "ok")
      BY <3>2 DEF LeaseInv, GivenBack
    <3>4. \A u \in kept : ~(u.op = "acquire" /\ u.by = t.by /\ u.waiting /\ u.answer = "ok")
      BY <3>3 DEF Weakens
    <3> QED
      BY <3>1, <3>3, <3>4 DEF HasLease
  <2> QED
    BY <2>1, <2>2
<1>8. EndedIsSilent'
  <2>1. \A q \in Processes \ alive' : entry'[q].kind = "none"
    BY <1>1, <1>2 DEF LeaseInv, EndedIsSilent
  <2>2. \A t \in kept : (t.waiting => t.by \in alive) /\ (t.op = "release" => t.by \notin alive)
    BY DEF Weakens, LeaseInv, EndedIsSilent
  <2>3. \A t \in kept : t.waiting => t.by \in alive'
    BY <2>2
  <2> QED
    BY <2>1, <2>2, <2>3 DEF EndedIsSilent
<1>9. GrantIsHeld'
  <2> SUFFICES ASSUME NEW t \in statements', Grant(t)
               PROVE  row.owner = t.by /\ row.left > Fence - t.age
    BY DEF GrantIsHeld, Grant
  <2>1. t \in kept
    BY DEF Grant
  <2>2. PICK s \in statements :
          /\ t.op = s.op /\ t.by = s.by /\ t.answer = s.answer /\ t.age = s.age
          /\ t.waiting => s.waiting
          /\ t.current => s.current
    BY <2>1 DEF Weakens
  <2>3. Grant(s)
    BY <2>2 DEF Grant
  <2> QED
    BY <2>2, <2>3 DEF LeaseInv, GrantIsHeld
<1>10. TrustedIsHeld'
  BY <1>1, <1>2 DEF LeaseInv, TrustedIsHeld, HasLease
<1> QED
  BY <1>3, <1>6, <1>7, <1>8, <1>9, <1>10 DEF LeaseInv

LEMMA ShedStep == ASSUME LeaseInv, NEW p \in Processes, Shed(p) PROVE LeaseInv'
<1> DEFINE kept == Orphan(Forget(statements, p, "acquire"), p)
           new == Sent("releaseOne", p, entry[p].current, FALSE)
           sent == IF HasLease(p) THEN {new} ELSE {}
<1>1. /\ entry' = [entry EXCEPT ![p] = NoEntry] /\ row' = row /\ alive' = alive
      /\ statements' = kept \cup sent
  BY DEF Shed, Drop
<1>2. /\ Sound(kept) /\ Weakens(kept, statements)
      /\ \A t \in kept : t.by = p => (t.op = "acquire" => ~t.waiting) /\ (t.op = "renew" => ~t.current)
  BY GiveUpSound
<1>3. entry[p].current \in BOOLEAN
  BY DEF LeaseInv, LeaseTypeOK, Entry
<1> HIDE DEF kept
<1>7. "releaseOne" \in {"releaseOne", "release"}
  OBVIOUS
<1>8. Sound(kept \cup {new})
  BY <1>2, <1>3, <1>7, ReleaseSound
<1>4. Sound(kept \cup {new}) /\ new.op = "releaseOne" /\ new.by = p /\ ~new.waiting
  BY <1>8 DEF Sent
<1> HIDE DEF new
<1>5. Sound(statements')
  BY <1>1, <1>2, <1>4
<1>6. ReleasesOf(sent, p, alive')
  BY <1>4 DEF ReleasesOf
<1>9. Sound(kept) /\ Weakens(kept, statements) /\ GivenUp(kept, p) /\ EndsSilently(kept, p)
  BY <1>1, <1>2 DEF GivenUp, EndsSilently
<1> HIDE DEF sent
<1> QED
  BY <1>1, <1>5, <1>6, <1>9, DropAndReleaseStep

LEMMA EndStep ==
  ASSUME LeaseInv, NEW p \in Processes, Stop(p) \/ Crash(p)
  PROVE  LeaseInv'
<1> DEFINE once == Forget(statements, p, "acquire")
           twice == Forget(once, p, "renew")
           kept == Orphan(twice, p)
           new == Sent("release", p, FALSE, FALSE)
<1>1. PICK sent : End(p, sent) /\ (sent = {new} \/ sent = {})
  BY DEF Stop, Crash
<1>2. /\ entry' = [entry EXCEPT ![p] = NoEntry] /\ row' = row /\ alive' = alive \ {p}
      /\ statements' = kept \cup sent
  BY <1>1 DEF End, Drop
<1>3. /\ Sound(once) /\ Weakens(once, statements)
      /\ \A t \in once : t.by = p /\ t.op = "acquire" => ~t.waiting
  BY ForgetSound DEF LeaseInv, Operations
<1> HIDE DEF once
<1>4. /\ Sound(twice) /\ Weakens(twice, once)
      /\ \A t \in twice : t.by = p /\ t.op = "renew" => ~t.waiting
  BY <1>3, ForgetSound DEF Operations
<1> HIDE DEF twice
<1>5. /\ Sound(kept) /\ Weakens(kept, twice)
      /\ \A t \in kept : t.by = p /\ t.op = "renew" => ~t.current
  BY <1>4, OrphanSound
<1> HIDE DEF kept
<1>6. Weakens(kept, once) /\ Weakens(kept, statements)
  BY <1>3, <1>4, <1>5, WeakensTwice
<1>7. \A t \in kept : t.by = p => ~t.waiting
  <2> SUFFICES ASSUME NEW t \in kept, t.by = p, t.waiting PROVE FALSE
    OBVIOUS
  <2>1. t.op \in {"acquire", "renew"}
    BY <1>5 DEF Sound
  <2>2. t.op # "acquire"
    BY <1>3, <1>6 DEF Weakens
  <2>3. t.op # "renew"
    BY <1>4, <1>5 DEF Weakens
  <2> QED
    BY <2>1, <2>2, <2>3
<1>12. "release" \in {"releaseOne", "release"} /\ FALSE \in BOOLEAN
  OBVIOUS
<1>13. Sound(kept \cup {new})
  BY <1>5, <1>12, ReleaseSound
<1>8. Sound(kept \cup {new}) /\ new.op = "release" /\ new.by = p /\ ~new.waiting
  BY <1>13 DEF Sent
<1> HIDE DEF new
<1>9. Sound(statements')
  BY <1>1, <1>2, <1>5, <1>8
<1>10. ReleasesOf(sent, p, alive')
  BY <1>1, <1>2, <1>8 DEF ReleasesOf
<1>11. GivenUp(kept, p) /\ EndsSilently(kept, p)
  BY <1>2, <1>5, <1>7 DEF GivenUp, EndsSilently
<1>14. Sound(kept) /\ Weakens(kept, statements)
  BY <1>5, <1>6
<1>15. entry' = [entry EXCEPT ![p] = NoEntry] /\ row' = row /\ statements' = kept \cup sent
  BY <1>2
<1> QED
  BY <1>9, <1>10, <1>11, <1>14, <1>15, DropAndReleaseStep

\* One step of the clock takes as much from what is trusted as from the row.
LEMMA TimeStep == ASSUME LeaseInv, Time PROVE LeaseInv'
<1> DEFINE F(s) == [s EXCEPT !.age = @ + 1]
<1>1. ASSUME NEW s \in statements
      PROVE  /\ s \in Statement /\ F(s) \in Statement /\ F(s).op = s.op /\ F(s).by = s.by
             /\ F(s).answer = s.answer /\ F(s).waiting = s.waiting /\ F(s).current = s.current
             /\ F(s).age = s.age + 1 /\ s.age \in Nat
  <2>1. s \in Statement
    BY DEF LeaseInv, Sound
  <2>2. s.age \in Nat /\ s.age + 1 \in Nat
    BY <2>1 DEF Statement
  <2> QED
    BY <2>1, <2>2 DEF Statement
<1>2. statements' = {F(s) : s \in statements} /\ alive' = alive
  BY DEF Time
<1>3. ASSUME NEW p \in Processes
      PROVE  /\ entry'[p] \in Entry /\ entry'[p].kind = entry[p].kind
             /\ entry'[p].left = IF entry[p].left > 0 THEN entry[p].left - 1 ELSE 0
             /\ entry[p].left \in Nat
  <2> DEFINE left == IF entry[p].left > 0 THEN entry[p].left - 1 ELSE 0
             shed == IF entry[p].shed >= 0 /\ entry[p].shed < Grace
                     THEN entry[p].shed + 1 ELSE entry[p].shed
  <2>1. entry[p] \in Entry
    BY DEF LeaseInv, LeaseTypeOK
  <2>2. left \in Nat /\ shed \in Int /\ entry[p].left \in Nat
    BY <2>1 DEF Entry
  <2>3. entry'[p] = [entry[p] EXCEPT !.left = left, !.shed = shed]
    BY <2>1 DEF Time, Entry
  <2> HIDE DEF left, shed
  <2>4. /\ entry'[p] \in Entry /\ entry'[p].kind = entry[p].kind
        /\ entry'[p].left = left
    BY <2>1, <2>2, <2>3 DEF Entry
  <2> QED
    BY <2>2, <2>4 DEF left
<1> HIDE DEF F
<1>4. /\ Fence \in Nat /\ MaxAge \in Nat /\ row.left \in Int
      /\ row \in [owner : Processes \cup {Nobody}, left : Int]
  BY LeaseAssumption DEF LeaseAssumption, LeaseInv, LeaseTypeOK
<1>5. /\ row' \in [owner : Processes \cup {Nobody}, left : Int]
      /\ row'.owner = row.owner
      /\ row.left > 0 /\ row.owner # Nobody => row'.left = row.left - 1
  <2>4. row' = IF row # NoRow /\ row.left > -MaxAge THEN [row EXCEPT !.left = row.left - 1] ELSE row
    BY DEF Time
  <2>1. CASE row # NoRow /\ row.left > -MaxAge
    <3>1. row' = [row EXCEPT !.left = row.left - 1] /\ row.left - 1 \in Int
      BY <1>4, <2>1, <2>4
    <3> QED
      BY <1>4, <3>1
  <2>2. CASE row = NoRow
    BY <1>4, <2>2 DEF Time, NoRow
  <2>3. CASE ~(row.left > -MaxAge)
    <3>1. row' = row /\ ~(row.left > 0)
      BY <1>4, <2>3, <2>4
    <3> QED
      BY <1>4, <3>1
  <2> QED
    BY <2>1, <2>2, <2>3
<1>6. LeaseTypeOK'
  <2>1. entry' \in [Processes -> Entry]
    <3>1. DOMAIN entry' = Processes /\ entry' = [p \in Processes |-> entry'[p]]
      BY DEF Time
    <3> QED
      BY <1>3, <3>1
  <2> QED
    BY <1>2, <1>5, <2>1 DEF LeaseInv, LeaseTypeOK
<1>7. \A t \in statements' : \E s \in statements : t = F(s)
  BY <1>2
<1>8. Sound(statements')
  <2>1. statements' \subseteq Statement
    BY <1>1, <1>7
  <2>2. \A t \in statements' : t.waiting => t.op \in {"acquire", "renew"}
    BY <1>1, <1>7 DEF LeaseInv, Sound
  <2>3. \A t \in statements' : t.op = "renew" /\ t.current => t.waiting
    BY <1>1, <1>7 DEF LeaseInv, Sound
  <2>4. \A t, u \in statements' :
          t.waiting /\ u.waiting /\ t.op = u.op /\ t.by = u.by => t = u
    BY <1>1, <1>7 DEF LeaseInv, Sound
  <2> QED
    BY <2>1, <2>2, <2>3, <2>4 DEF Sound
<1>9. \A t \in statements' : t.by \in Processes
  BY <1>8 DEF Sound, Statement
<1>10. AskedByEntry'
  BY <1>1, <1>3, <1>7, <1>9 DEF LeaseInv, AskedByEntry, HasLease
<1>11. GivenBack'
  <2> SUFFICES ASSUME NEW t \in statements', t.op = "releaseOne", t.current
               PROVE  /\ entry'[t.by].kind \notin {"fetching", "running", "refreshing"}
                      /\ \A u \in statements' :
                           ~(u.op = "acquire" /\ u.by = t.by /\ u.waiting /\ u.answer = "ok")
    BY DEF GivenBack, HasLease
  <2>1. PICK s \in statements : t = F(s)
    BY <1>7
  <2>2. s.op = "releaseOne" /\ s.current /\ s.by = t.by
    BY <1>1, <2>1
  <2>3. /\ ~HasLease(t.by)
        /\ \A u \in statements : ~(u.op = "acquire" /\ u.by = t.by /\ u.waiting /\ u.answer = "ok")
    BY <2>2 DEF LeaseInv, GivenBack
  <2>4. \A u \in statements' : ~(u.op = "acquire" /\ u.by = t.by /\ u.waiting /\ u.answer = "ok")
    BY <1>1, <1>7, <2>3
  <2> QED
    BY <1>3, <1>9, <2>3, <2>4 DEF HasLease
<1>12. EndedIsSilent'
  <2>1. \A t \in statements' : /\ t.waiting => t.by \in alive
                               /\ t.op = "release" => t.by \notin alive
    BY <1>1, <1>7 DEF LeaseInv, EndedIsSilent
  <2> QED
    BY <1>2, <1>3, <2>1 DEF LeaseInv, EndedIsSilent
<1>13. ASSUME NEW p \in Processes, NEW n \in Nat, row.owner = p, row.left > n + 1
       PROVE  row'.owner = p /\ row'.left > n
  BY <1>4, <1>5, <1>13, LeaseAssumption DEF LeaseAssumption
<1>14. GrantIsHeld'
  <2> SUFFICES ASSUME NEW t \in statements', Grant(t)
               PROVE  row'.owner = t.by /\ row'.left > Fence - t.age
    BY DEF GrantIsHeld, Grant
  <2>1. PICK s \in statements : t = F(s)
    BY <1>7
  <2>2. t.age = s.age + 1 /\ s.age \in Nat /\ t.by = s.by /\ t.age < Fence
    BY <1>1, <2>1 DEF Grant
  <2>3. Grant(s)
    BY <1>1, <1>4, <2>1, <2>2 DEF Grant
  <2>4. row.owner = t.by /\ row.left > Fence - s.age
    BY <2>2, <2>3 DEF LeaseInv, GrantIsHeld
  <2>5. Fence - t.age \in Nat /\ Fence - s.age = Fence - t.age + 1
    BY <1>4, <2>2
  <2> QED
    BY <1>9, <1>13, <2>4, <2>5
<1>15. TrustedIsHeld'
  <2> SUFFICES ASSUME NEW p \in Processes, HasLease(p), entry'[p].left > 0
               PROVE  row'.owner = p /\ row'.left > entry'[p].left
    BY <1>3 DEF TrustedIsHeld, HasLease
  <2>1. entry'[p].left \in Nat /\ entry[p].left = entry'[p].left + 1
    BY <1>3
  <2>2. row.owner = p /\ row.left > entry[p].left
    BY <2>1 DEF LeaseInv, TrustedIsHeld
  <2> QED
    BY <1>13, <2>1, <2>2
<1> QED
  BY <1>6, <1>8, <1>10, <1>11, <1>12, <1>14, <1>15 DEF LeaseInv

-----------------------------------------------------------------------------
(* The theorems                                                             *)

LEMMA InitInv == Init => LeaseInv
<1> SUFFICES ASSUME Init PROVE LeaseInv
  OBVIOUS
<1>1. NoEntry \in Entry /\ NoEntry.kind = "none" /\ NoEntry.left = 0
  BY DEF NoEntry, Entry, Kinds
<1>2. \A p \in Processes : entry[p] = NoEntry
  BY DEF Init
<1>3. LeaseTypeOK
  BY <1>1 DEF Init, LeaseTypeOK, NoRow
<1>4. Sound(statements) /\ AskedByEntry /\ GivenBack /\ GrantIsHeld
  BY DEF Init, Sound, AskedByEntry, GivenBack, GrantIsHeld
<1>5. EndedIsSilent /\ TrustedIsHeld
  BY <1>1, <1>2 DEF Init, EndedIsSilent, TrustedIsHeld, HasLease
<1> QED
  BY <1>3, <1>4, <1>5 DEF LeaseInv

\* The steps of a statement.
LEMMA StatementSteps ==
  ASSUME LeaseInv, NEW s \in statements,
         \/ \E b \in 0..MaxAge : Execute(s, b)
         \/ Lose(s) \/ AcquireAnswered(s) \/ TimesOut(s) \/ RenewalAnswered(s)
  PROVE  LeaseInv'
<1>1. ASSUME NEW b \in 0..MaxAge, Execute(s, b) PROVE LeaseInv'
  <2>1. s.answer = "none" /\ b \in 0..s.age /\ alive' = alive
    BY <1>1 DEF Execute
  <2> QED
    BY <1>1, <2>1, AcquireStep, RenewStep, ReleaseStep DEF Execute
<1>2. CASE Lose(s)
  <2>1. Sound(statements') /\ Weakens(statements', statements)
    BY <1>2, SubsetSound DEF Lose, LeaseInv
  <2> QED
    BY <1>2, <2>1, UnansweredStep DEF Lose
<1> QED
  BY <1>1, <1>2, AcquireAnsweredStep, TimesOutStep, RenewalAnsweredStep

\* The steps of a process that has an entry with a lease.
LEMMA EntrySteps ==
  ASSUME LeaseInv, NEW p \in Processes,
         \/ TokenAnswered(p) \/ Verified(p) \/ (\E kind \in {"running", "refreshing"} : Unverified(p, kind))
  PROVE  LeaseInv'
<1> DEFINE running == [entry[p] EXCEPT !.kind = "running", !.verified = FALSE]
           verified == [entry[p] EXCEPT !.verified = TRUE]
<1>1. entry[p] \in Entry
  BY NoEntryType DEF LeaseInv
<1>2. CASE TokenAnswered(p) /\ entry[p].left # 0
  <2>1. running \in Entry /\ running.left = entry[p].left /\ running.kind = "running"
    BY <1>1 DEF Entry, Kinds
  <2>2. HasLease(p) /\ entry' = [entry EXCEPT ![p] = running]
    BY <1>2 DEF TokenAnswered, HasLease
  <2> QED
    BY <1>2, <2>1, <2>2, EntryStep DEF TokenAnswered
<1>3. CASE TokenAnswered(p) /\ entry[p].left = 0
  BY <1>3, DropOnlyStep DEF TokenAnswered, HasLease
<1>4. CASE Verified(p)
  <2>1. verified \in Entry /\ verified.left = entry[p].left /\ verified.kind = entry[p].kind
    BY <1>1 DEF Entry
  <2>2. HasLease(p) /\ entry[p].kind = "running" /\ entry' = [entry EXCEPT ![p] = verified]
    BY <1>4 DEF Verified, HasLease
  <2> QED
    BY <1>4, <2>1, <2>2, EntryStep DEF Verified
<1>5. ASSUME NEW kind \in {"running", "refreshing"}, Unverified(p, kind) PROVE LeaseInv'
  <2> DEFINE e == [entry[p] EXCEPT !.kind = kind, !.verified = FALSE]
  <2>1. e \in Entry /\ e.left = entry[p].left /\ e.kind = kind
    BY <1>1 DEF Entry, Kinds
  <2>2. HasLease(p) /\ entry' = [entry EXCEPT ![p] = e]
    BY <1>5 DEF Unverified, HasLease
  <2> QED
    BY <1>5, <2>1, <2>2, EntryStep DEF Unverified
<1> QED
  BY <1>2, <1>3, <1>4, <1>5

\* runTick: owned again, or moved.  The entry may be any, and only its shed changes.
LEMMA ShedMarkStep ==
  ASSUME LeaseInv, NEW p \in Processes, Owned(p) \/ Moved(p)
  PROVE  LeaseInv'
<1>1. PICK shed \in Int : entry' = [entry EXCEPT ![p].shed = shed]
  BY DEF Owned, Moved
<1>2. UNCHANGED <<row, statements, alive>>
  BY DEF Owned, Moved
<1>3. \A q \in Processes : /\ entry'[q] \in Entry
                           /\ entry'[q].kind = entry[q].kind /\ entry'[q].left = entry[q].left
                           /\ entry[q].left \in Nat
  <2>1. \A q \in Processes : entry[q] \in Entry /\ entry[q].left \in Nat
    BY NoEntryType DEF LeaseInv
  <2> QED
    BY <1>1, <2>1 DEF LeaseInv, LeaseTypeOK, Entry
<1>4. entry' \in [Processes -> Entry]
  BY <1>1, <1>3 DEF LeaseInv, LeaseTypeOK
<1>5. Sound(statements') /\ Weakens(statements', statements)
  BY <1>2, SubsetSound DEF LeaseInv
<1>6. \A s \in statements : s.by \in Processes
  BY DEF LeaseInv, Sound, Statement
<1>7. AskedByEntry'
  BY <1>2, <1>3, <1>6 DEF LeaseInv, AskedByEntry, HasLease
<1>8. \A q \in Processes : entry'[q].kind \in {"fetching", "running", "refreshing"}
                           => HasLease(q) /\ entry'[q].left <= entry[q].left
  BY <1>3 DEF HasLease
<1>9. \A q \in Processes \ alive : entry'[q].kind = "none"
  BY <1>3 DEF LeaseInv, EndedIsSilent
<1> QED
  BY <1>2, <1>4, <1>5, <1>7, <1>8, <1>9, WeakeningStep

LEMMA IdleStep == ASSUME LeaseInv, NEW p \in Processes, Idle(p) PROVE LeaseInv'
<1>1. /\ entry' = [entry EXCEPT ![p] = NoEntry] /\ row' = row /\ alive' = alive
      /\ statements' = Orphan(Forget(statements, p, "acquire"), p)
  BY DEF Idle, Drop
<1> QED
  BY <1>1, GiveUpSound, DropStep

\* The inductive step: every action of Next, and a stutter.
LEMMA NextInv == LeaseInv /\ [Next]_vars => LeaseInv'
<1> SUFFICES ASSUME LeaseInv, [Next]_vars PROVE LeaseInv'
  OBVIOUS
<1>1. CASE UNCHANGED vars
  BY <1>1 DEF vars, LeaseInv, LeaseTypeOK, AskedByEntry, GivenBack, EndedIsSilent,
              GrantIsHeld, TrustedIsHeld, HasLease, Grant
<1>2. ASSUME NEW s \in statements,
             \/ \E b \in 0..MaxAge : Execute(s, b)
             \/ Lose(s) \/ AcquireAnswered(s) \/ TimesOut(s) \/ RenewalAnswered(s)
      PROVE  LeaseInv'
  BY <1>2, StatementSteps
<1>3. ASSUME NEW p \in Processes,
             TokenRefused(p) \/ Disconnected(p) \/ FenceFires(p)
      PROVE  LeaseInv'
  BY <1>3, DropOnlyStep DEF TokenRefused, Disconnected, FenceFires, HasLease
<1>4. ASSUME NEW p \in Processes, HoldEnds(p) \/ Send(p) \/ CommandEnds(p)
      PROVE  LeaseInv'
  <2>1. UNCHANGED <<row, entry, statements, alive>>
    BY <1>4 DEF HoldEnds, Send, CommandEnds
  <2> QED
    BY <2>1, SubsetSound, UnansweredStep DEF LeaseInv
<1>5. CASE Time
  BY <1>5, TimeStep
<1> QED
  BY <1>1, <1>2, <1>3, <1>4, <1>5, StartStep, SendRenewalStep, EntrySteps, IdleStep,
     ShedMarkStep, ShedStep, EndStep DEF Next

\* What a process trusts of its lease, the row grants it, for longer: no other process can take the
\* account before the fence (session-manager.ts, session-lease-ops.ts).
THEOREM TrustIsHeld == Spec => []TrustedIsHeld
<1>1. LeaseInv => TrustedIsHeld
  BY DEF LeaseInv
<1> QED
  BY <1>1, InitInv, NextInv, PTL DEF Spec

\* At most one process hands out the account's session for commands, however late the timers of the
\* processes fire (session-manager.ts, sessionFor).
THEOREM CommandsHaveOnePath == Spec => []OneCommandPath
<1>1. TrustedIsHeld => OneCommandPath
  BY DEF TrustedIsHeld, OneCommandPath, SessionFor, HasLease
<1> QED
  BY <1>1, TrustIsHeld, PTL

-----------------------------------------------------------------------------
(* The session manager: what holds in every state                          *)

EntryRows ==
  [kind : {"none", "starting", "running"}, gen : Nat, verified : BOOLEAN, refreshing : BOOLEAN,
   ever : BOOLEAN, lost : {"no", "fresh", "over"}, reported : BOOLEAN, rearmed : BOOLEAN,
   token : Nat, idle : BOOLEAN, shed : BOOLEAN]

ClientRows ==
  [state : {"idle", "connecting", "authenticating", "reconnecting", "ready", "token_expired"},
   user : {"none", "own", "other"}]

CallRows == [what : {"acquire", "token", "refresh"}, gen : Nat]

Histories ==
  [ready : BOOLEAN, down : BOOLEAN, told : Nat, refused : SUBSET Nat,
   false : BOOLEAN, foreign : BOOLEAN, again : BOOLEAN]

\* A client is of its entry, and is used once its user.data proved it the account's.
ClientOK(e, c, l) ==
  /\ e.kind = "running" <=> c.state # "idle"
  /\ e.refreshing <=> c.state = "token_expired"
  /\ e.verified => c = [state |-> "ready", user |-> "own"]
  /\ l = IF e.kind = "running" THEN {e.gen} ELSE {}

\* An account's calls are numbered by its entries; the entry of a call that is not out of date has
\* this one call, and is at the step that awaits it.
CallsOK(e, k, n) ==
  /\ IsFiniteSet(k) /\ \A d \in k : d.gen \in 1..n
  /\ e.kind # "none" =>
       /\ e.gen \in 1..n
       /\ \A d \in k : d.gen = e.gen =>
            /\ d.what = "refresh" => e.kind = "running" /\ e.refreshing
            /\ d.what # "refresh" => e.kind = "starting"
       /\ \A d, f \in k : d.gen = e.gen /\ f.gen = e.gen => d = f

\* The refused tokens of an account that may start again are forgotten; a running one has a newer
\* token than those before it.
RefusedOK(e, h, v, back, off) ==
  /\ ~h.again
  /\ back => e.kind = "none"
  /\ e.kind = "starting" \/ (e.kind = "none" /\ ~back /\ ~off) => h.refused = {}
  /\ e.kind = "running" => e.token <= v /\ \A t \in h.refused : t <= e.token

\* What the entry remembers of losses is what happened.
LossesOK(e, h) ==
  /\ ~h.false /\ ~h.foreign
  /\ e.kind # "running" => h.told = 0
  /\ e.kind = "running" =>
       /\ e.ever => h.ready
       /\ e.rearmed => e.ever
       /\ ~e.reported => h.told = 0
       /\ e.lost # "no" => h.down
       /\ e.refreshing => e.lost = "no"

AccountOK(a) ==
  /\ ClientOK(entries[a], client[a], live[a])
  /\ CallsOK(entries[a], calls[a], starts[a])
  /\ RefusedOK(entries[a], history[a], token[a], a \in heldBack, stopping)
  /\ LossesOK(entries[a], history[a])

ManagerRowsOK ==
  /\ entries \in [Accounts -> EntryRows] /\ client \in [Accounts -> ClientRows]
  /\ live \in [Accounts -> SUBSET Nat] /\ calls \in [Accounts -> SUBSET CallRows]
  /\ starts \in [Accounts -> Nat] /\ token \in [Accounts -> Nat]
  /\ history \in [Accounts -> Histories]
  /\ heldBack \subseteq Accounts /\ inWork \subseteq Accounts /\ mine \subseteq Accounts
  /\ tick \in [on : BOOLEAN, present : SUBSET Accounts] /\ startQueue \in Seq(Accounts)
  /\ stopping \in BOOLEAN

StartsBounded == IsFiniteSet(Starting) /\ Cardinality(Starting) <= StartConcurrency

ManagerInv == ManagerRowsOK /\ (\A a \in Accounts : AccountOK(a)) /\ StartsBounded

-----------------------------------------------------------------------------
LEMMA ManagerIs ==
  ASSUME ManagerInv, NEW a \in Accounts
  PROVE  /\ AccountOK(a) /\ entries[a] \in EntryRows /\ client[a] \in ClientRows
         /\ live[a] \in SUBSET Nat /\ calls[a] \in SUBSET CallRows /\ starts[a] \in Nat
         /\ token[a] \in Nat /\ history[a] \in Histories
BY DEF ManagerInv, ManagerRowsOK

LEMMA EmptyIs == EmptyEntry \in EntryRows /\ NoClient \in ClientRows /\ NoHistory \in Histories
BY DEF EmptyEntry, EntryRows, NoClient, ClientRows, NoHistory, Histories

\* No call of a start is made.
LEMMA FewerStarts ==
  ASSUME ManagerInv, Starting' \subseteq Starting PROVE StartsBounded'
<1>1. IsFiniteSet(Starting) /\ Cardinality(Starting) <= StartConcurrency
  BY DEF ManagerInv, StartsBounded
<1>2. IsFiniteSet(Starting') /\ Cardinality(Starting') <= Cardinality(Starting)
  BY <1>1, FS_Subset
<1>3. Cardinality(Starting) \in Nat /\ Cardinality(Starting') \in Nat /\ StartConcurrency \in Nat
  BY <1>1, <1>2, FS_CardinalityType, ManagerAssumption
<1> QED
  BY <1>1, <1>2, <1>3 DEF StartsBounded

LEMMA StartingIs ==
  /\ \A c : c \in Starting <=>
       \E a \in Accounts : \E d \in calls[a] : c = <<a, d>> /\ d.what \in {"acquire", "token"}
  /\ \A c : c \in Starting' <=>
       \E a \in Accounts : \E d \in calls'[a] : c = <<a, d>> /\ d.what \in {"acquire", "token"}
BY DEF Starting

LEMMA CallsStay == ASSUME ManagerInv, calls' = calls PROVE StartsBounded'
BY FewerStarts DEF Starting

\* One account moves.
LEMMA OneMoves ==
  ASSUME ManagerInv, NEW a \in Accounts, ManagerRowsOK', stopping' = stopping, StartsBounded',
         \A b \in Accounts \ {a} :
           /\ entries'[b] = entries[b] /\ client'[b] = client[b] /\ live'[b] = live[b]
           /\ calls'[b] = calls[b] /\ starts'[b] = starts[b] /\ token'[b] = token[b]
           /\ history'[b] = history[b] /\ (b \in heldBack' <=> b \in heldBack),
         AccountOK(a)'
  PROVE  ManagerInv'
<1>1. ASSUME NEW b \in Accounts \ {a} PROVE AccountOK(b)'
  BY ManagerIs DEF AccountOK
<1> QED
  BY <1>1 DEF ManagerInv

\* The account is held back, or forgotten.
LEMMA Dropped ==
  ASSUME NEW e \in EntryRows, NEW c, NEW l, NEW k, NEW n \in Nat, NEW h \in Histories,
         NEW v \in Nat,
         NEW back, NEW off, ClientOK(e, c, l), CallsOK(e, k, n),
         ~h.again, ~h.false, ~h.foreign, NEW g \in Histories, g.again = h.again,
         g.false = h.false, g.foreign = h.foreign, g.told = 0,
         back \/ off \/ g.refused = {}
  PROVE  /\ ClientOK(EmptyEntry, NoClient, l \ {e.gen}) /\ CallsOK(EmptyEntry, k, n)
         /\ RefusedOK(EmptyEntry, g, v, back, off) /\ LossesOK(EmptyEntry, g)
BY DEF ClientOK, CallsOK, RefusedOK, LossesOK, EmptyEntry, NoClient

LEMMA DropKeeps ==
  ASSUME ManagerInv, NEW a \in Accounts, NEW h \in Histories, DropEntry(a, h), ~h.again, ~h.false,
         ~h.foreign, NEW k, k \subseteq calls[a], calls' = [calls EXCEPT ![a] = k],
         UNCHANGED <<starts, scan, world, stopping>>
  PROVE  ManagerInv'
<1> DEFINE g == [h EXCEPT !.ready = FALSE, !.down = FALSE, !.told = 0]
<1>1. /\ AccountOK(a) /\ entries[a] \in EntryRows /\ starts[a] \in Nat /\ token[a] \in Nat
      /\ calls[a] \in SUBSET CallRows /\ live[a] \in SUBSET Nat
  BY ManagerIs
<1>2. /\ g \in Histories /\ g.again = h.again /\ g.false = h.false /\ g.foreign = h.foreign
      /\ g.told = 0
  BY DEF Histories
<1>3. /\ entries' = [entries EXCEPT ![a] = EmptyEntry] /\ client' = [client EXCEPT ![a] = NoClient]
      /\ live' = [live EXCEPT ![a] = live[a] \ {entries[a].gen}] /\ heldBack' = heldBack \cup {a}
      /\ history' = [history EXCEPT ![a] = g]
  BY DEF DropEntry, Forgotten
<1> HIDE DEF g
<1>4. IsFiniteSet(k) /\ \A d \in k : d.gen \in 1..starts[a]
  BY <1>1, FS_Subset DEF AccountOK, CallsOK
<1>5. CallsOK(entries[a], k, starts[a])
  BY <1>1, <1>4 DEF AccountOK, CallsOK
<1>6. /\ ClientOK(EmptyEntry, NoClient, live[a] \ {entries[a].gen})
      /\ CallsOK(EmptyEntry, k, starts[a])
      /\ RefusedOK(EmptyEntry, g, token[a], TRUE, stopping) /\ LossesOK(EmptyEntry, g)
  BY <1>1, <1>2, <1>5, Dropped DEF AccountOK
<1>7. ManagerRowsOK'
  BY <1>1, <1>2, <1>3, EmptyIs DEF ManagerInv, ManagerRowsOK, scan, world
<1>8. /\ entries'[a] = EmptyEntry /\ client'[a] = NoClient /\ live'[a] = live[a] \ {entries[a].gen}
      /\ calls'[a] = k /\ starts'[a] = starts[a] /\ history'[a] = g /\ token'[a] = token[a]
      /\ (a \in heldBack') = TRUE /\ stopping' = stopping
  BY <1>3 DEF ManagerInv, ManagerRowsOK, world
<1>9. AccountOK(a)'
  BY <1>6, <1>8 DEF AccountOK
<1>10. StartsBounded'
  <2>1. \A b \in Accounts : calls'[b] \subseteq calls[b]
    BY DEF ManagerInv, ManagerRowsOK
  <2>2. Starting' \subseteq Starting
    BY <2>1, StartingIs
  <2> QED
    BY <2>2, FewerStarts
<1>11. \A b \in Accounts \ {a} :
           /\ entries'[b] = entries[b] /\ client'[b] = client[b] /\ live'[b] = live[b]
           /\ calls'[b] = calls[b] /\ starts'[b] = starts[b] /\ token'[b] = token[b]
           /\ history'[b] = history[b] /\ (b \in heldBack' <=> b \in heldBack)
  BY <1>3 DEF ManagerInv, ManagerRowsOK, world
<1> QED
  BY <1>7, <1>8, <1>9, <1>10, <1>11, OneMoves

\* The drops with the account's own history.
LEMMA HistoryIs ==
  ASSUME ManagerInv, NEW a \in Accounts
  PROVE  history[a] \in Histories /\ ~history[a].again /\ ~history[a].false /\ ~history[a].foreign
BY ManagerIs DEF AccountOK, RefusedOK, LossesOK

\* The breaker is told of a loss, for the first time.
LEMMA ToldIs ==
  ASSUME NEW h \in Histories, ~h.false, h.told = 0
  PROVE  LET g == Told(h, TRUE) IN
         /\ g \in Histories /\ ~g.false /\ g.foreign = h.foreign /\ g.again = h.again
         /\ g.ready = h.ready /\ g.down = h.down /\ g.refused = h.refused
<1>1. (h.false \/ ~TRUE \/ h.told > 0) = FALSE
  OBVIOUS
<1>2. Told(h, TRUE) = [h EXCEPT !.told = h.told + 1, !.false = FALSE]
  BY <1>1 DEF Told, Histories
<1>3. h.told + 1 \in Nat
  OBVIOUS
<1>4. [h EXCEPT !.told = h.told + 1, !.false = FALSE] \in Histories
  BY <1>3 DEF Histories
<1>5. LET g == [h EXCEPT !.told = h.told + 1, !.false = FALSE] IN
      /\ ~g.false /\ g.foreign = h.foreign /\ g.again = h.again
      /\ g.ready = h.ready /\ g.down = h.down /\ g.refused = h.refused
  BY DEF Histories
<1> QED
  BY <1>2, <1>4, <1>5

LEMMA LeaseLostKeeps ==
  ASSUME ManagerInv, NEW a \in Accounts, LeaseLost(a) PROVE ManagerInv'
<1>1. calls' = [calls EXCEPT ![a] = calls[a]]
  BY DEF LeaseLost, ManagerInv, ManagerRowsOK
<1>2. DropEntry(a, history[a]) /\ UNCHANGED <<starts, scan, world, stopping>>
  BY DEF LeaseLost
<1> QED
  BY <1>1, <1>2, HistoryIs, DropKeeps

LEMMA ServerDisconnectsKeeps ==
  ASSUME ManagerInv, NEW a \in Accounts, ServerDisconnects(a) PROVE ManagerInv'
<1> DEFINE h == IF entries[a].ever /\ ~entries[a].reported THEN Told(history[a], history[a].ready)
                ELSE history[a]
<1>1. AccountOK(a) /\ entries[a] \in EntryRows /\ history[a] \in Histories
  BY ManagerIs
<1>2. h \in Histories /\ ~h.again /\ ~h.false /\ ~h.foreign
  <2>1. CASE entries[a].ever /\ ~entries[a].reported
    <3>1. history[a].ready /\ history[a].told = 0
      BY <1>1, <2>1 DEF ServerDisconnects, Running, AccountOK, LossesOK
    <3>2. history[a].ready = TRUE
      BY <1>1, <3>1 DEF Histories
    <3>3. h = Told(history[a], TRUE)
      BY <2>1, <3>2
    <3> HIDE DEF h
    <3> QED
      BY <1>1, <3>1, <3>3, HistoryIs, ToldIs
  <2>2. CASE ~(entries[a].ever /\ ~entries[a].reported)
    BY <2>2, HistoryIs
  <2> QED
    BY <2>1, <2>2
<1>3. calls' = [calls EXCEPT ![a] = calls[a]]
  BY DEF ServerDisconnects, ManagerInv, ManagerRowsOK
<1>4. DropEntry(a, h) /\ UNCHANGED <<starts, scan, world, stopping>>
  BY DEF ServerDisconnects
<1> HIDE DEF h
<1> QED
  BY <1>2, <1>3, <1>4, DropKeeps

-----------------------------------------------------------------------------
(* A running session's client                                              *)

LEMMA AccountMoves ==
  ASSUME ManagerInv, NEW a \in Accounts, NEW e \in EntryRows, NEW c \in ClientRows,
         NEW l \in SUBSET Nat, NEW k \in SUBSET CallRows, NEW h \in Histories,
         entries' = [entries EXCEPT ![a] = e], client' = [client EXCEPT ![a] = c],
         live' = [live EXCEPT ![a] = l], calls' = [calls EXCEPT ![a] = k],
         history' = [history EXCEPT ![a] = h], StartsBounded',
         UNCHANGED <<starts, heldBack, scan, world, stopping>>,
         ClientOK(e, c, l), CallsOK(e, k, starts[a]),
         RefusedOK(e, h, token[a], a \in heldBack, stopping), LossesOK(e, h)
  PROVE  ManagerInv'
<1>1. ManagerRowsOK'
  BY DEF ManagerInv, ManagerRowsOK, scan, world
<1>2. /\ entries'[a] = e /\ client'[a] = c /\ live'[a] = l /\ calls'[a] = k
      /\ starts'[a] = starts[a] /\ history'[a] = h /\ token'[a] = token[a]
      /\ heldBack' = heldBack /\ stopping' = stopping
  BY DEF ManagerInv, ManagerRowsOK, world
<1>3. AccountOK(a)'
  BY <1>2 DEF AccountOK
<1>4. \A b \in Accounts \ {a} :
           /\ entries'[b] = entries[b] /\ client'[b] = client[b] /\ live'[b] = live[b]
           /\ calls'[b] = calls[b] /\ starts'[b] = starts[b] /\ token'[b] = token[b]
           /\ history'[b] = history[b] /\ (b \in heldBack' <=> b \in heldBack)
  BY DEF ManagerInv, ManagerRowsOK, world
<1> QED
  BY <1>1, <1>2, <1>3, <1>4, OneMoves

\* A step of the client that makes no call and leaves the token as it is.
LEMMA ClientMoves ==
  ASSUME ManagerInv, NEW a \in Accounts, NEW e \in EntryRows, NEW c \in ClientRows,
         NEW h \in Histories,
         entries' = [entries EXCEPT ![a] = e], client' = [client EXCEPT ![a] = c],
         history' = [history EXCEPT ![a] = h],
         UNCHANGED <<live, calls, starts, heldBack, scan, world, stopping>>,
         e.kind = entries[a].kind, e.gen = entries[a].gen, e.token = entries[a].token,
         e.refreshing = entries[a].refreshing, h.refused = history[a].refused,
         h.again = history[a].again, ClientOK(e, c, live[a]), LossesOK(e, h)
  PROVE  ManagerInv'
<1>1. /\ AccountOK(a) /\ live[a] \in SUBSET Nat /\ calls[a] \in SUBSET CallRows /\ StartsBounded'
  BY ManagerIs, CallsStay
<1>2. CallsOK(e, calls[a], starts[a])
  BY <1>1 DEF AccountOK, CallsOK
<1>3. RefusedOK(e, h, token[a], a \in heldBack, stopping)
  BY <1>1 DEF AccountOK, RefusedOK
<1>4. live' = [live EXCEPT ![a] = live[a]] /\ calls' = [calls EXCEPT ![a] = calls[a]]
  BY DEF ManagerInv, ManagerRowsOK
<1> QED
  BY <1>1, <1>2, <1>3, <1>4, AccountMoves

LEMMA ReconnectsKeeps ==
  ASSUME ManagerInv, NEW a \in Accounts, Running(a), NEW from, NEW to, Reconnects(a, from, to),
         UNCHANGED <<live, calls, starts, heldBack, scan, world, stopping>>,
         from \notin {"token_expired", "idle"}, to \in {"authenticating", "reconnecting"}
  PROVE  ManagerInv'
<1> DEFINE e == [entries[a] EXCEPT !.verified = FALSE, !.lost = LostSince(a, from)]
           c == [state |-> to, user |-> "none"]
           h == [history[a] EXCEPT !.down = (@ \/ from = "ready")]
<1>1. /\ AccountOK(a) /\ entries[a] \in EntryRows /\ client[a] \in ClientRows
      /\ history[a] \in Histories
  BY ManagerIs
<1>2. LostSince(a, from) \in {"no", "fresh", "over"}
  BY <1>1 DEF LostSince, EntryRows
<1>3. LostSince(a, from) # "no" => entries[a].lost # "no" \/ from = "ready"
  BY DEF LostSince
<1>4. /\ e \in EntryRows /\ c \in ClientRows /\ h \in Histories
  BY <1>1, <1>2 DEF EntryRows, ClientRows, Histories
<1>5. /\ entries' = [entries EXCEPT ![a] = e] /\ client' = [client EXCEPT ![a] = c]
      /\ history' = [history EXCEPT ![a] = h]
  BY <1>1 DEF Reconnects, Unproven
<1>6. /\ e.kind = "running" /\ e.kind = entries[a].kind /\ e.gen = entries[a].gen
      /\ e.token = entries[a].token /\ e.refreshing = entries[a].refreshing /\ ~e.verified
      /\ e.lost = LostSince(a, from) /\ e.ever = entries[a].ever /\ e.rearmed = entries[a].rearmed
      /\ e.reported = entries[a].reported
  BY <1>1 DEF EntryRows, Running
<1>7. /\ h.refused = history[a].refused /\ h.again = history[a].again /\ h.ready = history[a].ready
      /\ h.told = history[a].told /\ h.false = history[a].false /\ h.foreign = history[a].foreign
  BY <1>1 DEF Histories
<1>8. h.down = (history[a].down \/ from = "ready")
  BY <1>1 DEF Histories
<1> HIDE DEF e, h
<1>9. ~entries[a].refreshing
  BY <1>1 DEF Reconnects, AccountOK, ClientOK
<1>10. ClientOK(e, c, live[a])
  BY <1>1, <1>6, <1>9 DEF AccountOK, ClientOK
<1>11. LossesOK(e, h)
  BY <1>1, <1>3, <1>6, <1>7, <1>8, <1>9 DEF AccountOK, LossesOK
<1> QED
  BY <1>4, <1>5, <1>6, <1>7, <1>10, <1>11, ClientMoves

LEMMA ReconnectingKeeps ==
  ASSUME ManagerInv, NEW a \in Accounts, Authenticates(a) \/ Breaks(a) PROVE ManagerInv'
BY ReconnectsKeeps DEF Authenticates, Breaks

LEMMA ReadyKeeps ==
  ASSUME ManagerInv, NEW a \in Accounts, Ready(a) PROVE ManagerInv'
<1> DEFINE e == [entries[a] EXCEPT !.ever = TRUE, !.lost = "no", !.reported = FALSE,
                                   !.rearmed = FALSE]
           h == [history[a] EXCEPT !.ready = TRUE, !.down = FALSE, !.told = 0]
<1>1. /\ AccountOK(a) /\ entries[a] \in EntryRows /\ client[a] \in ClientRows
      /\ history[a] \in Histories
  BY ManagerIs
<1>2. PICK u \in {"own", "other"} : client' = [client EXCEPT ![a] = [state |-> "ready", user |-> u]]
  BY DEF Ready
<1> DEFINE c == [state |-> "ready", user |-> u]
<1>3. e \in EntryRows /\ c \in ClientRows /\ h \in Histories
  BY <1>1 DEF EntryRows, ClientRows, Histories
<1>4. /\ entries' = [entries EXCEPT ![a] = e] /\ client' = [client EXCEPT ![a] = c]
      /\ history' = [history EXCEPT ![a] = h]
      /\ UNCHANGED <<live, calls, starts, heldBack, scan, world, stopping>>
  BY <1>1, <1>2 DEF Ready
<1>5. /\ e.kind = "running" /\ e.kind = entries[a].kind /\ e.gen = entries[a].gen
      /\ e.token = entries[a].token /\ e.refreshing = entries[a].refreshing
      /\ e.verified = entries[a].verified /\ e.lost = "no" /\ e.ever /\ ~e.rearmed /\ ~e.reported
  BY <1>1 DEF EntryRows, Running, Ready
<1>6. /\ h.refused = history[a].refused /\ h.again = history[a].again /\ h.ready
      /\ h.told = 0 /\ h.false = history[a].false /\ h.foreign = history[a].foreign
  BY <1>1 DEF Histories
<1> HIDE DEF e, h
<1>7. ~entries[a].refreshing /\ ~entries[a].verified
  BY <1>1 DEF Ready, AccountOK, ClientOK
<1>8. ClientOK(e, c, live[a])
  BY <1>1, <1>5, <1>7 DEF AccountOK, ClientOK
<1>9. LossesOK(e, h)
  BY <1>1, <1>5, <1>6, <1>7 DEF AccountOK, LossesOK
<1> QED
  BY <1>3, <1>4, <1>5, <1>6, <1>8, <1>9, ClientMoves

LEMMA UserDataKeeps ==
  ASSUME ManagerInv, NEW a \in Accounts, UserData(a) PROVE ManagerInv'
<1>1. /\ AccountOK(a) /\ entries[a] \in EntryRows /\ client[a] \in ClientRows
      /\ history[a] \in Histories
  BY ManagerIs
<1>2. CASE client[a].user = "own"
  <2> DEFINE e == [entries[a] EXCEPT !.verified = TRUE]
  <2>1. e \in EntryRows
    BY <1>1 DEF EntryRows
  <2>2. /\ e.kind = "running" /\ e.kind = entries[a].kind /\ e.gen = entries[a].gen
        /\ e.token = entries[a].token /\ e.refreshing = entries[a].refreshing
        /\ e.lost = entries[a].lost /\ e.ever = entries[a].ever /\ e.rearmed = entries[a].rearmed
        /\ e.reported = entries[a].reported
    BY <1>1 DEF EntryRows, Running, UserData
  <2>3. /\ entries' = [entries EXCEPT ![a] = e] /\ client' = [client EXCEPT ![a] = client[a]]
        /\ history' = [history EXCEPT ![a] = history[a]]
        /\ UNCHANGED <<live, calls, starts, heldBack, scan, world, stopping>>
    BY <1>2 DEF UserData, ManagerInv, ManagerRowsOK
  <2> HIDE DEF e
  <2>4. client[a] = [state |-> "ready", user |-> "own"]
    BY <1>1, <1>2 DEF UserData, ClientRows
  <2>5. ClientOK(e, client[a], live[a])
    BY <1>1, <2>2, <2>4 DEF AccountOK, ClientOK
  <2>6. LossesOK(e, history[a])
    BY <1>1, <2>2 DEF AccountOK, LossesOK
  <2> QED
    BY <1>1, <2>1, <2>2, <2>3, <2>5, <2>6, ClientMoves
<1>3. CASE client[a].user # "own"
  <2>1. calls' = [calls EXCEPT ![a] = calls[a]]
    BY DEF UserData, ManagerInv, ManagerRowsOK
  <2>2. DropEntry(a, history[a]) /\ UNCHANGED <<starts, scan, world, stopping>>
    BY <1>3 DEF UserData
  <2> QED
    BY <2>1, <2>2, HistoryIs, DropKeeps
<1> QED
  BY <1>2, <1>3

\* An event of a session is of the account's own user.
LEMMA EventKeeps ==
  ASSUME ManagerInv, NEW a \in Accounts, Event(a) PROVE ManagerInv'
<1>1. /\ AccountOK(a) /\ entries[a] \in EntryRows /\ client[a] \in ClientRows
      /\ history[a] \in Histories
  BY ManagerIs
<1>2. client[a].user = "own" /\ history[a].foreign = FALSE
  BY <1>1 DEF Event, AccountOK, ClientOK, LossesOK, Histories
<1>3. (history[a].foreign \/ client[a].user # "own") = FALSE
  BY <1>2
<1>4. [history[a] EXCEPT !.foreign = FALSE] = history[a]
  BY <1>1, <1>2 DEF Histories
<1>5. history' = [history EXCEPT ![a].foreign = FALSE]
  BY <1>3 DEF Event, ManagerInv, ManagerRowsOK
<1>6. history' = history
  BY <1>4, <1>5 DEF ManagerInv, ManagerRowsOK
<1>7. /\ entries' = [entries EXCEPT ![a] = entries[a]] /\ client' = [client EXCEPT ![a] = client[a]]
      /\ history' = [history EXCEPT ![a] = history[a]]
      /\ UNCHANGED <<live, calls, starts, heldBack, scan, world, stopping>>
  BY <1>6 DEF Event, ManagerInv, ManagerRowsOK
<1> QED
  BY <1>1, <1>7, ClientMoves DEF AccountOK

LEMMA GracePassesKeeps ==
  ASSUME ManagerInv, NEW a \in Accounts, GracePasses(a) PROVE ManagerInv'
<1> DEFINE e == [entries[a] EXCEPT !.lost = "over"]
<1>1. /\ AccountOK(a) /\ entries[a] \in EntryRows /\ client[a] \in ClientRows
      /\ history[a] \in Histories
  BY ManagerIs
<1>2. e \in EntryRows
  BY <1>1 DEF EntryRows
<1>3. /\ e.kind = entries[a].kind /\ e.gen = entries[a].gen /\ e.verified = entries[a].verified
      /\ e.token = entries[a].token /\ e.refreshing = entries[a].refreshing
      /\ e.ever = entries[a].ever /\ e.rearmed = entries[a].rearmed
      /\ e.reported = entries[a].reported
  BY <1>1 DEF EntryRows
<1>4. /\ entries' = [entries EXCEPT ![a] = e] /\ client' = [client EXCEPT ![a] = client[a]]
      /\ history' = [history EXCEPT ![a] = history[a]]
      /\ UNCHANGED <<live, calls, starts, heldBack, scan, world, stopping>>
  BY DEF GracePasses, ManagerInv, ManagerRowsOK
<1> HIDE DEF e
<1>5. ClientOK(e, client[a], live[a])
  BY <1>1, <1>3 DEF AccountOK, ClientOK
<1>6. LossesOK(e, history[a])
  BY <1>1, <1>3 DEF GracePasses, AccountOK, LossesOK
<1> QED
  BY <1>1, <1>2, <1>3, <1>4, <1>5, <1>6, ClientMoves

\* The broker refused the token: the refresh is the entry's one call.
LEMMA TokenExpiresKeeps ==
  ASSUME ManagerInv, NEW a \in Accounts, TokenExpires(a) PROVE ManagerInv'
<1> DEFINE e == [entries[a] EXCEPT !.verified = FALSE, !.lost = "no", !.rearmed = entries[a].ever,
                                   !.refreshing = TRUE]
           c == [state |-> "token_expired", user |-> "none"]
           d == [what |-> "refresh", gen |-> entries[a].gen]
           k == calls[a] \cup {d}
           h == [history[a] EXCEPT !.down = FALSE,
                                   !.refused = history[a].refused \cup {entries[a].token}]
<1>1. /\ AccountOK(a) /\ entries[a] \in EntryRows /\ client[a] \in ClientRows
      /\ history[a] \in Histories
      /\ calls[a] \in SUBSET CallRows /\ starts[a] \in Nat /\ live[a] \in SUBSET Nat
  BY ManagerIs
<1>2. e \in EntryRows /\ c \in ClientRows /\ h \in Histories /\ d \in CallRows
  BY <1>1 DEF EntryRows, ClientRows, Histories, CallRows
<1>3. /\ e.kind = "running" /\ e.kind = entries[a].kind /\ e.gen = entries[a].gen
      /\ e.token = entries[a].token /\ e.refreshing /\ ~e.verified /\ e.lost = "no"
      /\ e.ever = entries[a].ever /\ e.rearmed = entries[a].ever
      /\ e.reported = entries[a].reported
  BY <1>1 DEF EntryRows, Running, TokenExpires
<1>4. /\ h.refused = history[a].refused \cup {entries[a].token} /\ h.again = history[a].again
      /\ h.ready = history[a].ready
      /\ h.told = history[a].told /\ h.false = history[a].false /\ h.foreign = history[a].foreign
  BY <1>1 DEF Histories
<1>5. /\ entries' = [entries EXCEPT ![a] = e] /\ client' = [client EXCEPT ![a] = c]
      /\ history' = [history EXCEPT ![a] = h] /\ calls' = [calls EXCEPT ![a] = k]
      /\ live' = [live EXCEPT ![a] = live[a]]
      /\ UNCHANGED <<starts, heldBack, scan, world, stopping>>
  BY <1>1 DEF TokenExpires, Awaits, Credentials, ManagerInv, ManagerRowsOK
<1>6. StartsBounded'
  <2>1. d.what = "refresh" /\ calls'[a] = k /\ \A b \in Accounts \ {a} : calls'[b] = calls[b]
    BY <1>5 DEF ManagerInv, ManagerRowsOK
  <2>2. Starting' \subseteq Starting
    BY <2>1, StartingIs
  <2> QED
    BY <2>2, FewerStarts
<1>7. d.what = "refresh" /\ d.gen = entries[a].gen /\ k \in SUBSET CallRows
  BY <1>1, <1>2
<1> HIDE DEF e, h, d
<1>8. ~entries[a].refreshing /\ entries[a].kind = "running"
  BY <1>1 DEF TokenExpires, Running, AccountOK, ClientOK
<1>9. ClientOK(e, c, live[a])
  BY <1>1, <1>3 DEF AccountOK, ClientOK
<1>10. CallsOK(e, k, starts[a])
  <2>1. IsFiniteSet(k)
    BY <1>1, FS_AddElement DEF AccountOK, CallsOK
  <2>2. \A f \in calls[a] : f.gen # entries[a].gen
    BY <1>1, <1>8 DEF AccountOK, CallsOK
  <2> QED
    BY <1>1, <1>3, <1>7, <1>8, <2>1, <2>2 DEF AccountOK, CallsOK
<1>11. RefusedOK(e, h, token[a], a \in heldBack, stopping)
  <2>1. entries[a].token \in Nat
    BY <1>1 DEF EntryRows
  <2> QED
    BY <1>1, <1>3, <1>4, <1>8, <2>1 DEF AccountOK, RefusedOK
<1>12. LossesOK(e, h)
  BY <1>1, <1>3, <1>4, <1>8 DEF AccountOK, LossesOK
<1> QED
  BY <1>1, <1>2, <1>5, <1>6, <1>7, <1>9, <1>10, <1>11, <1>12, AccountMoves

-----------------------------------------------------------------------------
(* Answers                                                                 *)

\* A call is over.
LEMMA CallGone ==
  ASSUME ManagerInv, NEW a \in Accounts, NEW call \in calls[a]
  PROVE  LET k == calls[a] \ {call} IN
         /\ k \in SUBSET CallRows /\ k \subseteq calls[a]
         /\ CallsOK(entries[a], k, starts[a])
         /\ calls' = [calls EXCEPT ![a] = k] => StartsBounded'
<1> DEFINE k == calls[a] \ {call}
<1>1. AccountOK(a) /\ calls[a] \in SUBSET CallRows
  BY ManagerIs
<1>2. IsFiniteSet(k)
  BY <1>1, FS_Subset DEF AccountOK, CallsOK
<1>3. CallsOK(entries[a], k, starts[a])
  BY <1>1, <1>2 DEF AccountOK, CallsOK
<1>4. ASSUME calls' = [calls EXCEPT ![a] = k] PROVE StartsBounded'
  <2>1. \A b \in Accounts : calls'[b] \subseteq calls[b]
    BY <1>4 DEF ManagerInv, ManagerRowsOK
  <2>2. Starting' \subseteq Starting
    BY <2>1, StartingIs
  <2> QED
    BY <2>2, FewerStarts
<1> QED
  BY <1>1, <1>3, <1>4

\* An answer for an entry that is no more changes nothing but the call.
LEMMA StaleKeeps ==
  ASSUME ManagerInv, NEW a \in Accounts, NEW call \in calls[a], CallAnswered(a, call),
         UNCHANGED <<entries, client, live, heldBack, history, starts, scan, world, stopping>>
  PROVE  ManagerInv'
<1> DEFINE k == calls[a] \ {call}
<1>1. /\ AccountOK(a) /\ entries[a] \in EntryRows /\ client[a] \in ClientRows
      /\ history[a] \in Histories /\ live[a] \in SUBSET Nat
  BY ManagerIs
<1>2. calls' = [calls EXCEPT ![a] = k]
  BY DEF CallAnswered, ManagerInv, ManagerRowsOK
<1>3. k \in SUBSET CallRows /\ CallsOK(entries[a], k, starts[a]) /\ StartsBounded'
  BY <1>2, CallGone
<1> HIDE DEF k
<1>4. /\ entries' = [entries EXCEPT ![a] = entries[a]] /\ client' = [client EXCEPT ![a] = client[a]]
      /\ history' = [history EXCEPT ![a] = history[a]] /\ live' = [live EXCEPT ![a] = live[a]]
  BY DEF ManagerInv, ManagerRowsOK
<1> QED
  BY <1>1, <1>2, <1>3, <1>4, AccountMoves DEF AccountOK

\* The answer drops the account.
LEMMA AnswerDrops ==
  ASSUME ManagerInv, NEW a \in Accounts, NEW call \in calls[a], CallAnswered(a, call),
         DropEntry(a, history[a]), UNCHANGED <<starts, scan, world, stopping>>
  PROVE  ManagerInv'
<1>1. calls' = [calls EXCEPT ![a] = calls[a] \ {call}]
  BY DEF CallAnswered, ManagerInv, ManagerRowsOK
<1> QED
  BY <1>1, HistoryIs, DropKeeps

LEMMA LeaseAnsweredKeeps ==
  ASSUME ManagerInv, NEW a \in Accounts, NEW call \in calls[a], LeaseAnswered(a, call)
  PROVE  ManagerInv'
<1>1. UNCHANGED <<starts, scan, world, stopping>>
  BY DEF LeaseAnswered
<1>2. CASE CallAnswered(a, call) /\ UNCHANGED <<entries, client, live, heldBack, history>>
  BY <1>1, <1>2, StaleKeeps
<1>3. CASE CallAnswered(a, call) /\ DropEntry(a, history[a])
  BY <1>1, <1>3, AnswerDrops
<1> DEFINE d == [what |-> "token", gen |-> call.gen]
           k == (calls[a] \ {call}) \cup {d}
<1>4. CASE /\ Current(a, call) /\ calls' = [calls EXCEPT ![a] = k]
           /\ UNCHANGED <<entries, client, live, heldBack, history>>
  <2>1. /\ AccountOK(a) /\ entries[a] \in EntryRows /\ client[a] \in ClientRows
        /\ history[a] \in Histories /\ live[a] \in SUBSET Nat /\ calls[a] \in SUBSET CallRows
    BY ManagerIs
  <2>2. call.what = "acquire" /\ call.gen = entries[a].gen /\ call.gen \in Nat
        /\ entries[a].kind # "none" /\ call \in CallRows
    BY <1>4, <2>1 DEF LeaseAnswered, Current, CallRows
  <2>3. entries[a].kind = "starting" /\ \A f \in calls[a] \ {call} : f.gen # entries[a].gen
    BY <2>1, <2>2 DEF AccountOK, CallsOK
  <2>4. d \in CallRows /\ d.what = "token" /\ d.gen = entries[a].gen
    BY <2>2 DEF CallRows
  <2> HIDE DEF d
  <2>5. k \in SUBSET CallRows
    BY <2>1, <2>4
  <2>6. IsFiniteSet(k)
    <3>1. IsFiniteSet(calls[a] \ {call})
      BY <2>1, FS_Subset DEF AccountOK, CallsOK
    <3> QED
      BY <3>1, FS_AddElement
  <2>7. CallsOK(entries[a], k, starts[a])
    BY <2>1, <2>2, <2>3, <2>4, <2>6 DEF AccountOK, CallsOK
  <2>8. StartsBounded'
    <3> DEFINE S == Starting \ {<<a, call>>}
    <3>1. /\ IsFiniteSet(Starting) /\ Cardinality(Starting) <= StartConcurrency
          /\ StartConcurrency \in Nat
      BY ManagerAssumption DEF ManagerInv, StartsBounded
    <3>2. <<a, call>> \in Starting
      BY <2>2, StartingIs
    <3>3. /\ IsFiniteSet(S) /\ Cardinality(S) = Cardinality(Starting) - 1
          /\ Cardinality(Starting) \in Nat
      BY <3>1, <3>2, FS_RemoveElement, FS_CardinalityType
    <3>4. /\ IsFiniteSet(S \cup {<<a, d>>}) /\ Cardinality(S \cup {<<a, d>>}) \in Nat
          /\ Cardinality(S \cup {<<a, d>>}) <= Cardinality(S) + 1
      <4>1. /\ IsFiniteSet(S \cup {<<a, d>>})
            /\ Cardinality(S \cup {<<a, d>>}) =
                 IF <<a, d>> \in S THEN Cardinality(S) ELSE Cardinality(S) + 1
        BY <3>3, FS_AddElement
      <4>2. Cardinality(S \cup {<<a, d>>}) \in Nat /\ Cardinality(S) \in Nat
        BY <3>3, <4>1, FS_CardinalityType
      <4> QED
        BY <4>1, <4>2
    <3>5. Starting' \subseteq S \cup {<<a, d>>}
      <4>1. calls'[a] = k /\ \A b \in Accounts \ {a} : calls'[b] = calls[b]
        BY <1>4 DEF ManagerInv, ManagerRowsOK
      <4>2. ASSUME NEW b \in Accounts, NEW f \in calls'[b], f.what \in {"acquire", "token"}
            PROVE  <<b, f>> \in S \cup {<<a, d>>}
        <5>1. CASE b = a /\ f = d
          BY <5>1
        <5>2. CASE ~(b = a /\ f = d)
          <6>1. f \in calls[b] /\ ~(b = a /\ f = call)
            BY <4>1, <5>2
          <6>2. <<b, f>> \in Starting /\ <<b, f>> # <<a, call>>
            BY <4>2, <6>1, StartingIs
          <6> QED
            BY <6>2
        <5> QED
          BY <5>1, <5>2
      <4> HIDE DEF S
      <4> QED
        BY <4>2, StartingIs
    <3>6. IsFiniteSet(Starting') /\ Cardinality(Starting') <= Cardinality(S \cup {<<a, d>>})
      BY <3>4, <3>5, FS_Subset
    <3>7. Cardinality(Starting') \in Nat
      BY <3>6, FS_CardinalityType
    <3> HIDE DEF S
    <3> QED
      BY <3>1, <3>3, <3>4, <3>6, <3>7 DEF StartsBounded
  <2>9. /\ entries' = [entries EXCEPT ![a] = entries[a]]
        /\ client' = [client EXCEPT ![a] = client[a]]
        /\ history' = [history EXCEPT ![a] = history[a]] /\ live' = [live EXCEPT ![a] = live[a]]
    BY <1>4 DEF ManagerInv, ManagerRowsOK
  <2> HIDE DEF k
  <2> QED
    BY <1>1, <1>4, <2>1, <2>5, <2>7, <2>8, <2>9, AccountMoves DEF AccountOK
<1> QED
  BY <1>1, <1>2, <1>3, <1>4 DEF LeaseAnswered

LEMMA StartTokenAnsweredKeeps ==
  ASSUME ManagerInv, NEW a \in Accounts, NEW call \in calls[a], StartTokenAnswered(a, call)
  PROVE  ManagerInv'
<1>1. CallAnswered(a, call) /\ call.what = "token" /\ UNCHANGED <<starts, scan, world, stopping>>
  BY DEF StartTokenAnswered
<1>2. CASE UNCHANGED <<entries, client, live, heldBack, history>>
  BY <1>1, <1>2, StaleKeeps
<1>3. CASE DropEntry(a, history[a])
  BY <1>1, <1>3, AnswerDrops
<1> DEFINE e == [EmptyEntry EXCEPT !.kind = "running", !.gen = call.gen, !.token = token[a]]
           c == [state |-> "connecting", user |-> "none"]
           l == live[a] \cup {call.gen}
           k == calls[a] \ {call}
<1>4. CASE /\ Current(a, call) /\ entries' = [entries EXCEPT ![a] = e]
           /\ Starts(a, call.gen, token[a]) /\ heldBack' = heldBack
  <2>1. /\ AccountOK(a) /\ entries[a] \in EntryRows /\ client[a] \in ClientRows /\ token[a] \in Nat
        /\ history[a] \in Histories /\ live[a] \in SUBSET Nat /\ calls[a] \in SUBSET CallRows
    BY ManagerIs
  <2>2. call.gen = entries[a].gen /\ call.gen \in Nat /\ entries[a].kind # "none"
    BY <1>4, <2>1 DEF Current, CallRows
  <2>3. entries[a].kind = "starting" /\ \A f \in k : f.gen # entries[a].gen
    BY <1>1, <2>1, <2>2 DEF AccountOK, CallsOK
  <2>4. history[a].refused = {} /\ history[a].again = FALSE
    BY <2>1, <2>3 DEF AccountOK, RefusedOK, Histories
  <2>5. history' = [history EXCEPT ![a] = history[a]]
    <3>1. (history[a].again \/ token[a] \in history[a].refused) = FALSE
      BY <2>4
    <3>2. [history[a] EXCEPT !.again = FALSE] = history[a]
      BY <2>1, <2>4 DEF Histories
    <3>3. history' = [history EXCEPT ![a].again = FALSE]
      BY <1>4, <3>1 DEF Starts, ManagerInv, ManagerRowsOK
    <3> QED
      BY <3>2, <3>3 DEF ManagerInv, ManagerRowsOK
  <2>6. /\ e.kind = "running" /\ e.gen = entries[a].gen /\ e.token = token[a] /\ ~e.verified
        /\ ~e.refreshing /\ ~e.ever /\ e.lost = "no" /\ ~e.reported /\ ~e.rearmed
    BY <2>2 DEF EmptyEntry
  <2>7. e \in EntryRows /\ c \in ClientRows /\ l \in SUBSET Nat
    BY <2>1, <2>2 DEF EmptyEntry, EntryRows, ClientRows
  <2>8. l = {entries[a].gen}
    BY <2>1, <2>2, <2>3 DEF AccountOK, ClientOK
  <2>9. calls' = [calls EXCEPT ![a] = k]
    BY <1>1 DEF CallAnswered, ManagerInv, ManagerRowsOK
  <2>10. k \in SUBSET CallRows /\ CallsOK(entries[a], k, starts[a]) /\ StartsBounded'
    BY <2>9, CallGone
  <2>11. client' = [client EXCEPT ![a] = c] /\ live' = [live EXCEPT ![a] = l]
    BY <1>4 DEF Starts, ManagerInv, ManagerRowsOK
  <2> HIDE DEF e, l, k
  <2>12. ClientOK(e, c, l)
    BY <2>6, <2>8 DEF ClientOK
  <2>13. CallsOK(e, k, starts[a])
    BY <2>2, <2>3, <2>6, <2>10 DEF CallsOK
  <2>14. RefusedOK(e, history[a], token[a], a \in heldBack, stopping)
    BY <2>1, <2>2, <2>4, <2>6 DEF AccountOK, RefusedOK
  <2>15. LossesOK(e, history[a])
    BY <2>1, <2>3, <2>6 DEF AccountOK, LossesOK
  <2> QED
    BY <1>1, <1>4, <2>1, <2>5, <2>7, <2>9, <2>10, <2>11, <2>12, <2>13, <2>14, <2>15, AccountMoves
<1> QED
  BY <1>2, <1>3, <1>4 DEF StartTokenAnswered

\* A token the session restarts with is newer than each the broker refused.
LEMMA RefreshAnsweredKeeps ==
  ASSUME ManagerInv, NEW a \in Accounts, NEW call \in calls[a], RefreshAnswered(a, call)
  PROVE  ManagerInv'
<1>1. CallAnswered(a, call) /\ call.what = "refresh" /\ UNCHANGED <<starts, scan, world, stopping>>
  BY DEF RefreshAnswered
<1>2. CASE UNCHANGED <<entries, client, live, heldBack, history>>
  BY <1>1, <1>2, StaleKeeps
<1>3. CASE DropEntry(a, history[a])
  BY <1>1, <1>3, AnswerDrops
<1> DEFINE lost == IF entries[a].rearmed THEN "fresh" ELSE entries[a].lost
           e == [entries[a] EXCEPT !.refreshing = FALSE, !.token = token[a], !.verified = FALSE,
                                   !.lost = lost, !.rearmed = FALSE]
           c == [state |-> "connecting", user |-> "none"]
           k == calls[a] \ {call}
           h == [history[a] EXCEPT !.again = FALSE, !.down = history[a].ready]
<1>4. CASE /\ Current(a, call) /\ ~Unchanged(a) /\ heldBack' = heldBack /\ live' = live
           /\ entries' = [entries EXCEPT ![a].refreshing = FALSE, ![a].token = token[a],
                                         ![a].verified = FALSE,
                                         ![a].lost = IF entries[a].rearmed THEN "fresh" ELSE @,
                                         ![a].rearmed = FALSE]
           /\ client' = [client EXCEPT ![a] = c]
           /\ history' = [history EXCEPT ![a].again = @ \/ token[a] \in history[a].refused,
                                         ![a].down = history[a].ready]
  <2>1. /\ AccountOK(a) /\ entries[a] \in EntryRows /\ client[a] \in ClientRows /\ token[a] \in Nat
        /\ history[a] \in Histories /\ live[a] \in SUBSET Nat /\ calls[a] \in SUBSET CallRows
    BY ManagerIs
  <2>2. call.gen = entries[a].gen /\ entries[a].kind # "none"
    BY <1>4 DEF Current
  <2>3. /\ entries[a].kind = "running" /\ entries[a].refreshing
        /\ \A f \in k : f.gen # entries[a].gen
    BY <1>1, <2>1, <2>2 DEF AccountOK, CallsOK
  <2>4. entries[a].lost = "no" /\ entries[a].rearmed => history[a].ready
    BY <2>1, <2>3 DEF AccountOK, LossesOK
  <2>5. entries[a].lost = "no"
    BY <2>1, <2>3 DEF AccountOK, LossesOK
  <2>6. (history[a].again \/ token[a] \in history[a].refused) = FALSE
    <3>1. entries[a].token \in Nat /\ entries[a].token <= token[a] /\ entries[a].token # token[a]
      BY <1>4, <2>1, <2>3 DEF Unchanged, AccountOK, RefusedOK, EntryRows
    <3>2. \A t \in history[a].refused : t \in Nat /\ t <= entries[a].token
      BY <2>1, <2>3 DEF AccountOK, RefusedOK, Histories
    <3>3. token[a] \notin history[a].refused
      BY <2>1, <3>1, <3>2
    <3>4. ~history[a].again
      BY HistoryIs
    <3> QED
      BY <3>3, <3>4
  <2>7. history' = [history EXCEPT ![a] = h]
    BY <1>4, <2>1, <2>6 DEF ManagerInv, ManagerRowsOK
  <2>8. entries' = [entries EXCEPT ![a] = e]
    BY <1>4, <2>1 DEF ManagerInv, ManagerRowsOK
  <2>9. lost \in {"no", "fresh", "over"} /\ (lost # "no" => entries[a].rearmed)
    BY <2>5
  <2> HIDE DEF lost
  <2>10. e \in EntryRows /\ c \in ClientRows /\ h \in Histories
    BY <2>1, <2>9 DEF EntryRows, ClientRows, Histories
  <2>11. /\ e.kind = "running" /\ e.gen = entries[a].gen /\ e.token = token[a] /\ ~e.verified
         /\ ~e.refreshing /\ e.ever = entries[a].ever /\ e.lost = lost
         /\ e.reported = entries[a].reported /\ ~e.rearmed
    BY <2>1, <2>3 DEF EntryRows
  <2>12. /\ h.ready = history[a].ready /\ h.down = history[a].ready /\ h.told = history[a].told
         /\ h.refused = history[a].refused /\ h.false = history[a].false
         /\ h.foreign = history[a].foreign /\ ~h.again
    BY <2>1 DEF Histories
  <2>13. calls' = [calls EXCEPT ![a] = k] /\ live' = [live EXCEPT ![a] = live[a]]
    BY <1>1, <1>4 DEF CallAnswered, ManagerInv, ManagerRowsOK
  <2>14. k \in SUBSET CallRows /\ CallsOK(entries[a], k, starts[a]) /\ StartsBounded'
    BY <2>13, CallGone
  <2> HIDE DEF e, h, k
  <2>15. ClientOK(e, c, live[a])
    BY <2>1, <2>3, <2>11 DEF AccountOK, ClientOK
  <2>16. CallsOK(e, k, starts[a])
    BY <2>2, <2>3, <2>11, <2>14 DEF CallsOK
  <2>17. RefusedOK(e, h, token[a], a \in heldBack, stopping)
    <3>1. \A t \in history[a].refused : t <= token[a]
      <4>1. /\ entries[a].token \in Nat /\ entries[a].token <= token[a]
            /\ \A t \in history[a].refused : t \in Nat /\ t <= entries[a].token
        BY <2>1, <2>3 DEF AccountOK, RefusedOK, EntryRows, Histories
      <4> QED
        BY <2>1, <4>1
    <3> QED
      BY <2>1, <2>3, <2>11, <2>12, <3>1 DEF AccountOK, RefusedOK
  <2>18. LossesOK(e, h)
    BY <2>1, <2>3, <2>4, <2>9, <2>11, <2>12 DEF AccountOK, LossesOK
  <2> QED
    BY <1>1, <1>4, <2>1, <2>7, <2>8, <2>10, <2>13, <2>14, <2>15, <2>16, <2>17, <2>18, AccountMoves
<1> QED
  BY <1>2, <1>3, <1>4 DEF RefreshAnswered

-----------------------------------------------------------------------------
(* The start queue                                                         *)

\* An account that is started has no refused token, and no call of this entry's number.
LEMMA WorkerKeeps ==
  ASSUME ManagerInv, Worker PROVE ManagerInv'
<1>0. Head(startQueue) \in Accounts /\ startQueue' \in Seq(Accounts)
  BY HeadTailProperties DEF Worker, ManagerInv, ManagerRowsOK
<1> PICK a \in Accounts : a = Head(startQueue)
  BY <1>0
<1>1. a \in Accounts /\ a = Head(startQueue) /\ startQueue' \in Seq(Accounts)
  BY <1>0
<1>2. /\ AccountOK(a) /\ entries[a] \in EntryRows /\ client[a] \in ClientRows /\ token[a] \in Nat
      /\ history[a] \in Histories /\ live[a] \in SUBSET Nat /\ calls[a] \in SUBSET CallRows
      /\ starts[a] \in Nat
  BY <1>1, ManagerIs
<1>3. UNCHANGED <<client, live, heldBack, tick, world, stopping, history>> /\ ~stopping
  BY DEF Worker
<1>4. CASE ~MayStart(a)
  <2>1. UNCHANGED <<starts, entries, calls>>
    BY <1>1, <1>4 DEF Worker
  <2>2. ManagerRowsOK'
    BY <1>1, <1>3, <2>1 DEF ManagerInv, ManagerRowsOK, world
  <2>3. \A b \in Accounts : AccountOK(b)'
    BY <1>3, <2>1 DEF ManagerInv, AccountOK, world
  <2> QED
    BY <2>1, <2>2, <2>3, CallsStay DEF ManagerInv
<1>5. CASE MayStart(a)
  <2> DEFINE n == starts[a] + 1
             e == [EmptyEntry EXCEPT !.kind = "starting", !.gen = n]
             d == [what |-> "acquire", gen |-> n]
             k == calls[a] \cup {d}
  <2>1. n \in Nat /\ e \in EntryRows /\ d \in CallRows /\ k \in SUBSET CallRows
    <3>1. n \in Nat
      BY <1>2
    <3> HIDE DEF n
    <3>2. e \in EntryRows
      BY <3>1 DEF EmptyEntry, EntryRows
    <3>3. d \in CallRows
      BY <3>1 DEF CallRows
    <3> QED
      BY <1>2, <3>1, <3>2, <3>3
  <2>2. /\ starts' = [starts EXCEPT ![a] = n] /\ entries' = [entries EXCEPT ![a] = e]
        /\ calls' = [calls EXCEPT ![a] = k]
    BY <1>1, <1>5 DEF Worker, Awaits, ManagerInv, ManagerRowsOK
  <2>3. /\ e.kind = "starting" /\ e.gen = n /\ ~e.verified /\ ~e.refreshing /\ ~e.ever
        /\ d.what = "acquire" /\ d.gen = n
    BY DEF EmptyEntry
  <2>4. entries[a].kind = "none" /\ a \notin heldBack
    BY <1>5 DEF MayStart
  <2>5. n = starts[a] + 1
    OBVIOUS
  <2> HIDE DEF n, e, d
  <2>6. ClientOK(e, client[a], live[a])
    BY <1>2, <2>3, <2>4 DEF AccountOK, ClientOK
  <2>7. CallsOK(e, k, n)
    <3>1. IsFiniteSet(calls[a]) /\ \A f \in calls[a] : f.gen \in 1..starts[a]
      BY <1>2 DEF AccountOK, CallsOK
    <3>2. IsFiniteSet(k)
      BY <3>1, FS_AddElement
    <3>3. \A f \in calls[a] : f.gen \in 1..n /\ f.gen # n
      BY <1>2, <2>5, <3>1
    <3>4. n \in 1..n
      BY <1>2, <2>5
    <3> QED
      BY <2>3, <3>2, <3>3, <3>4 DEF CallsOK
  <2>8. RefusedOK(e, history[a], token[a], a \in heldBack, stopping)
    BY <1>2, <1>3, <2>3, <2>4 DEF AccountOK, RefusedOK
  <2>9. LossesOK(e, history[a])
    BY <1>2, <2>3, <2>4 DEF AccountOK, LossesOK
  <2>10. ManagerRowsOK'
    BY <1>1, <1>3, <2>1, <2>2 DEF ManagerInv, ManagerRowsOK, world
  <2>11. /\ entries'[a] = e /\ calls'[a] = k /\ starts'[a] = n
         /\ client'[a] = client[a] /\ live'[a] = live[a] /\ history'[a] = history[a]
         /\ token'[a] = token[a] /\ heldBack' = heldBack /\ stopping' = stopping
    BY <1>1, <1>3, <2>2 DEF ManagerInv, ManagerRowsOK, world
  <2>12. AccountOK(a)'
    BY <2>6, <2>7, <2>8, <2>9, <2>11 DEF AccountOK
  <2>13. StartsBounded'
    <3>1. /\ IsFiniteSet(Starting) /\ Cardinality(Starting) < StartConcurrency
          /\ StartConcurrency \in Nat
      BY ManagerAssumption DEF ManagerInv, StartsBounded, Worker
    <3>2. /\ IsFiniteSet(Starting \cup {<<a, d>>})
          /\ Cardinality(Starting \cup {<<a, d>>}) =
               IF <<a, d>> \in Starting THEN Cardinality(Starting) ELSE Cardinality(Starting) + 1
      BY <3>1, FS_AddElement
    <3>3. Starting' \subseteq Starting \cup {<<a, d>>}
      <4>1. calls'[a] = k /\ \A b \in Accounts \ {a} : calls'[b] = calls[b]
        BY <1>1, <2>2 DEF ManagerInv, ManagerRowsOK
      <4>2. ASSUME NEW b \in Accounts, NEW f \in calls'[b], f.what \in {"acquire", "token"}
            PROVE  <<b, f>> \in Starting \cup {<<a, d>>}
        <5>1. CASE b = a /\ f = d
          BY <5>1
        <5>2. CASE ~(b = a /\ f = d)
          <6>1. f \in calls[b]
            BY <4>1, <5>2
          <6> QED
            BY <4>2, <6>1, StartingIs
        <5> QED
          BY <5>1, <5>2
      <4> QED
        BY <4>2, StartingIs
    <3>4. /\ IsFiniteSet(Starting')
          /\ Cardinality(Starting') <= Cardinality(Starting \cup {<<a, d>>})
      BY <3>2, <3>3, FS_Subset
    <3>5. Cardinality(Starting') \in Nat /\ Cardinality(Starting) \in Nat
      BY <3>1, <3>4, FS_CardinalityType
    <3> QED
      BY <3>1, <3>2, <3>4, <3>5 DEF StartsBounded
  <2>14. \A b \in Accounts \ {a} :
           /\ entries'[b] = entries[b] /\ client'[b] = client[b] /\ live'[b] = live[b]
           /\ calls'[b] = calls[b] /\ starts'[b] = starts[b] /\ token'[b] = token[b]
           /\ history'[b] = history[b] /\ (b \in heldBack' <=> b \in heldBack)
    BY <1>1, <1>3, <2>2 DEF ManagerInv, ManagerRowsOK, world
  <2> QED
    BY <1>1, <1>3, <2>10, <2>12, <2>13, <2>14, OneMoves
<1> QED
  BY <1>4, <1>5

-----------------------------------------------------------------------------
(* The process's own timers                                                *)

\* A loss is told once: the entry is reported until the session is ready again.
LEMMA ObserveKeeps ==
  ASSUME ManagerInv, Observe PROVE ManagerInv'
<1>1. UNCHANGED <<client, live, calls, starts, heldBack, scan, world, stopping>>
  BY DEF Observe
<1>2. ASSUME NEW a \in Accounts
      PROVE  entries'[a] \in EntryRows /\ history'[a] \in Histories /\ AccountOK(a)'
  <2>1. AccountOK(a) /\ entries[a] \in EntryRows /\ history[a] \in Histories
    BY <1>2, ManagerIs
  <2>2. CASE a \notin Unreported
    BY <1>1, <1>2, <2>1, <2>2 DEF Observe, AccountOK, world
  <2>3. CASE a \in Unreported
    <3> DEFINE e == [entries[a] EXCEPT !.reported = TRUE]
               h == Told(history[a], TRUE)
    <3>1. /\ e \in EntryRows /\ e.kind = entries[a].kind /\ e.gen = entries[a].gen
          /\ e.token = entries[a].token /\ e.refreshing = entries[a].refreshing
          /\ e.lost = entries[a].lost /\ e.ever = entries[a].ever /\ e.rearmed = entries[a].rearmed
          /\ e.reported /\ e.verified = entries[a].verified
      BY <2>1 DEF EntryRows
    <3>2. entries[a].kind = "running" /\ entries[a].lost = "over" /\ ~entries[a].reported
      BY <2>3 DEF Unreported, Running
    <3>3. history[a].told = 0 /\ history[a].down /\ ~history[a].false
      BY <2>1, <3>2 DEF AccountOK, LossesOK
    <3>4. history[a].down = TRUE
      BY <2>1, <3>3 DEF Histories
    <3>5. entries'[a] = e /\ history'[a] = h
      BY <1>2, <2>3, <3>4 DEF Observe
    <3>6. /\ h \in Histories /\ ~h.false /\ h.foreign = history[a].foreign
          /\ h.again = history[a].again /\ h.ready = history[a].ready /\ h.down = history[a].down
          /\ h.refused = history[a].refused
      BY <2>1, <3>3, ToldIs
    <3> HIDE DEF e, h
    <3>7. ClientOK(e, client[a], live[a]) /\ CallsOK(e, calls[a], starts[a])
      BY <2>1, <3>1 DEF AccountOK, ClientOK, CallsOK
    <3>8. RefusedOK(e, h, token[a], a \in heldBack, stopping)
      BY <2>1, <3>1, <3>6 DEF AccountOK, RefusedOK
    <3>9. LossesOK(e, h)
      BY <2>1, <3>1, <3>2, <3>6 DEF AccountOK, LossesOK
    <3>10. AccountOK(a)'
      BY <1>1, <3>5, <3>7, <3>8, <3>9 DEF AccountOK, world
    <3> QED
      BY <3>1, <3>5, <3>6, <3>10
  <2> QED
    BY <2>2, <2>3
<1>3. ManagerRowsOK'
  <2>1. entries' \in [Accounts -> EntryRows] /\ history' \in [Accounts -> Histories]
    BY <1>2 DEF Observe
  <2> QED
    BY <1>1, <2>1 DEF ManagerInv, ManagerRowsOK, scan, world
<1> QED
  BY <1>1, <1>2, <1>3, CallsStay DEF ManagerInv

\* An account whose hold-back is over starts with no refused token.
LEMMA TickAsksKeeps ==
  ASSUME ManagerInv, TickAsks PROVE ManagerInv'
<1>1. PICK over \in SUBSET heldBack :
        /\ heldBack' = heldBack \ over
        /\ tick' = [on |-> TRUE, present |-> inWork \ (heldBack \ over)]
        /\ history' = [a \in Accounts |->
             IF a \in over THEN [history[a] EXCEPT !.refused = {}] ELSE history[a]]
  BY DEF TickAsks
<1>2. UNCHANGED <<entries, client, live, calls, starts, startQueue, world, stopping>>
  BY DEF TickAsks
<1>3. ASSUME NEW a \in Accounts PROVE history'[a] \in Histories /\ AccountOK(a)'
  <2>1. AccountOK(a) /\ entries[a] \in EntryRows /\ history[a] \in Histories
    BY <1>3, ManagerIs
  <2>2. CASE a \notin over
    <3>1. history'[a] = history[a] /\ (a \in heldBack') = (a \in heldBack)
      BY <1>1, <1>3, <2>2
    <3> QED
      BY <1>2, <1>3, <2>1, <3>1 DEF AccountOK, world
  <2>3. CASE a \in over
    <3> DEFINE h == [history[a] EXCEPT !.refused = {}]
    <3>1. /\ h \in Histories /\ h.refused = {} /\ h.again = history[a].again
          /\ h.told = history[a].told
          /\ h.false = history[a].false /\ h.foreign = history[a].foreign
          /\ h.ready = history[a].ready /\ h.down = history[a].down
      BY <2>1 DEF Histories
    <3>2. history'[a] = h /\ (a \in heldBack') = FALSE /\ (a \in heldBack) = TRUE
      BY <1>1, <1>3, <2>3
    <3> HIDE DEF h
    <3>3. RefusedOK(entries[a], h, token[a], FALSE, stopping)
      BY <2>1, <3>1, <3>2 DEF AccountOK, RefusedOK
    <3>4. LossesOK(entries[a], h)
      BY <2>1, <3>1 DEF AccountOK, LossesOK
    <3>5. AccountOK(a)'
      BY <1>2, <2>1, <3>2, <3>3, <3>4 DEF AccountOK, world
    <3> QED
      BY <3>1, <3>2, <3>5
  <2> QED
    BY <2>2, <2>3
<1>4. ManagerRowsOK'
  <2>1. history' \in [Accounts -> Histories]
    BY <1>1, <1>3
  <2> QED
    BY <1>1, <1>2, <2>1 DEF ManagerInv, ManagerRowsOK, world
<1> QED
  BY <1>2, <1>3, <1>4, CallsStay DEF ManagerInv

\* The candidates, in some order.
LEMMA CandidatesAreAccounts ==
  ASSUME NEW S, S \subseteq Accounts, NEW n \in Nat
  PROVE  LET order == InOrder(S) IN
         SubSeq(order, 1, IF Len(order) < n THEN Len(order) ELSE n) \in Seq(Accounts)
<1> DEFINE order == InOrder(S)
           m == IF Len(order) < n THEN Len(order) ELSE n
<1>1. IsFiniteSet(S)
  BY ManagerAssumption, FS_Subset
<1>2. \E f \in [1..Cardinality(S) -> S] : IsInjective(f)
  BY <1>1, FS_CardinalityType DEF ExistsBijection, Bijection, Injection
<1>3. order \in [1..Cardinality(S) -> S] /\ Cardinality(S) \in Nat
  BY <1>1, <1>2, FS_CardinalityType DEF InOrder, SetToSeq
<1> HIDE DEF order
<1>4. order \in Seq(S) /\ Len(order) \in Nat
  BY <1>3
<1>5. m \in Int /\ \A i \in 1..m : i \in 1..Len(order)
  BY <1>4
<1>6. \A i \in 1..m : order[i] \in Accounts
  BY <1>4, <1>5
<1> HIDE DEF m
<1>7. SubSeq(order, 1, m) \in Seq(Accounts)
  BY <1>5, <1>6, SubSeqProperties
<1> QED
  BY <1>7 DEF m, order

\* Entries are let go or marked.
LEMMA TickAppliesKeeps ==
  ASSUME ManagerInv, TickApplies PROVE ManagerInv'
<1>1. PICK over \in SUBSET Known :
        LET gone == LetGo(over)
            left == Known \ gone
            order == InOrder(Assigned \ left)
        IN /\ entries' = [a \in Accounts |-> IF a \in gone THEN EmptyEntry
                                          ELSE IF Running(a) THEN Marked(a) ELSE entries[a]]
           /\ client' = [a \in Accounts |-> IF a \in gone THEN NoClient ELSE client[a]]
           /\ live' = [a \in Accounts |->
                IF a \in gone THEN live[a] \ {entries[a].gen} ELSE live[a]]
           /\ history' = [a \in Accounts |->
                IF a \in gone
                THEN [history[a] EXCEPT !.ready = FALSE, !.down = FALSE, !.told = 0, !.refused = {}]
                ELSE history[a]]
           /\ startQueue' =
                SubSeq(order, 1, IF Len(order) < Slots(left) THEN Len(order) ELSE Slots(left))
  BY DEF TickApplies
<1> DEFINE gone == LetGo(over)
           left == Known \ gone
<1>2. tick' = NoTick /\ UNCHANGED <<calls, starts, heldBack, world, stopping>>
  BY DEF TickApplies
<1>3. startQueue' \in Seq(Accounts)
  <2>1. IsFiniteSet(left) /\ MaxSessions \in Nat /\ MaxSessions # 0
    BY ManagerAssumption, FS_Subset DEF Known
  <2>2. Slots(left) \in Nat
    BY <2>1, FS_CardinalityType DEF Slots
  <2>3. Assigned \ left \subseteq Accounts
    BY DEF Assigned, ManagerInv, ManagerRowsOK
  <2> QED
    BY <1>1, <2>2, <2>3, CandidatesAreAccounts
<1> HIDE DEF gone
<1>4. ASSUME NEW a \in Accounts
      PROVE  /\ entries'[a] \in EntryRows /\ client'[a] \in ClientRows /\ live'[a] \in SUBSET Nat
             /\ history'[a] \in Histories /\ AccountOK(a)'
  <2>1. /\ AccountOK(a) /\ entries[a] \in EntryRows /\ history[a] \in Histories
        /\ client[a] \in ClientRows /\ live[a] \in SUBSET Nat /\ starts[a] \in Nat
        /\ token[a] \in Nat
    BY <1>4, ManagerIs
  <2>2. CASE a \in gone
    <3> DEFINE h == [history[a] EXCEPT !.ready = FALSE, !.down = FALSE, !.told = 0, !.refused = {}]
    <3>1. /\ entries'[a] = EmptyEntry /\ client'[a] = NoClient
          /\ live'[a] = live[a] \ {entries[a].gen}
          /\ history'[a] = h
      BY <1>1, <1>4, <2>2 DEF gone
    <3>2. /\ h \in Histories /\ h.refused = {} /\ h.again = history[a].again /\ h.told = 0
          /\ h.false = history[a].false /\ h.foreign = history[a].foreign
      BY <2>1 DEF Histories
    <3> HIDE DEF h
    <3>3. /\ ClientOK(EmptyEntry, NoClient, live[a] \ {entries[a].gen})
          /\ CallsOK(EmptyEntry, calls[a], starts[a])
          /\ RefusedOK(EmptyEntry, h, token[a], a \in heldBack, stopping) /\ LossesOK(EmptyEntry, h)
      BY <2>1, <3>2, HistoryIs, Dropped DEF AccountOK
    <3>4. AccountOK(a)'
      BY <1>2, <3>1, <3>3 DEF AccountOK, world
    <3> QED
      BY <2>1, <3>1, <3>2, <3>4, EmptyIs
  <2>3. CASE a \notin gone /\ ~Running(a)
    <3>1. /\ entries'[a] = entries[a] /\ client'[a] = client[a] /\ live'[a] = live[a]
          /\ history'[a] = history[a]
      BY <1>1, <1>4, <2>3 DEF gone
    <3> QED
      BY <1>2, <2>1, <3>1 DEF AccountOK, world
  <2>4. CASE a \notin gone /\ Running(a)
    <3> DEFINE e == Marked(a)
    <3>1. /\ e \in EntryRows /\ e.kind = entries[a].kind /\ e.gen = entries[a].gen
          /\ e.token = entries[a].token /\ e.refreshing = entries[a].refreshing
          /\ e.lost = entries[a].lost /\ e.ever = entries[a].ever /\ e.rearmed = entries[a].rearmed
          /\ e.reported = entries[a].reported /\ e.verified = entries[a].verified
      <4> DEFINE shed == IF a \in tick.present THEN a \notin mine ELSE entries[a].shed
                 idle == a \notin tick.present
      <4>1. shed \in BOOLEAN /\ idle \in BOOLEAN
        BY <2>1 DEF EntryRows
      <4>2. e = [entries[a] EXCEPT !.shed = shed, !.idle = idle]
        BY DEF Marked
      <4> HIDE DEF shed, idle, e
      <4> QED
        BY <2>1, <4>1, <4>2 DEF EntryRows
    <3>2. /\ entries'[a] = e /\ client'[a] = client[a] /\ live'[a] = live[a]
          /\ history'[a] = history[a]
      BY <1>1, <1>4, <2>4 DEF gone
    <3> HIDE DEF e
    <3>3. ClientOK(e, client[a], live[a]) /\ CallsOK(e, calls[a], starts[a])
      BY <2>1, <3>1 DEF AccountOK, ClientOK, CallsOK
    <3>4. RefusedOK(e, history[a], token[a], a \in heldBack, stopping) /\ LossesOK(e, history[a])
      BY <2>1, <3>1 DEF AccountOK, RefusedOK, LossesOK
    <3>5. AccountOK(a)'
      BY <1>2, <3>2, <3>3, <3>4 DEF AccountOK, world
    <3> QED
      BY <2>1, <3>1, <3>2, <3>5
  <2> QED
    BY <2>2, <2>3, <2>4
<1>5. ManagerRowsOK'
  <2>1. /\ entries' \in [Accounts -> EntryRows] /\ client' \in [Accounts -> ClientRows]
        /\ live' \in [Accounts -> SUBSET Nat] /\ history' \in [Accounts -> Histories]
    BY <1>1, <1>4
  <2> QED
    BY <1>2, <1>3, <2>1 DEF ManagerInv, ManagerRowsOK, NoTick, world
<1> QED
  BY <1>2, <1>4, <1>5, CallsStay DEF ManagerInv

LEMMA StopManagerKeeps ==
  ASSUME ManagerInv, StopManager PROVE ManagerInv'
<1>1. UNCHANGED <<calls, starts, heldBack, tick, world>> /\ stopping' = TRUE
  BY DEF StopManager
<1>2. ASSUME NEW a \in Accounts
      PROVE  live'[a] \in SUBSET Nat /\ history'[a] \in Histories /\ AccountOK(a)'
  <2>1. /\ AccountOK(a) /\ entries[a] \in EntryRows /\ history[a] \in Histories
        /\ live[a] \in SUBSET Nat /\ starts[a] \in Nat /\ token[a] \in Nat
    BY <1>2, ManagerIs
  <2> DEFINE h == [history[a] EXCEPT !.ready = FALSE, !.down = FALSE, !.told = 0]
  <2>2. /\ entries'[a] = EmptyEntry /\ client'[a] = NoClient
        /\ live'[a] = live[a] \ {entries[a].gen}
        /\ history'[a] = h
    BY <1>2 DEF StopManager
  <2>3. /\ h \in Histories /\ h.again = history[a].again /\ h.told = 0
        /\ h.false = history[a].false /\ h.foreign = history[a].foreign
    BY <2>1 DEF Histories
  <2> HIDE DEF h
  <2>4. /\ ClientOK(EmptyEntry, NoClient, live[a] \ {entries[a].gen})
        /\ CallsOK(EmptyEntry, calls[a], starts[a])
        /\ RefusedOK(EmptyEntry, h, token[a], a \in heldBack, TRUE) /\ LossesOK(EmptyEntry, h)
    BY <2>1, <2>3, HistoryIs, Dropped DEF AccountOK
  <2>5. AccountOK(a)'
    BY <1>1, <2>2, <2>4 DEF AccountOK, world
  <2> QED
    BY <2>1, <2>2, <2>3, <2>5
<1>3. ManagerRowsOK'
  <2>1. /\ entries' \in [Accounts -> EntryRows] /\ client' \in [Accounts -> ClientRows]
        /\ live' \in [Accounts -> SUBSET Nat] /\ history' \in [Accounts -> Histories]
    BY <1>2, EmptyIs DEF StopManager
  <2>2. startQueue' = <<>> /\ startQueue' \in Seq(Accounts)
    BY EmptySeq DEF StopManager
  <2> QED
    BY <1>1, <2>1, <2>2 DEF ManagerInv, ManagerRowsOK, world
<1> QED
  BY <1>1, <1>2, <1>3, CallsStay DEF ManagerInv

\* The world turns; nothing of the process's own state moves, but the tick that fails.
LEMMA WorldKeeps ==
  ASSUME ManagerInv, Moves \/ TickFails \/ (\E a \in Accounts : TokenDies(a) \/ Exchanged(a))
  PROVE  ManagerInv'
<1>1. /\ UNCHANGED <<entries, client, live, calls, starts, heldBack, startQueue, stopping, history>>
      /\ inWork' \subseteq Accounts /\ mine' \subseteq Accounts
      /\ tick' \in [on : BOOLEAN, present : SUBSET Accounts]
  <2>1. CASE Moves
    BY <2>1 DEF Moves, ManagerInv, ManagerRowsOK
  <2>2. CASE TickFails
    <3>1. NoTick \in [on : BOOLEAN, present : SUBSET Accounts]
      BY DEF NoTick
    <3> QED
      BY <2>2, <3>1 DEF TickFails, world, ManagerInv, ManagerRowsOK
  <2>3. ASSUME NEW a \in Accounts, TokenDies(a) \/ Exchanged(a)
        PROVE  UNCHANGED <<entries, client, live, calls, starts, heldBack, startQueue, tick, inWork,
                           mine, stopping, history>>
    BY <2>3 DEF TokenDies, Exchanged
  <2> QED
    BY <2>1, <2>2, <2>3 DEF ManagerInv, ManagerRowsOK
<1>2. /\ token' \in [Accounts -> Nat]
      /\ \A a \in Accounts : token[a] \in Nat /\ token'[a] \in Nat /\ token[a] <= token'[a]
  <2>1. token \in [Accounts -> Nat]
    BY DEF ManagerInv, ManagerRowsOK
  <2>2. CASE token' = token
    BY <2>1, <2>2
  <2>3. ASSUME NEW a \in Accounts, Exchanged(a)
        PROVE  /\ token' \in [Accounts -> Nat]
               /\ \A b \in Accounts : token[b] \in Nat /\ token'[b] \in Nat /\ token[b] <= token'[b]
    BY <2>1, <2>3 DEF Exchanged
  <2> QED
    BY <2>2, <2>3 DEF Moves, TickFails, TokenDies, world
<1>3. ASSUME NEW a \in Accounts PROVE AccountOK(a)'
  <2>1. AccountOK(a) /\ entries[a] \in EntryRows
    BY <1>3, ManagerIs
  <2>2. entries[a].token \in Nat
    BY <2>1 DEF EntryRows
  <2>3. RefusedOK(entries[a], history[a], token'[a], a \in heldBack, stopping)
    BY <1>2, <1>3, <2>1, <2>2 DEF AccountOK, RefusedOK
  <2> QED
    BY <1>1, <2>1, <2>3 DEF AccountOK
<1>4. ManagerRowsOK'
  BY <1>1, <1>2 DEF ManagerInv, ManagerRowsOK
<1> QED
  BY <1>1, <1>3, <1>4, CallsStay DEF ManagerInv

-----------------------------------------------------------------------------
LEMMA ManagerInvInit == ManagerInit => ManagerInv
<1> SUFFICES ASSUME ManagerInit PROVE ManagerInv
  OBVIOUS
<1>1. ManagerRowsOK
  <2>1. NoTick \in [on : BOOLEAN, present : SUBSET Accounts] /\ <<>> \in Seq(Accounts)
    BY EmptySeq DEF NoTick
  <2> QED
    BY <2>1, EmptyIs DEF ManagerInit, ManagerRowsOK
<1>2. Starting = {}
  BY StartingIs DEF ManagerInit
<1>3. StartsBounded
  BY <1>2, FS_EmptySet, ManagerAssumption DEF StartsBounded
<1>4. ASSUME NEW a \in Accounts PROVE AccountOK(a)
  <2>1. /\ entries[a] = EmptyEntry /\ client[a] = NoClient /\ live[a] = {} /\ calls[a] = {}
        /\ starts[a] = 0 /\ token[a] = 1 /\ history[a] = NoHistory /\ heldBack = {}
    BY DEF ManagerInit
  <2>2. ClientOK(EmptyEntry, NoClient, {}) /\ LossesOK(EmptyEntry, NoHistory)
    BY DEF ClientOK, LossesOK, EmptyEntry, NoClient, NoHistory
  <2>3. CallsOK(EmptyEntry, {}, 0)
    BY FS_EmptySet DEF CallsOK, EmptyEntry
  <2>4. RefusedOK(EmptyEntry, NoHistory, 1, a \in heldBack, stopping)
    BY <2>1 DEF RefusedOK, EmptyEntry, NoHistory
  <2> QED
    BY <2>1, <2>2, <2>3, <2>4 DEF AccountOK
<1> QED
  BY <1>1, <1>3, <1>4 DEF ManagerInv

LEMMA ManagerInvKept == ManagerInv /\ [ManagerNext]_managerVars => ManagerInv'
<1> SUFFICES ASSUME ManagerInv, [ManagerNext]_managerVars PROVE ManagerInv'
  OBVIOUS
<1>1. CASE UNCHANGED managerVars
  BY <1>1 DEF managerVars, ManagerInv, ManagerRowsOK, AccountOK, StartsBounded, Starting
<1>2. ASSUME NEW a \in Accounts, Client(a) PROVE ManagerInv'
  BY <1>2, ReconnectingKeeps, ReadyKeeps, TokenExpiresKeeps, ServerDisconnectsKeeps, UserDataKeeps,
     EventKeeps, GracePassesKeeps, LeaseLostKeeps DEF Client
<1>3. ASSUME NEW a \in Accounts, NEW call \in calls[a],
             LeaseAnswered(a, call) \/ StartTokenAnswered(a, call) \/ RefreshAnswered(a, call)
      PROVE  ManagerInv'
  BY <1>3, LeaseAnsweredKeeps, StartTokenAnsweredKeeps, RefreshAnsweredKeeps
<1>4. CASE Moves \/ TickFails \/ (\E a \in Accounts : TokenDies(a) \/ Exchanged(a))
  BY <1>4, WorldKeeps
<1>5. CASE Worker \/ Observe \/ TickAsks \/ TickApplies \/ StopManager
  BY <1>5, WorkerKeeps, ObserveKeeps, TickAsksKeeps, TickAppliesKeeps, StopManagerKeeps
<1> QED
  BY <1>1, <1>2, <1>3, <1>4, <1>5 DEF ManagerNext

LEMMA ManagerInvIsSafe == ManagerInv => ManagerSafe
<1> SUFFICES ASSUME ManagerInv PROVE ManagerSafe
  OBVIOUS
<1>1. ASSUME NEW a \in Accounts
      PROVE  /\ entries[a].kind \in {"none", "starting", "running"}
             /\ entries[a].refreshing = (client[a].state = "token_expired")
             /\ client[a].state # "idle" => Running(a)
             /\ a \in heldBack => entries[a].kind = "none"
  <2>1. AccountOK(a) /\ entries[a] \in EntryRows
    BY <1>1, ManagerIs
  <2> QED
    BY <2>1 DEF AccountOK, ClientOK, RefusedOK, Running, EntryRows
<1>2. OneClient
  BY DEF ManagerInv, AccountOK, ClientOK, OneClient, Running
<1>3. OwnConnection
  BY DEF ManagerInv, AccountOK, ClientOK, LossesOK, OwnConnection, SessionOf
<1>4. NoAuthLoop /\ OnlyLosses
  BY DEF ManagerInv, AccountOK, RefusedOK, LossesOK, NoAuthLoop, OnlyLosses
<1> QED
  BY <1>1, <1>2, <1>3, <1>4 DEF ManagerSafe, ManagerTypeOK, ManagerInv, StartsBounded

\* Whatever answers come late, whatever the broker drops and whichever process owns an account, no
\* account has two clients or one of an entry that is gone, nothing of another broker user is taken
\* for it, a token the broker refused is not presented again before a hold-back, and the breaker is
\* told of each loss once and of no drop of our own (session-manager.ts).
THEOREM ManagerStaysSafe == ManagerSpec => []ManagerSafe
<1>1. ManagerInv /\ [ManagerNext]_managerVars => ManagerInv'
  BY ManagerInvKept
<1> QED
  BY <1>1, ManagerInvInit, ManagerInvIsSafe, PTL DEF ManagerSpec


-----------------------------------------------------------------------------
(***************************************************************************)
(* The socket client: what holds in every state                            *)
(***************************************************************************)
Kin == {"owner", "recorder"}

Messages ==
  {Auth} \cup {Subscribe(ids) : ids \in SUBSET Assets}
         \cup {Trade(c) : c \in Commands} \cup {Reply(c) : c \in Commands}

CommandRows ==
  [status : {"none", "waiting", "success", "fail", "unknown"}, terms : Terms, sent : Nat, by : Nat,
   said : Terms]

Items ==
  [kind : {"state", "event"}, from : States \cup {""}, to : States \cup {""}, session : Nat,
   left : {Listeners, <<"recorder">>}]

SocketRowsOK ==
  /\ state \in States /\ session \in Nat /\ socketStarts \in Nat
  /\ link \in {"down", "up", "dead", "closing", "shut"}
  /\ conn \in Nat /\ count \in Nat
  /\ tainted \in BOOLEAN /\ timer \in BOOLEAN /\ authed \in BOOLEAN
  /\ registry \subseteq Assets /\ pending \in Commands \cup {None}

\* The state, the socket and the connection agree; the handshake is where the timer runs, and a
\* connection is ready when the broker accepted the credentials on it.
ControlOK ==
  /\ conn # None <=> link \in {"up", "dead", "closing"}
  /\ link \in {"up", "dead", "closing"} <=> state \in {"authenticating", "ready"}
  /\ link = "down" <=> state \in {"connecting", "reconnecting"}
  /\ session # None <=> state # "idle"
  /\ timer => state = "authenticating"
  /\ authed <=> state = "ready"
  /\ tainted => link = "closing" /\ pending = None
  /\ pending # None => state = "ready"

CommandsOK ==
  /\ commands \in [Commands -> CommandRows]
  /\ \A c \in Commands :
       /\ commands[c].status = "none" => commands[c].sent = 0
       /\ commands[c].sent <= 1
       /\ commands[c].status = "success" => commands[c].said = commands[c].terms
       /\ commands[c].status = "fail" => Mode(commands[c].said) = Mode(commands[c].terms)
       /\ Misled(c) => commands[c].by = None \/ (commands[c].by \in Commands /\ Misled(commands[c].by))
  /\ pending # None => commands[pending].status = "waiting"

\* A buffer is what a dead transport took; on a connection the authentication is first, and alone
\* until it is answered; nothing is said twice.
MessagesOK ==
  /\ wire \in Seq(Messages) /\ buffer \in Seq(Messages)
  /\ link \notin {"dead", "closing"} => buffer = <<>>
  /\ wire # <<>> <=> conn # None
  /\ wire # <<>> => wire[1] = Auth
  /\ ~authed => Len(wire) <= 1
  /\ \A i \in DOMAIN wire : wire[i] = Auth => i = 1

TradesOK ==
  /\ \A c \in Commands : \A i, j \in DOMAIN wire : wire[i] = Trade(c) /\ wire[j] = Trade(c) => i = j
  /\ \A c \in Commands : \A i \in DOMAIN wire : wire[i] = Trade(c) =>
       /\ commands[c].status # "none"
       /\ pending = c \/ tainted \/ Misled(c) \/ \E j \in DOMAIN wire : wire[j] = Reply(c)
  /\ pending # None /\ link = "up" => \E i \in DOMAIN wire : wire[i] = Trade(pending)

AsksFor(m, a) == m.what = "subscribe" /\ a \in m.ids

SubscribesOK ==
  /\ \A a \in Assets : \A i, j \in DOMAIN wire : AsksFor(wire[i], a) /\ AsksFor(wire[j], a) => i = j
  /\ \A a \in Assets : \A i \in DOMAIN wire : AsksFor(wire[i], a) => a \in registry
  /\ state = "ready" /\ link = "up" => \A a \in registry : \E i \in DOMAIN wire : AsksFor(wire[i], a)

\* The states between the first item of a queue and the end of it, path[i] after the i-th.
Follows(q, path) ==
  /\ path \in [0..Len(q) -> States]
  /\ \A i \in 1..Len(q) :
       IF q[i].kind = "state" THEN q[i].from = path[i - 1] /\ q[i].to = path[i]
                              ELSE path[i] = path[i - 1]

\* A queue leads each listener from the state it last heard to the state there is.
LeadsTo(q, to, heard) ==
  \E path \in [0..Len(q) -> States] :
    /\ Follows(q, path)
    /\ path[Len(q)] = to
    /\ heard["recorder"] = path[0]
    /\ heard["owner"] = IF q # <<>> /\ q[1].left # Listeners THEN path[1] ELSE path[0]

QueueOK(q, to, heard) ==
  /\ q \in Seq(Items)
  /\ \A i \in 2..Len(q) : q[i].left = Listeners
  /\ heard \in [Kin -> States]
  /\ LeadsTo(q, to, heard)

ClientInv ==
  SocketRowsOK /\ ControlOK /\ CommandsOK /\ MessagesOK /\ TradesOK /\ SubscribesOK

SocketInv == ClientInv /\ QueueOK(queue, state, seen)

-----------------------------------------------------------------------------
(* Messages and listeners *)

LEMMA MessagesAre ==
  /\ Auth \in Messages /\ Auth.what = "auth"
  /\ \A ids \in SUBSET Assets : Subscribe(ids) \in Messages /\ Subscribe(ids).what = "subscribe"
                                /\ Subscribe(ids).ids = ids
  /\ \A c \in Commands : /\ Trade(c) \in Messages /\ Trade(c).what = "trade" /\ Trade(c).c = c
                         /\ Reply(c) \in Messages /\ Reply(c).what = "reply" /\ Reply(c).c = c
BY DEF Auth, Subscribe, Trade, Reply, Messages

LEMMA ListenersAre ==
  /\ Range(Listeners) = Kin
  /\ Tail(Listeners) = <<"recorder">>
  /\ Listeners # <<"recorder">> /\ Len(Listeners) = 2 /\ Len(<<"recorder">>) = 1
  /\ Listeners[1] = "owner" /\ <<"recorder">>[1] = "recorder"
<1>1. DOMAIN Listeners = {1, 2} /\ Listeners[1] = "owner" /\ Listeners[2] = "recorder"
      /\ Len(Listeners) = 2
  BY DEF Listeners
<1>2. Range(Listeners) = Kin
  BY <1>1 DEF Range, Kin
<1>3. Len(<<"recorder">>) = 1 /\ <<"recorder">>[1] = "recorder" /\ Listeners # <<"recorder">>
  BY DEF Listeners
<1>4. Tail(Listeners) = <<"recorder">>
  BY DEF Listeners
<1> QED
  BY <1>1, <1>2, <1>3, <1>4

\* A command that went out once at most is counted so.
LEMMA TradesOfIs ==
  ASSUME NEW w \in Seq(Messages), NEW c \in Commands,
         \A i, j \in DOMAIN w : w[i] = Trade(c) /\ w[j] = Trade(c) => i = j
  PROVE  /\ TradesOf(w, c) \in {0, 1}
         /\ TradesOf(w, c) = 1 <=> \E i \in DOMAIN w : w[i] = Trade(c)
<1> DEFINE S == {i \in DOMAIN w : w[i] = Trade(c)}
<1>1. CASE S = {}
  BY <1>1, FS_EmptySet DEF TradesOf
<1>2. CASE S # {}
  <2>1. PICK i \in S : TRUE
    BY <1>2
  <2>2. S = {i}
    BY <2>1
  <2>3. Cardinality(S) = 1
    BY <2>2, FS_Singleton
  <2> QED
    BY <2>1, <2>3 DEF TradesOf
<1> QED
  BY <1>1, <1>2

\* What a message that follows a wire changes.
LEMMA WireGrows ==
  ASSUME NEW w \in Seq(Messages), NEW m \in Messages
  PROVE  /\ w \o <<m>> = Append(w, m) /\ Append(w, m) \in Seq(Messages)
         /\ DOMAIN w = 1..Len(w) /\ Len(w) \in Nat /\ Len(Append(w, m)) = Len(w) + 1
         /\ DOMAIN Append(w, m) = DOMAIN w \cup {Len(w) + 1} /\ Len(w) + 1 \notin DOMAIN w
         /\ Append(w, m)[Len(w) + 1] = m
         /\ \A i \in DOMAIN w : Append(w, m)[i] = w[i]
<1>1. /\ Append(w, m) \in Seq(Messages) /\ Len(Append(w, m)) = Len(w) + 1
      /\ \A i \in 1..Len(w) : Append(w, m)[i] = w[i]
      /\ Append(w, m)[Len(w) + 1] = m
  BY AppendProperties
<1>2. Len(w) \in Nat /\ DOMAIN w = 1..Len(w)
  BY LenProperties
<1>3. DOMAIN Append(w, m) = 1..(Len(w) + 1)
  BY <1>1, LenProperties
<1>4. w \o <<m>> = Append(w, m)
  BY AppendIsConcat
<1> QED
  BY <1>1, <1>2, <1>3, <1>4

-----------------------------------------------------------------------------
(* The queue *)

LEMMA StatesAre == "" \notin States /\ Terminal \subseteq States /\ "idle" \notin Terminal
BY DEF States, Terminal

\* An item behind a queue leads on to where the item leads.
LEMMA BehindLeads ==
  ASSUME NEW q, NEW s \in States, NEW to \in States, NEW heard, QueueOK(q, s, heard),
         NEW item \in Items, item.left = Listeners,
         IF item.kind = "state" THEN item.from = s /\ item.to = to ELSE s = to
  PROVE  QueueOK(Behind(q, item), to, heard)
<1> DEFINE r == Append(q, item)
           n == Len(q)
<1>1. q \in Seq(Items) /\ (\A i \in 2..Len(q) : q[i].left = Listeners) /\ heard \in [Kin -> States]
  BY DEF QueueOK
<1>2. PICK path \in [0..Len(q) -> States] :
        /\ Follows(q, path) /\ path[Len(q)] = s /\ heard["recorder"] = path[0]
        /\ heard["owner"] = IF q # <<>> /\ q[1].left # Listeners THEN path[1] ELSE path[0]
  BY DEF QueueOK, LeadsTo
<1>3. n \in Nat
  BY <1>1, LenProperties
<1>4. /\ r \in Seq(Items) /\ Len(r) = n + 1 /\ r[n + 1] = item /\ r # <<>>
      /\ \A i \in 1..n : r[i] = q[i]
  BY <1>1, AppendProperties
<1> DEFINE longer == [i \in 0..(n + 1) |-> IF i = n + 1 THEN to ELSE path[i]]
<1>5. /\ longer \in [0..Len(r) -> States] /\ longer[Len(r)] = to
      /\ \A i \in 0..n : longer[i] = path[i]
  BY <1>2, <1>3, <1>4
<1>6. \A i \in 2..Len(r) : r[i].left = Listeners
  BY <1>1, <1>3, <1>4
<1>7. Follows(r, longer)
  <2>1. ASSUME NEW i \in 1..Len(r)
        PROVE  IF r[i].kind = "state" THEN r[i].from = longer[i - 1] /\ r[i].to = longer[i]
                                      ELSE longer[i] = longer[i - 1]
    <3>1. CASE i = n + 1
      <4>1. r[i] = item /\ longer[i] = to /\ longer[i - 1] = s
        BY <3>1, <1>2, <1>3, <1>4, <1>5
      <4> QED
        BY <4>1
    <3>2. CASE i # n + 1
      <4>1. i \in 1..n /\ i - 1 \in 0..n /\ i \in 0..n
        BY <3>2, <1>3, <1>4
      <4>2. r[i] = q[i] /\ longer[i] = path[i] /\ longer[i - 1] = path[i - 1]
        BY <4>1, <1>4, <1>5
      <4> QED
        BY <4>1, <4>2, <1>2 DEF Follows
    <3> QED
      BY <3>1, <3>2
  <2> QED
    BY <2>1, <1>5 DEF Follows
<1>8. longer[0] = path[0] /\ (q # <<>> => longer[1] = path[1] /\ r[1] = q[1])
  <2>1. q # <<>> => 1 \in 1..n
    BY <1>1, <1>3, EmptySeq
  <2> QED
    BY <2>1, <1>3, <1>4, <1>5
<1>9. q = <<>> => r[1] = item
  BY <1>4
<1>10. heard["owner"] = IF r # <<>> /\ r[1].left # Listeners THEN longer[1] ELSE longer[0]
  BY <1>2, <1>4, <1>8, <1>9
<1> HIDE DEF longer, r
<1>11. LeadsTo(r, to, heard)
  BY <1>2, <1>5, <1>7, <1>8, <1>10 DEF LeadsTo
<1> QED
  BY <1>1, <1>4, <1>6, <1>11 DEF QueueOK, Behind, r

LEMMA QueuedLeads ==
  ASSUME NEW q, NEW heard, state \in States, NEW to \in States, QueueOK(q, state, heard)
  PROVE  QueueOK(Queued(q, to), to, heard)
<1>1. CASE state = to
  BY <1>1 DEF Queued
<1>2. CASE state # to
  <2> DEFINE item == Change(state, to)
  <2>1. item \in Items /\ item.left = Listeners /\ item.kind = "state" /\ item.from = state
        /\ item.to = to
    BY DEF Change, Items, None
  <2> HIDE DEF item
  <2>2. QueueOK(Behind(q, item), to, heard)
    BY <2>1, BehindLeads
  <2> QED
    BY <1>2, <2>2 DEF Queued, item
<1> QED
  BY <1>1, <1>2

LEMMA EventLeads ==
  ASSUME NEW q, NEW heard, NEW s \in States, session \in Nat, QueueOK(q, s, heard)
  PROVE  QueueOK(Behind(q, EventItem), s, heard)
<1> DEFINE item == EventItem
<1>1. item \in Items /\ item.left = Listeners /\ item.kind # "state"
  BY DEF EventItem, Items
<1> HIDE DEF item
<1>2. QueueOK(Behind(q, item), s, heard)
  BY <1>1, BehindLeads
<1> QED
  BY <1>2 DEF item

LEMMA TailLeads ==
  ASSUME NEW q, NEW s \in States, NEW heard, QueueOK(q, s, heard), q # <<>>,
         NEW heard2 \in [Kin -> States],
         IF q[1].kind = "state"
         THEN q[1].left = <<"recorder">> /\ heard2 = [heard EXCEPT !["recorder"] = q[1].to]
         ELSE heard2 = heard
  PROVE  QueueOK(Tail(q), s, heard2)
<1> DEFINE r == Tail(q)
           n == Len(q)
<1>1. q \in Seq(Items) /\ (\A i \in 2..n : q[i].left = Listeners) /\ heard \in [Kin -> States]
  BY DEF QueueOK
<1>2. PICK path \in [0..n -> States] :
        /\ Follows(q, path) /\ path[n] = s /\ heard["recorder"] = path[0]
        /\ heard["owner"] = IF q # <<>> /\ q[1].left # Listeners THEN path[1] ELSE path[0]
  BY DEF QueueOK, LeadsTo
<1>3. n \in Nat /\ n >= 1
  BY <1>1, LenProperties, EmptySeq
<1>4. /\ r \in Seq(Items) /\ Len(r) = n - 1
      /\ \A i \in 1..(n - 1) : r[i] = q[i + 1]
  BY <1>1, HeadTailProperties
<1> DEFINE shorter == [i \in 0..(n - 1) |-> path[i + 1]]
<1>5. /\ shorter \in [0..Len(r) -> States] /\ shorter[Len(r)] = s
      /\ \A i \in 0..(n - 1) : shorter[i] = path[i + 1]
  BY <1>2, <1>3, <1>4
<1>6. \A i \in 1..Len(r) : r[i].left = Listeners
  <2>1. ASSUME NEW i \in 1..Len(r) PROVE r[i].left = Listeners
    <3>1. i + 1 \in 2..n /\ r[i] = q[i + 1]
      BY <1>3, <1>4
    <3> QED
      BY <3>1, <1>1
  <2> QED
    BY <2>1
<1>7. Follows(r, shorter)
  <2>1. ASSUME NEW i \in 1..Len(r)
        PROVE  IF r[i].kind = "state" THEN r[i].from = shorter[i - 1] /\ r[i].to = shorter[i]
                                      ELSE shorter[i] = shorter[i - 1]
    <3>1. i + 1 \in 1..n /\ i - 1 \in 0..(n - 1) /\ i \in 0..(n - 1) /\ i \in 1..(n - 1)
      BY <1>3, <1>4
    <3>2. r[i] = q[i + 1] /\ shorter[i] = path[i + 1] /\ shorter[i - 1] = path[i]
      BY <3>1, <1>4, <1>5
    <3>3. IF q[i + 1].kind = "state" THEN q[i + 1].from = path[i] /\ q[i + 1].to = path[i + 1]
                                     ELSE path[i + 1] = path[i]
      BY <3>1, <1>2, <1>3 DEF Follows
    <3> QED
      BY <3>2, <3>3
  <2> QED
    BY <2>1, <1>5 DEF Follows
<1>8. IF q[1].kind = "state" THEN q[1].from = path[0] /\ q[1].to = path[1] ELSE path[1] = path[0]
  BY <1>2, <1>3 DEF Follows
<1>9. shorter[0] = path[1]
  BY <1>3, <1>5
<1>10. heard2["recorder"] = path[1] /\ heard2["owner"] = path[1]
  <2>1. CASE q[1].kind = "state"
    <3>1. heard2 = [heard EXCEPT !["recorder"] = q[1].to] /\ q[1].left # Listeners
      BY <2>1, ListenersAre
    <3>2. heard2["recorder"] = q[1].to /\ heard2["owner"] = heard["owner"]
      BY <3>1, <1>1 DEF Kin
    <3> QED
      BY <2>1, <3>1, <3>2, <1>2, <1>8
  <2>2. CASE q[1].kind # "state"
    BY <2>2, <1>2, <1>8
  <2> QED
    BY <2>1, <2>2
<1>11. r # <<>> => r[1].left = Listeners
  <2>1. r # <<>> => 1 \in 1..Len(r)
    BY <1>4, LenProperties, EmptySeq
  <2> QED
    BY <2>1, <1>6
<1> HIDE DEF shorter, r
<1>12. LeadsTo(r, s, heard2)
  BY <1>5, <1>7, <1>9, <1>10, <1>11 DEF LeadsTo
<1>13. \A i \in 2..Len(r) : r[i].left = Listeners
  BY <1>6, <1>4, <1>3
<1> QED
  BY <1>4, <1>12, <1>13 DEF QueueOK, r

\* The owner heard the item at the head, the recorder did not.
LEMMA HeadLeads ==
  ASSUME NEW q, NEW s \in States, NEW heard, QueueOK(q, s, heard), q # <<>>,
         q[1].left = Listeners, NEW heard2 \in [Kin -> States],
         heard2 = IF q[1].kind = "state" THEN [heard EXCEPT !["owner"] = q[1].to] ELSE heard
  PROVE  QueueOK([q EXCEPT ![1].left = Tail(@)], s, heard2)
<1> DEFINE r == [q EXCEPT ![1].left = Tail(@)]
           n == Len(q)
<1>1. q \in Seq(Items) /\ (\A i \in 2..n : q[i].left = Listeners) /\ heard \in [Kin -> States]
  BY DEF QueueOK
<1>2. PICK path \in [0..n -> States] :
        /\ Follows(q, path) /\ path[n] = s /\ heard["recorder"] = path[0]
        /\ heard["owner"] = IF q # <<>> /\ q[1].left # Listeners THEN path[1] ELSE path[0]
  BY DEF QueueOK, LeadsTo
<1>3. n \in Nat /\ n >= 1 /\ DOMAIN q = 1..n
  BY <1>1, LenProperties, EmptySeq
<1> DEFINE item == [q[1] EXCEPT !.left = Tail(@)]
<1>4. q[1] \in Items
  BY <1>1, <1>3, ElementOfSeq
<1>5. /\ item \in Items /\ item.left = <<"recorder">>
      /\ item.kind = q[1].kind /\ item.from = q[1].from /\ item.to = q[1].to
  <2>1. Tail(q[1].left) = <<"recorder">>
    BY ListenersAre
  <2> QED
    BY <1>4, <2>1 DEF Items
<1>6. r = [q EXCEPT ![1] = item]
  OBVIOUS
<1> HIDE DEF item
<1>7. /\ r \in Seq(Items) /\ Len(r) = n /\ r[1] = item
      /\ \A i \in 2..n : r[i] = q[i]
  <2> HIDE DEF r
  <2>1. 1 \in 1..Len(q) /\ \A i \in 2..n : i \in 1..Len(q) /\ i # 1
    BY <1>3
  <2>2. /\ r \in Seq(Items) /\ Len(r) = n
        /\ \A j \in 1..Len(q) : r[j] = IF j = 1 THEN item ELSE q[j]
    BY <1>1, <1>5, <1>6, <2>1, ExceptSeq
  <2> QED
    BY <2>1, <2>2
<1> HIDE DEF r
<1>8. Follows(r, path)
  <2>1. ASSUME NEW i \in 1..n
        PROVE  IF r[i].kind = "state" THEN r[i].from = path[i - 1] /\ r[i].to = path[i]
                                      ELSE path[i] = path[i - 1]
    <3>1. r[i].kind = q[i].kind /\ r[i].from = q[i].from /\ r[i].to = q[i].to
      <4>1. CASE i = 1
        BY <4>1, <1>5, <1>7
      <4>2. CASE i # 1
        <5>1. i \in 2..n
          BY <4>2, <1>3
        <5> QED
          BY <5>1, <1>7
      <4> QED
        BY <4>1, <4>2
    <3> QED
      BY <3>1, <1>2 DEF Follows
  <2> QED
    BY <2>1, <1>2, <1>7 DEF Follows
<1>9. IF q[1].kind = "state" THEN q[1].from = path[0] /\ q[1].to = path[1] ELSE path[1] = path[0]
  BY <1>2, <1>3 DEF Follows
<1>10. heard2["recorder"] = path[0] /\ heard2["owner"] = path[1]
  <2>1. CASE q[1].kind = "state"
    <3>1. heard2["owner"] = q[1].to /\ heard2["recorder"] = heard["recorder"]
      BY <2>1, <1>1 DEF Kin
    <3> QED
      BY <2>1, <3>1, <1>2, <1>9
  <2>2. CASE q[1].kind # "state"
    BY <2>2, <1>2, <1>9
  <2> QED
    BY <2>1, <2>2
<1>11. r # <<>> /\ r[1].left # Listeners
  BY <1>3, <1>5, <1>7, ListenersAre, EmptySeq
<1>12. LeadsTo(r, s, heard2)
  BY <1>2, <1>7, <1>8, <1>10, <1>11 DEF LeadsTo
<1>13. \A i \in 2..Len(r) : r[i].left = Listeners
  BY <1>1, <1>7
<1> QED
  BY <1>7, <1>12, <1>13 DEF QueueOK, r

\* A delivery leads every listener on.
LEMMA AfterOneLeads ==
  ASSUME NEW q, NEW s \in States, NEW heard, QueueOK(q, s, heard), q # <<>>,
         NEW heard2,
         heard2 = IF q[1].kind = "state" THEN [heard EXCEPT ![q[1].left[1]] = q[1].to] ELSE heard
  PROVE  QueueOK(AfterOne(q), s, heard2)
<1>1. q \in Seq(Items) /\ heard \in [Kin -> States]
  BY DEF QueueOK
<1>2. Len(q) \in Nat /\ Len(q) >= 1
  BY <1>1, LenProperties, EmptySeq
<1>3. q[1] \in Items
  BY <1>1, <1>2, ElementOfSeq
<1>4. q[1].kind = "state" => q[1].to \in States
  <2>1. PICK path \in [0..Len(q) -> States] : Follows(q, path)
    BY DEF QueueOK, LeadsTo
  <2> QED
    BY <2>1, <1>2 DEF Follows
<1>5. q[1].left \in {Listeners, <<"recorder">>}
  BY <1>3 DEF Items
<1>6. heard2 \in [Kin -> States]
  BY <1>1, <1>4, <1>5, ListenersAre
<1>7. CASE q[1].left = Listeners
  BY <1>6, <1>7, ListenersAre, HeadLeads DEF AfterOne
<1>8. CASE q[1].left = <<"recorder">>
  BY <1>6, <1>8, ListenersAre, TailLeads DEF AfterOne
<1> QED
  BY <1>5, <1>7, <1>8

-----------------------------------------------------------------------------
(* Commands *)

LEMMA ClientIs ==
  ASSUME ClientInv
  PROVE  SocketRowsOK /\ ControlOK /\ CommandsOK /\ MessagesOK /\ TradesOK /\ SubscribesOK
BY DEF ClientInv

LEMMA NewIs == New \in CommandRows
BY DEF New, CommandRows, Terms, None

\* The command in flight ends: with no answer, or with one that fits, and what misled a command
\* stays so.
Ends == /\ CommandsOK'
        /\ \A c \in Commands : commands[c].status # "none" => commands'[c].status # "none"
        /\ \A c \in Commands : Misled(c) => Misled(c)'

LEMMA EndsOK ==
  ASSUME SocketRowsOK, CommandsOK, pending # None, pending' = None,
         NEW status \in {"success", "fail", "unknown"}, NEW by \in Nat, NEW said \in Terms,
         status = "success" => said = commands[pending].terms,
         status = "fail" => Mode(said) = Mode(commands[pending].terms),
         status # "unknown" => by \in {pending, None} \/ (by \in Commands /\ Misled(by)),
         NEW new, new = [commands[pending] EXCEPT !.status = status, !.by = by, !.said = said],
         commands' = [commands EXCEPT ![pending] = new]
  PROVE  Ends /\ (status # "unknown" /\ by # pending =>
                     \A c \in Commands : c = pending => Misled(c)')
<1>1. /\ pending \in Commands /\ commands \in [Commands -> CommandRows]
      /\ commands[pending] \in CommandRows /\ commands[pending].status = "waiting"
  BY DEF SocketRowsOK, CommandsOK
<1>2. /\ new \in CommandRows /\ new.status = status /\ new.by = by /\ new.said = said
      /\ new.sent = commands[pending].sent /\ new.terms = commands[pending].terms
  BY <1>1 DEF CommandRows
<1>3. commands' \in [Commands -> CommandRows] /\ commands'[pending] = new
  BY <1>1, <1>2
<1>4. \A c \in Commands \ {pending} : commands'[c] = commands[c]
  BY <1>1
<1>5. ~Misled(pending)
  BY <1>1 DEF Misled
<1>6. \A c \in Commands : Misled(c) => Misled(c)'
  <2>1. ASSUME NEW c \in Commands, Misled(c) PROVE commands'[c] = commands[c]
    BY <1>4, <1>5, <2>1
  <2> QED
    BY <2>1 DEF Misled
<1>7. ASSUME NEW c \in Commands
      PROVE  /\ commands'[c].status = "none" => commands'[c].sent = 0
             /\ commands'[c].sent <= 1
             /\ commands'[c].status = "success" => commands'[c].said = commands'[c].terms
             /\ commands'[c].status = "fail" => Mode(commands'[c].said) = Mode(commands'[c].terms)
             /\ commands[c].status # "none" => commands'[c].status # "none"
  <2>1. CASE c = pending
    <3>1. commands[c].sent <= 1
      BY DEF CommandsOK
    <3> QED
      BY <1>2, <1>3, <2>1, <3>1
  <2>2. CASE c # pending
    BY <1>4, <2>2 DEF CommandsOK
  <2> QED
    BY <2>1, <2>2
<1>8. ASSUME NEW c \in Commands, Misled(c)'
      PROVE  \/ commands'[c].by = None
             \/ commands'[c].by \in Commands /\ Misled(commands[c].by)'
  <2>1. CASE c = pending
    <3>1. status # "unknown" /\ by # pending /\ commands'[c].by = by
      BY <1>2, <1>3, <1>8, <2>1 DEF Misled
    <3>2. by = None \/ (by \in Commands /\ Misled(by))
      BY <3>1
    <3>3. by \in Commands /\ Misled(by) => Misled(by)'
      BY <1>6
    <3>4. Misled(commands[c].by)' <=> Misled(by)'
      BY <3>1 DEF Misled
    <3> QED
      BY <3>1, <3>2, <3>3, <3>4
  <2>2. CASE c # pending
    <3>1. commands'[c] = commands[c]
      BY <1>4, <2>2
    <3>2. Misled(c)
      BY <1>8, <3>1 DEF Misled
    <3>3. commands[c].by = None \/ (commands[c].by \in Commands /\ Misled(commands[c].by))
      BY <3>2 DEF CommandsOK
    <3>4. PICK d : d = commands[c].by
      OBVIOUS
    <3>5. d \in Commands /\ Misled(d) => Misled(d)'
      BY <1>6
    <3>6. Misled(commands[c].by)' <=> Misled(d)'
      BY <3>1, <3>4 DEF Misled
    <3> QED
      BY <3>1, <3>3, <3>4, <3>5, <3>6
  <2> QED
    BY <2>1, <2>2
<1>9. CommandsOK'
  BY <1>3, <1>7, <1>8 DEF CommandsOK
<1>10. status # "unknown" /\ by # pending => \A c \in Commands : c = pending => Misled(c)'
  <2>1. ASSUME status # "unknown", by # pending, NEW c \in Commands, c = pending PROVE Misled(c)'
    BY <1>2, <1>3, <2>1 DEF Misled
  <2> QED
    BY <2>1
<1> QED
  BY <1>6, <1>7, <1>9, <1>10 DEF Ends

\* The command in flight ends with no answer.
LEMMA EndedOK ==
  ASSUME SocketRowsOK, CommandsOK, pending' = None, commands' = Ended("unknown", None)
  PROVE  Ends
<1>1. CASE pending = None
  BY <1>1 DEF Ends, Ended, CommandsOK, Misled
<1>2. CASE pending # None
  <2>1. /\ pending \in Commands /\ commands \in [Commands -> CommandRows]
        /\ commands[pending] \in CommandRows /\ commands[pending].said \in Terms
    BY <1>2 DEF SocketRowsOK, CommandsOK, CommandRows
  <2> DEFINE said == commands[pending].said
             new == [commands[pending] EXCEPT !.status = "unknown", !.by = None, !.said = said]
  <2>2. [commands[pending] EXCEPT !.status = "unknown", !.by = None] = new
    BY <2>1 DEF CommandRows
  <2>3. commands' = [commands EXCEPT ![pending] = new]
    BY <1>2, <2>1, <2>2 DEF Ended
  <2>4. None \in Nat
    BY DEF None
  <2> QED
    BY <1>2, <2>1, <2>3, <2>4, EndsOK
<1> QED
  BY <1>1, <1>2

LEMMA UnsettledOK ==
  ASSUME SocketRowsOK, CommandsOK, pending' = Unsettled[1], commands' = Unsettled[2]
  PROVE  /\ pending' = None /\ CommandsOK'
         /\ \A c \in Commands : commands[c].status # "none" => commands'[c].status # "none"
<1>1. pending' = None /\ commands' = Ended("unknown", None)
  BY DEF Unsettled
<1> QED
  BY <1>1, EndedOK DEF Ends

\* Nothing is sent with an empty message list.
LEMMA NothingCarried ==
  ASSUME NEW cs \in [Commands -> CommandRows]
  PROVE  Carried(cs, <<>>) = cs
<1>1. ASSUME NEW c \in Commands PROVE [cs[c] EXCEPT !.sent = @ + TradesOf(<<>>, c)] = cs[c]
  <2>1. {i \in DOMAIN <<>> : <<>>[i] = Trade(c)} = {}
    OBVIOUS
  <2>2. TradesOf(<<>>, c) = 0
    BY <2>1, FS_EmptySet DEF TradesOf
  <2>3. cs[c] \in CommandRows
    OBVIOUS
  <2> QED
    BY <2>2, <2>3 DEF CommandRows
<1> QED
  BY <1>1 DEF Carried

-----------------------------------------------------------------------------
(* The connection *)

\* The socket is between attempts or over: nothing of a connection is left.
Gone ==
  /\ link' \in {"down", "shut"} /\ conn' = None /\ tainted' = FALSE /\ timer' = FALSE
  /\ buffer' = <<>> /\ wire' = <<>> /\ authed' = FALSE

LEMMA GoneKeeps ==
  ASSUME ClientInv, Gone, SocketRowsOK', ControlOK', CommandsOK', pending' = None
  PROVE  ClientInv'
<1>1. MessagesOK'
  <2>1. wire' \in Seq(Messages) /\ buffer' \in Seq(Messages) /\ Len(wire') = 0
    BY EmptySeq DEF Gone
  <2>2. DOMAIN wire' = {}
    BY DEF Gone
  <2> QED
    BY <2>1, <2>2 DEF MessagesOK, Gone
<1>2. TradesOK' /\ SubscribesOK'
  <2>1. DOMAIN wire' = {} /\ link' # "up"
    BY DEF Gone
  <2> QED
    BY <2>1 DEF TradesOK, SubscribesOK
<1> QED
  BY <1>1, <1>2 DEF ClientInv

LEMMA StartKeeps ==
  ASSUME ClientInv, NEW q, NEW heard, QueueOK(q, state, heard), StartCall(q)
  PROVE  ClientInv' /\ QueueOK(queue', state', heard)
<1> USE ClientIs
<1>1. /\ pending' = None /\ CommandsOK' /\ state' = "connecting" /\ queue' = Queued(q, "connecting")
  BY UnsettledOK DEF StartCall, Transition
<1>2. SocketRowsOK'
  <2>1. session' \in Nat /\ socketStarts' \in Nat /\ conn' \in Nat /\ count' \in Nat /\ session' # None
    BY DEF StartCall, SocketRowsOK, None
  <2>2. tainted' \in BOOLEAN /\ timer' \in BOOLEAN /\ authed' \in BOOLEAN
        /\ link' = "down" /\ registry' = registry
    BY DEF StartCall
  <2> QED
    BY <1>1, <2>1, <2>2 DEF SocketRowsOK, States
<1>3. ControlOK'
  BY <1>1, <1>2 DEF StartCall, SocketRowsOK, ControlOK, None
<1>4. QueueOK(queue', state', heard)
  BY <1>1, QueuedLeads DEF SocketRowsOK, States
<1>5. Gone
  BY DEF StartCall, Gone
<1> QED
  BY <1>1, <1>2, <1>3, <1>4, <1>5, GoneKeeps

LEMMA StopKeeps ==
  ASSUME ClientInv, NEW q, NEW heard, QueueOK(q, state, heard), StopCall(q)
  PROVE  ClientInv' /\ QueueOK(queue', state', heard)
<1> USE ClientIs
<1>1. /\ pending' = None /\ CommandsOK' /\ state' = "idle" /\ queue' = Queued(q, "idle")
  BY UnsettledOK DEF StopCall, Transition
<1>2. SocketRowsOK'
  BY <1>1 DEF StopCall, SocketRowsOK, States, None
<1>3. ControlOK'
  BY <1>1 DEF StopCall, ControlOK, None
<1>4. QueueOK(queue', state', heard)
  BY <1>1, QueuedLeads DEF SocketRowsOK, States
<1>5. Gone
  BY DEF StopCall, Gone
<1> QED
  BY <1>1, <1>2, <1>3, <1>4, <1>5, GoneKeeps

-----------------------------------------------------------------------------
(* Messages on a connection *)

LEMMA MessagesGrow ==
  ASSUME MessagesOK, wire # <<>>, NEW m \in Messages, m # Auth, wire' = Append(wire, m), authed',
         UNCHANGED <<buffer, link, conn>>
  PROVE  MessagesOK'
<1>1. wire \in Seq(Messages) /\ buffer \in Seq(Messages)
  BY DEF MessagesOK
<1>2. Len(wire) >= 1 /\ Len(wire) \in Nat
  BY <1>1, EmptySeq
<1>3. wire' # <<>>
  BY <1>1, AppendProperties, EmptySeq
<1>4. /\ wire' \in Seq(Messages) /\ DOMAIN wire = 1..Len(wire)
      /\ DOMAIN wire' = DOMAIN wire \cup {Len(wire) + 1}
      /\ wire'[Len(wire) + 1] = m /\ \A i \in DOMAIN wire : wire'[i] = wire[i]
  BY <1>1, WireGrows
<1>5. wire'[1] = Auth
  BY <1>2, <1>4 DEF MessagesOK
<1>6. \A i \in DOMAIN wire' : wire'[i] = Auth => i = 1
  BY <1>4 DEF MessagesOK
<1> QED
  BY <1>1, <1>3, <1>4, <1>5, <1>6 DEF MessagesOK

\* A message goes out, or into the buffer of a dead transport, or nowhere.
LEMMA OutIs ==
  ASSUME ControlOK, MessagesOK, NEW m \in Messages, m # Auth, Out(<<m>>), authed',
         link' = link, conn' = conn
  PROVE  /\ MessagesOK'
         /\ link = "up" => wire' = Append(wire, m)
         /\ link # "up" => wire' = wire
<1>1. wire \in Seq(Messages) /\ buffer \in Seq(Messages)
  BY DEF MessagesOK
<1>2. CASE link = "up"
  <2>1. wire' = Append(wire, m) /\ buffer' = buffer
    BY <1>1, <1>2, WireGrows DEF Out
  <2>2. wire # <<>>
    BY <1>2 DEF MessagesOK, ControlOK
  <2> QED
    BY <1>2, <2>1, <2>2, MessagesGrow
<1>3. CASE link # "up"
  <2>1. wire' = wire
    BY <1>3 DEF Out
  <2>2. buffer' \in Seq(Messages) /\ (link \notin {"dead", "closing"} => buffer' = buffer)
    <3>1. CASE link = "dead"
      <4>1. buffer' = buffer \o <<m>>
        BY <3>1 DEF Out
      <4> QED
        BY <1>1, <3>1, <4>1, WireGrows
    <3>2. CASE link # "dead"
      BY <1>1, <1>3, <3>2 DEF Out
    <3> QED
      BY <3>1, <3>2
  <2>3. MessagesOK'
    BY <2>1, <2>2 DEF MessagesOK
  <2> QED
    BY <1>3, <2>1, <2>3
<1> QED
  BY <1>2, <1>3

\* What the trades and the subscriptions of a wire mean is kept by a message of another kind.
LEMMA TradesKept ==
  ASSUME wire \in Seq(Messages), TradesOK, NEW m \in Messages, m.what # "trade",
         wire' = Append(wire, m), link' = link, tainted' = tainted,
         \/ pending' = pending
         \/ pending' = None /\ pending # None /\ (m = Reply(pending) \/ \A c \in Commands : c = pending => Misled(c)'),
         \A c \in Commands : commands[c].status # "none" => commands'[c].status # "none",
         \A c \in Commands : Misled(c) => Misled(c)'
  PROVE  TradesOK'
<1>1. /\ DOMAIN wire' = DOMAIN wire \cup {Len(wire) + 1} /\ wire'[Len(wire) + 1] = m
      /\ Len(wire) + 1 \notin DOMAIN wire /\ \A i \in DOMAIN wire : wire'[i] = wire[i]
  BY WireGrows
<1>2. \A c \in Commands : m # Trade(c)
  BY MessagesAre
<1>3. \A c \in Commands : \A i \in DOMAIN wire' : wire'[i] = Trade(c) => i \in DOMAIN wire /\ wire[i] = Trade(c)
  BY <1>1, <1>2
<1>4. ASSUME NEW c \in Commands, NEW i \in DOMAIN wire', wire'[i] = Trade(c)
      PROVE  /\ commands'[c].status # "none"
             /\ pending' = c \/ tainted' \/ Misled(c)' \/ \E j \in DOMAIN wire' : wire'[j] = Reply(c)
  <2>1. i \in DOMAIN wire /\ wire[i] = Trade(c)
    BY <1>3, <1>4
  <2>2. /\ commands[c].status # "none"
        /\ pending = c \/ tainted \/ Misled(c) \/ \E j \in DOMAIN wire : wire[j] = Reply(c)
    BY <2>1 DEF TradesOK
  <2>3. (\E j \in DOMAIN wire : wire[j] = Reply(c)) => \E j \in DOMAIN wire' : wire'[j] = Reply(c)
    BY <1>1
  <2>4. pending = c /\ pending' # c => Misled(c)' \/ \E j \in DOMAIN wire' : wire'[j] = Reply(c)
    BY <1>1
  <2> QED
    BY <2>2, <2>3, <2>4
<1>5. pending' # None /\ link' = "up" => \E i \in DOMAIN wire' : wire'[i] = Trade(pending')
  BY <1>1 DEF TradesOK
<1> QED
  BY <1>3, <1>4, <1>5 DEF TradesOK

LEMMA SubscribesKept ==
  ASSUME wire \in Seq(Messages), SubscribesOK, NEW m \in Messages, m.what # "subscribe",
         wire' = Append(wire, m), link' = link, state' = state, registry' = registry
  PROVE  SubscribesOK'
<1>1. /\ DOMAIN wire' = DOMAIN wire \cup {Len(wire) + 1} /\ wire'[Len(wire) + 1] = m
      /\ Len(wire) + 1 \notin DOMAIN wire /\ \A i \in DOMAIN wire : wire'[i] = wire[i]
  BY WireGrows
<1>2. \A a \in Assets : \A i \in DOMAIN wire' : AsksFor(wire'[i], a) => i \in DOMAIN wire /\ AsksFor(wire[i], a)
  BY <1>1 DEF AsksFor
<1>3. state' = "ready" /\ link' = "up" => \A a \in registry' : \E i \in DOMAIN wire' : AsksFor(wire'[i], a)
  BY <1>1 DEF SubscribesOK
<1> QED
  BY <1>2, <1>3 DEF SubscribesOK

LEMMA SubscribeKeeps ==
  ASSUME ClientInv, NEW q, NEW heard, QueueOK(q, state, heard), SubscribeCall(q)
  PROVE  ClientInv' /\ QueueOK(queue', state', heard)
<1> USE ClientIs
<1>1. PICK a \in Assets \ registry :
        /\ registry' = registry \cup {a}
        /\ IF SendsNow THEN Out(<<Subscribe({a})>>) ELSE UNCHANGED <<wire, buffer>>
  BY DEF SubscribeCall
<1> DEFINE m == Subscribe({a})
<1>2. /\ queue' = q
      /\ UNCHANGED <<state, session, socketStarts, link, conn, tainted, timer, pending, commands,
                     authed, mute, count>>
  BY DEF SubscribeCall
<1>3. SocketRowsOK' /\ ControlOK' /\ CommandsOK'
  BY <1>1, <1>2 DEF Misled, SocketRowsOK, ControlOK, CommandsOK
<1>4. QueueOK(queue', state', heard)
  BY <1>2
<1>5. {a} \in SUBSET Assets
  BY <1>1
<1>6. m \in Messages /\ m.what = "subscribe" /\ m.ids = {a} /\ m # Auth
  BY <1>5, MessagesAre
<1> HIDE DEF m
<1>7. CASE SendsNow /\ link = "up"
  <2>1. authed
    BY <1>7 DEF SendsNow, ControlOK
  <2>2. Out(<<m>>)
    BY <1>1, <1>7 DEF m
  <2>3. MessagesOK' /\ wire' = Append(wire, m)
    BY <1>2, <1>6, <1>7, <2>1, <2>2, OutIs
  <2>4. TradesOK'
    BY <1>2, <1>6, <2>3, TradesKept DEF Misled, MessagesOK
  <2>5. /\ DOMAIN wire' = DOMAIN wire \cup {Len(wire) + 1} /\ wire'[Len(wire) + 1] = m
        /\ Len(wire) + 1 \notin DOMAIN wire /\ \A i \in DOMAIN wire : wire'[i] = wire[i]
    BY <1>6, <2>3, WireGrows DEF MessagesOK
  <2>6. ASSUME NEW b \in Assets, NEW i \in DOMAIN wire', AsksFor(wire'[i], b)
        PROVE  /\ b \in registry'
               /\ b = a => i = Len(wire) + 1
               /\ b # a => i \in DOMAIN wire /\ AsksFor(wire[i], b)
    <3>1. CASE i \in DOMAIN wire
      <4>1. AsksFor(wire[i], b)
        BY <2>5, <2>6, <3>1
      <4>2. b \in registry
        BY <3>1, <4>1 DEF SubscribesOK
      <4> QED
        BY <1>1, <3>1, <4>1, <4>2
    <3>2. CASE i = Len(wire) + 1
      BY <1>1, <1>6, <2>5, <2>6, <3>2 DEF AsksFor
    <3> QED
      BY <2>5, <3>1, <3>2
  <2>7. ASSUME NEW b \in registry' PROVE \E i \in DOMAIN wire' : AsksFor(wire'[i], b)
    <3>1. CASE b = a
      <4>1. AsksFor(wire'[Len(wire) + 1], b)
        BY <1>6, <2>5, <3>1 DEF AsksFor
      <4> QED
        BY <2>5, <4>1
    <3>2. CASE b \in registry
      BY <1>7, <2>5, <3>2 DEF SubscribesOK, SendsNow
    <3> QED
      BY <1>1, <3>1, <3>2
  <2>8. \A b \in Assets : \A i, j \in DOMAIN wire' :
          AsksFor(wire'[i], b) /\ AsksFor(wire'[j], b) => i = j
    BY <2>6 DEF SubscribesOK
  <2>9. SubscribesOK'
    BY <2>6, <2>7, <2>8 DEF SubscribesOK
  <2> QED
    BY <1>3, <1>4, <2>3, <2>4, <2>9 DEF ClientInv
<1>8. CASE ~(SendsNow /\ link = "up")
  <2>1. wire' = wire /\ MessagesOK'
    <3>1. CASE SendsNow
      <4>1. authed /\ Out(<<m>>)
        BY <1>1, <3>1 DEF SendsNow, ControlOK, m
      <4> QED
        BY <1>2, <1>6, <1>8, <3>1, <4>1, OutIs
    <3>2. CASE ~SendsNow
      <4>1. wire' = wire /\ buffer' = buffer
        BY <1>1, <3>2
      <4> QED
        BY <1>2, <4>1 DEF MessagesOK
    <3> QED
      BY <3>1, <3>2
  <2>2. TradesOK'
    BY <1>2, <2>1 DEF Misled, TradesOK
  <2>3. ~(state' = "ready" /\ link' = "up")
    BY <1>2, <1>8 DEF SendsNow, ControlOK
  <2>4. SubscribesOK'
    BY <1>1, <2>1, <2>3 DEF SubscribesOK
  <2> QED
    BY <1>3, <1>4, <2>1, <2>2, <2>4 DEF ClientInv
<1> QED
  BY <1>7, <1>8

LEMMA OpenKeeps ==
  ASSUME ClientInv, NEW q, NEW heard, QueueOK(q, state, heard), OpenCall(q)
  PROVE  ClientInv' /\ QueueOK(queue', state', heard)
<1> USE ClientIs
<1>1. PICK c \in Commands, t \in Terms :
        /\ commands[c].status = "none"
        /\ pending' = c
        /\ commands' = IF link = "up"
                       THEN Carried([commands EXCEPT ![c].status = "waiting", ![c].terms = t], <<Trade(c)>>)
                       ELSE [commands EXCEPT ![c].status = "waiting", ![c].terms = t]
        /\ Out(<<Trade(c)>>)
  BY DEF OpenCall
<1> DEFINE m == Trade(c)
           opened == [commands[c] EXCEPT !.status = "waiting", !.terms = t]
           put == [commands EXCEPT ![c] = opened]
<1>2. /\ queue' = q /\ pending = None /\ session # None /\ conn # None /\ ~tainted
      /\ state = "ready" /\ link \in {"up", "dead", "closing"} /\ authed
      /\ UNCHANGED <<state, session, socketStarts, link, conn, tainted, timer, registry, authed,
                     mute, count>>
  BY DEF OpenCall, MaySend, ControlOK
<1>3. c # None
  BY SocketAssumption DEF None
<1>4. SocketRowsOK' /\ QueueOK(queue', state', heard)
  BY <1>1, <1>2 DEF SocketRowsOK
<1>5. ControlOK'
  BY <1>1, <1>2, <1>3 DEF ControlOK
<1>6. m \in Messages /\ m.what = "trade" /\ m # Auth
  BY MessagesAre
<1>7. commands \in [Commands -> CommandRows] /\ commands[c] \in CommandRows /\ commands[c].sent = 0
  BY <1>1 DEF CommandsOK
<1>8. opened \in CommandRows /\ opened.status = "waiting" /\ opened.sent = 0
  BY <1>7 DEF CommandRows
<1>9. [commands EXCEPT ![c].status = "waiting", ![c].terms = t] = put
  BY <1>7 DEF CommandRows
<1> HIDE DEF m, opened
<1>10. put \in [Commands -> CommandRows] /\ put[c] = opened /\ \A d \in Commands \ {c} : put[d] = commands[d]
  BY <1>7, <1>8
<1>11. commands' = IF link = "up" THEN Carried(put, <<m>>) ELSE put
  BY <1>1, <1>9 DEF m
<1> HIDE DEF put
<1>12. \A d \in Commands : TradesOf(<<m>>, d) = IF d = c THEN 1 ELSE 0
  <2>1. ASSUME NEW d \in Commands PROVE TradesOf(<<m>>, d) = IF d = c THEN 1 ELSE 0
    <3>1. <<m>> \in Seq(Messages) /\ DOMAIN <<m>> = {1} /\ <<m>>[1] = m
      BY <1>6
    <3>2. m = Trade(d) <=> d = c
      BY MessagesAre DEF m
    <3>3. TradesOf(<<m>>, d) \in {0, 1} /\ (TradesOf(<<m>>, d) = 1 <=> d = c)
      BY <3>1, <3>2, TradesOfIs
    <3> QED
      BY <3>3
  <2> QED
    BY <2>1
<1>13. /\ commands' \in [Commands -> CommandRows]
       /\ commands'[c].status = "waiting" /\ commands'[c].sent \in {0, 1}
       /\ \A d \in Commands \ {c} : commands'[d] = commands[d]
  <2>1. CASE link = "up"
    <3>1. commands' = [d \in Commands |-> [put[d] EXCEPT !.sent = @ + TradesOf(<<m>>, d)]]
      BY <1>11, <2>1 DEF Carried
    <3>2. ASSUME NEW d \in Commands \ {c} PROVE commands'[d] = commands[d] /\ commands'[d] \in CommandRows
      <4>1. put[d] = commands[d] /\ TradesOf(<<m>>, d) = 0 /\ put[d] \in CommandRows
        BY <1>10, <1>12
      <4>2. commands'[d] = [put[d] EXCEPT !.sent = put[d].sent + 0]
        BY <3>1, <4>1
      <4> QED
        BY <4>1, <4>2 DEF CommandRows
    <3>3. commands'[c] = [opened EXCEPT !.sent = opened.sent + 1]
      BY <1>10, <1>12, <3>1
    <3>4. commands'[c] \in CommandRows /\ commands'[c].status = "waiting" /\ commands'[c].sent = 1
      BY <1>8, <3>3 DEF CommandRows
    <3>5. \A d \in Commands : commands'[d] \in CommandRows
      BY <3>2, <3>4
    <3> QED
      BY <3>1, <3>2, <3>4, <3>5
  <2>2. CASE link # "up"
    BY <1>8, <1>10, <1>11, <2>2
  <2> QED
    BY <2>1, <2>2
<1>14. CommandsOK'
  <2>1. ASSUME NEW d \in Commands
        PROVE  /\ commands'[d].status = "none" => commands'[d].sent = 0
               /\ commands'[d].sent <= 1
               /\ commands'[d].status = "success" => commands'[d].said = commands'[d].terms
               /\ commands'[d].status = "fail" => Mode(commands'[d].said) = Mode(commands'[d].terms)
    <3>1. CASE d = c
      BY <1>13, <3>1
    <3>2. CASE d # c
      BY <1>13, <3>2 DEF CommandsOK
    <3> QED
      BY <3>1, <3>2
  <2>2. pending' # None => commands'[pending'].status = "waiting"
    BY <1>1, <1>13
  <2>3. \A d \in Commands : Misled(d)' <=> Misled(d)
    BY <1>1, <1>13 DEF Misled
  <2>4. ASSUME NEW d \in Commands, Misled(d)'
        PROVE  \/ commands'[d].by = None
               \/ commands'[d].by \in Commands /\ Misled(commands[d].by)'
    <3>1. Misled(d)
      BY <2>3, <2>4
    <3>2. d # c
      BY <1>1, <3>1 DEF Misled
    <3>3. commands'[d] = commands[d]
      BY <1>13, <3>2
    <3>4. PICK e : e = commands[d].by
      OBVIOUS
    <3>5. e = None \/ (e \in Commands /\ Misled(e))
      BY <3>1, <3>4 DEF CommandsOK
    <3>6. Misled(commands[d].by)' <=> Misled(e)'
      BY <3>3, <3>4 DEF Misled
    <3> QED
      BY <2>3, <3>3, <3>4, <3>5, <3>6
  <2> QED
    BY <1>13, <2>1, <2>2, <2>4 DEF CommandsOK
<1>15. Out(<<m>>)
  BY <1>1 DEF m
<1>16. /\ MessagesOK' /\ (link = "up" => wire' = Append(wire, m)) /\ (link # "up" => wire' = wire)
  BY <1>2, <1>6, <1>15, OutIs
<1>17. \A d \in Commands : commands[d].status # "none" => commands'[d].status # "none"
  BY <1>1, <1>13
<1>18. \A d \in Commands : \A i \in DOMAIN wire : wire[i] = Trade(d) =>
         /\ d # c /\ commands'[d].status # "none"
         /\ Misled(d)' \/ \E j \in DOMAIN wire : wire[j] = Reply(d)
  <2>1. ASSUME NEW d \in Commands, NEW i \in DOMAIN wire, wire[i] = Trade(d)
        PROVE  /\ d # c /\ commands'[d].status # "none"
               /\ Misled(d)' \/ \E j \in DOMAIN wire : wire[j] = Reply(d)
    <3>1. d # None
      BY SocketAssumption DEF None
    <3>2. commands[d].status # "none" /\ (Misled(d) \/ \E j \in DOMAIN wire : wire[j] = Reply(d))
      BY <1>2, <2>1, <3>1 DEF TradesOK
    <3>3. d # c
      BY <1>1, <3>2
    <3>4. Misled(d) => Misled(d)'
      BY <1>13, <3>3 DEF Misled
    <3> QED
      BY <1>17, <3>2, <3>3, <3>4
  <2> QED
    BY <2>1
<1>19. CASE link = "up"
  <2>1. wire \in Seq(Messages) /\ wire' = Append(wire, m)
    BY <1>16, <1>19 DEF MessagesOK
  <2>2. /\ DOMAIN wire' = DOMAIN wire \cup {Len(wire) + 1} /\ wire'[Len(wire) + 1] = m
        /\ Len(wire) + 1 \notin DOMAIN wire /\ \A i \in DOMAIN wire : wire'[i] = wire[i]
    BY <1>6, <2>1, WireGrows
  <2>3. SubscribesOK'
    BY <1>2, <1>6, <2>1, SubscribesKept
  <2>4. ASSUME NEW d \in Commands, NEW i \in DOMAIN wire', wire'[i] = Trade(d)
        PROVE  /\ d = c => i = Len(wire) + 1
               /\ d # c => i \in DOMAIN wire /\ wire[i] = Trade(d)
               /\ commands'[d].status # "none"
               /\ pending' = d \/ Misled(d)' \/ \E j \in DOMAIN wire' : wire'[j] = Reply(d)
    <3>1. CASE i \in DOMAIN wire
      <4>1. wire[i] = Trade(d)
        BY <2>2, <2>4, <3>1
      <4>2. /\ d # c /\ commands'[d].status # "none"
            /\ Misled(d)' \/ \E j \in DOMAIN wire : wire[j] = Reply(d)
        BY <1>18, <3>1, <4>1
      <4> QED
        BY <2>2, <3>1, <4>1, <4>2
    <3>2. CASE i = Len(wire) + 1
      <4>1. d = c
        BY <2>2, <2>4, <3>2, MessagesAre DEF m
      <4> QED
        BY <1>1, <1>13, <3>2, <4>1
    <3> QED
      BY <2>2, <3>1, <3>2
  <2>5. \A d \in Commands : \A i, j \in DOMAIN wire' : wire'[i] = Trade(d) /\ wire'[j] = Trade(d) => i = j
    BY <2>4 DEF TradesOK
  <2>6. \E i \in DOMAIN wire' : wire'[i] = Trade(pending')
    BY <1>1, <2>2 DEF m
  <2>7. TradesOK'
    BY <2>4, <2>5, <2>6 DEF TradesOK
  <2> QED
    BY <1>4, <1>5, <1>14, <1>16, <2>3, <2>7 DEF ClientInv
<1>20. CASE link # "up"
  <2>1. wire' = wire /\ link' # "up"
    BY <1>2, <1>16, <1>20
  <2>2. SubscribesOK'
    BY <1>2, <2>1 DEF SubscribesOK
  <2>3. TradesOK'
    BY <1>18, <2>1 DEF TradesOK
  <2> QED
    BY <1>4, <1>5, <1>14, <1>16, <2>2, <2>3 DEF ClientInv
<1> QED
  BY <1>19, <1>20

\* Whatever the owner calls, from outside or from inside a delivery.
LEMMA OwnerKeeps ==
  ASSUME ClientInv, NEW q, NEW heard, QueueOK(q, state, heard), OwnerCall(q)
  PROVE  ClientInv' /\ QueueOK(queue', state', heard)
BY StartKeeps, StopKeeps, SubscribeKeeps, OpenKeeps DEF OwnerCall

LEMMA CallsKeep ==
  ASSUME SocketInv, OwnerCalls
  PROVE  SocketInv'
<1>1. PICK q : q = queue
  OBVIOUS
<1>2. PICK heard : heard = seen
  OBVIOUS
<1>3. ClientInv /\ QueueOK(q, state, heard) /\ OwnerCall(q)
  BY <1>1, <1>2 DEF SocketInv, OwnerCalls
<1>4. ClientInv' /\ QueueOK(queue', state', heard)
  BY <1>3, OwnerKeeps
<1> QED
  BY <1>2, <1>4 DEF SocketInv, OwnerCalls

LEMMA DeliverKeeps ==
  ASSUME SocketInv, Deliver
  PROVE  SocketInv'
<1>1. ClientInv /\ QueueOK(queue, state, seen) /\ queue # <<>> /\ state \in States
  BY DEF SocketInv, Deliver, ClientInv, SocketRowsOK
<1>2. CASE Stale(queue[1])
  <2>1. /\ queue' = Tail(queue)
        /\ UNCHANGED <<state, session, socketStarts, link, conn, tainted, timer, buffer, registry,
                       pending, commands, wire, authed, mute, count, seen, socketFaults>>
    BY <1>2 DEF Deliver
  <2>2. queue[1].kind # "state" /\ seen \in [Kin -> States]
    BY <1>1, <1>2 DEF Stale, QueueOK
  <2>3. QueueOK(Tail(queue), state, seen)
    BY <1>1, <2>2, TailLeads
  <2>4. ClientInv'
    BY <1>1, <2>1 DEF Misled, ClientInv, SocketRowsOK, ControlOK, CommandsOK, MessagesOK, TradesOK, SubscribesOK
  <2>5. QueueOK(queue', state', seen')
    BY <2>1, <2>3
  <2> QED
    BY <1>1, <2>1, <2>4, <2>5 DEF SocketInv
<1>3. CASE ~Stale(queue[1])
  <2>1. PICK q : q = AfterOne(queue)
    OBVIOUS
  <2>2. PICK heard :
          heard = IF queue[1].kind = "state" THEN [seen EXCEPT ![queue[1].left[1]] = queue[1].to] ELSE seen
    OBVIOUS
  <2>3. /\ seen' = heard
        /\ \/ OwnerCall(q)
           \/ /\ queue' = q
              /\ UNCHANGED <<state, session, socketStarts, link, conn, tainted, timer, buffer,
                             registry, pending, commands, wire, authed, mute, count>>
    BY <1>3, <2>1, <2>2 DEF Deliver
  <2>5. QueueOK(q, state, heard)
    BY <1>1, <2>1, <2>2, AfterOneLeads
  <2>6. ClientInv' /\ QueueOK(queue', state', heard)
    <3>1. CASE OwnerCall(q)
      BY <1>1, <2>5, <3>1, OwnerKeeps
    <3>2. CASE /\ queue' = q
               /\ UNCHANGED <<state, session, socketStarts, link, conn, tainted, timer, buffer,
                              registry, pending, commands, wire, authed, mute, count>>
      <4>1. ClientInv'
        BY <1>1, <3>2 DEF Misled, ClientInv, SocketRowsOK, ControlOK, CommandsOK, MessagesOK, TradesOK, SubscribesOK
      <4> QED
        BY <2>5, <3>2, <4>1
    <3> QED
      BY <2>3, <3>1, <3>2
  <2> QED
    BY <2>3, <2>6 DEF SocketInv
<1> QED
  BY <1>2, <1>3

-----------------------------------------------------------------------------
(* The socket *)

\* Before an action that waits for the queue to be drained, or with no listener in between.
LEMMA QueueIs ==
  ASSUME SocketInv, NEW to \in States
  PROVE  /\ QueueOK(Queued(queue, to), to, seen)
         /\ QueueOK(Behind(Queued(queue, to), EventItem), to, seen)
         /\ QueueOK(Behind(queue, EventItem), state, seen)
<1>1. QueueOK(queue, state, seen) /\ state \in States /\ session \in Nat
  BY DEF SocketInv, ClientInv, SocketRowsOK
<1>2. QueueOK(Queued(queue, to), to, seen)
  BY <1>1, QueuedLeads
<1> QED
  BY <1>1, <1>2, EventLeads

LEMMA ConnectKeeps ==
  ASSUME SocketInv, Connect
  PROVE  SocketInv'
<1>1. SocketRowsOK /\ ControlOK /\ CommandsOK /\ MessagesOK
  BY DEF SocketInv, ClientInv
<1>2. /\ link = "down" /\ link' = "up" /\ conn' = count + 1 /\ count' = count + 1 /\ tainted' = FALSE
      /\ wire' = buffer \o <<Auth>> /\ buffer' = <<>> /\ authed' = FALSE /\ timer' = TRUE
      /\ state' = "authenticating" /\ queue' = Queued(queue, "authenticating")
      /\ pending' = Unsettled[1] /\ commands' = Carried(Unsettled[2], buffer)
      /\ UNCHANGED <<session, socketStarts, registry, seen>>
  BY DEF Connect
<1>3. buffer = <<>> /\ pending = None
  BY <1>1, <1>2 DEF MessagesOK, ControlOK
<1>4. pending' = None /\ commands' = commands
  BY <1>1, <1>2, <1>3, NothingCarried DEF Unsettled, Ended, CommandsOK
<1>5. CommandsOK'
  BY <1>1, <1>4 DEF Misled, CommandsOK
<1>6. SocketRowsOK'
  <2>1. conn' \in Nat /\ count' \in Nat
    BY <1>1, <1>2 DEF SocketRowsOK
  <2> QED
    BY <1>1, <1>2, <1>4, <2>1 DEF SocketRowsOK, States
<1>7. ControlOK'
  <2>1. conn' # None
    BY <1>1, <1>2 DEF SocketRowsOK, None
  <2>2. session' # None
    BY <1>1, <1>2 DEF ControlOK
  <2> QED
    BY <1>2, <1>4, <2>1, <2>2 DEF ControlOK
<1>8. wire' = <<Auth>>
  BY <1>2, <1>3
<1>9. /\ wire' \in Seq(Messages) /\ Len(wire') = 1 /\ DOMAIN wire' = {1} /\ wire'[1] = Auth
      /\ wire' # <<>> /\ buffer' \in Seq(Messages)
  <2> DEFINE m == Auth
  <2>1. m \in Messages
    BY MessagesAre
  <2> HIDE DEF m
  <2>2. /\ <<m>> \in Seq(Messages) /\ Len(<<m>>) = 1 /\ DOMAIN <<m>> = {1} /\ <<m>>[1] = m
        /\ <<m>> # <<>>
    BY <2>1
  <2>3. wire' = <<m>> /\ m = Auth
    BY <1>8 DEF m
  <2>4. buffer' \in Seq(Messages)
    BY <1>2, EmptySeq
  <2> QED
    BY <2>2, <2>3, <2>4
<1>10. MessagesOK'
  <2>1. conn' # None
    BY <1>1, <1>2 DEF SocketRowsOK, None
  <2> QED
    BY <1>2, <1>9, <2>1 DEF MessagesOK
<1>11. TradesOK'
  BY <1>2, <1>4, <1>9, MessagesAre DEF TradesOK
<1>12. SubscribesOK'
  BY <1>2, <1>9, MessagesAre DEF SubscribesOK, AsksFor
<1>13. QueueOK(queue', state', seen')
  BY <1>2, QueueIs DEF States
<1> QED
  BY <1>2, <1>5, <1>6, <1>7, <1>10, <1>11, <1>12, <1>13 DEF SocketInv, ClientInv

\* A transition with the connection gone.
LEMMA GoneTransition ==
  ASSUME SocketInv, Gone, NEW to, state' = to,
         queue' \in {Queued(queue, to), Behind(Queued(queue, to), EventItem)},
         pending' = None, commands' = Ended("unknown", None),
         (link' = "down" /\ to = "reconnecting") \/ (link' = "shut" /\ to \in Terminal),
         session # None,
         UNCHANGED <<session, socketStarts, registry, count, seen>>
  PROVE  SocketInv'
<1>1. SocketRowsOK /\ ControlOK /\ CommandsOK /\ ClientInv
  BY DEF SocketInv, ClientInv
<1>2. CommandsOK'
  BY <1>1, EndedOK DEF Ends
<1>3. to \in States
  BY DEF States
<1>4. SocketRowsOK'
  BY <1>1, <1>3 DEF SocketRowsOK, Gone, None
<1>5. ControlOK'
  BY <1>1 DEF ControlOK, Gone, Terminal
<1>6. QueueOK(queue', state', seen')
  BY <1>3, QueueIs
<1>7. ClientInv'
  BY <1>1, <1>2, <1>4, <1>5, GoneKeeps
<1> QED
  BY <1>6, <1>7 DEF SocketInv

LEMMA RefusedKeeps ==
  ASSUME SocketInv, Refused
  PROVE  SocketInv'
<1> DEFINE to == "disconnected_by_server"
<1>1. SocketRowsOK /\ ControlOK /\ MessagesOK
  BY DEF SocketInv, ClientInv
<1>2. /\ link = "down" /\ link' = "shut"
      /\ state' = to /\ queue' = Queued(queue, to)
      /\ pending' = None /\ commands' = Ended("unknown", None)
      /\ UNCHANGED <<session, socketStarts, conn, tainted, timer, buffer, registry, wire, authed, mute,
                     count, seen>>
  BY DEF Refused, Transition, Unsettled
<1>3. /\ conn = None /\ tainted = FALSE /\ timer = FALSE /\ buffer = <<>> /\ wire = <<>>
      /\ authed = FALSE /\ session # None
  BY <1>1, <1>2 DEF SocketRowsOK, ControlOK, MessagesOK
<1>4. Gone /\ to \in Terminal
  BY <1>2, <1>3 DEF Gone, Terminal
<1> HIDE DEF to
<1> QED
  BY <1>2, <1>3, <1>4, GoneTransition

LEMMA LosesIs ==
  ASSUME SocketInv, Loses, state' = "reconnecting", queue' = Queued(queue, "reconnecting"),
         pending' = None, commands' = Ended("unknown", None), session # None,
         UNCHANGED <<session, socketStarts, registry, count, seen>>
  PROVE  SocketInv'
<1>1. Gone
  BY DEF Loses, Gone, KeptBuffer
<1>2. PICK to : to = "reconnecting"
  OBVIOUS
<1>3. link' = "down"
  BY DEF Loses
<1> QED
  BY <1>1, <1>2, <1>3, GoneTransition

LEMMA LostKeeps ==
  ASSUME SocketInv, Lost
  PROVE  SocketInv'
<1>1. session # None
  BY DEF SocketInv, ClientInv, ControlOK, Lost
<1>2. /\ Loses /\ state' = "reconnecting" /\ queue' = Queued(queue, "reconnecting")
      /\ pending' = None /\ commands' = Ended("unknown", None)
      /\ UNCHANGED <<session, socketStarts, registry, count, seen>>
  BY DEF Lost, Transition, Unsettled
<1> QED
  BY <1>1, <1>2, LosesIs

LEMMA ClosesKeep ==
  ASSUME SocketInv
  PROVE  /\ ServerCloses => SocketInv'
         /\ \A to \in {"auth_failed", "token_expired"} : CredentialsEnd(to) => SocketInv'
<1>1. link \in {"up", "closing"} => session # None
  BY DEF SocketInv, ClientInv, ControlOK
<1>2. ASSUME ServerCloses PROVE SocketInv'
  <2>1. PICK to : to = "disconnected_by_server"
    OBVIOUS
  <2>2. /\ Shuts(to) /\ state' = to /\ queue' = Queued(queue, to)
        /\ pending' = None /\ commands' = Ended("unknown", None) /\ session # None
    BY <1>1, <1>2, <2>1 DEF ServerCloses, Transition, Unsettled
  <2>3. /\ Gone /\ link' = "shut" /\ to \in Terminal
        /\ UNCHANGED <<session, socketStarts, registry, count, seen>>
    BY <2>1, <2>2 DEF Shuts, Gone, Terminal
  <2> QED
    BY <2>2, <2>3, GoneTransition
<1>3. ASSUME NEW to \in {"auth_failed", "token_expired"}, CredentialsEnd(to) PROVE SocketInv'
  <2>1. /\ Shuts(to) /\ state' = to /\ queue' = Behind(Queued(queue, to), EventItem)
        /\ pending' = None /\ commands' = Ended("unknown", None) /\ session # None
    BY <1>1, <1>3 DEF CredentialsEnd, Unsettled
  <2>2. /\ Gone /\ link' = "shut" /\ to \in Terminal
        /\ UNCHANGED <<session, socketStarts, registry, count, seen>>
    BY <2>1 DEF Shuts, Gone, Terminal
  <2> QED
    BY <2>1, <2>2, GoneTransition
<1> QED
  BY <1>2, <1>3

\* The connection is there, but takes nothing more: dead, or being closed.
LEMMA ClosingKeeps ==
  ASSUME SocketInv, link \in {"up", "dead", "closing"}, link' \in {"dead", "closing"},
         timer' \in BOOLEAN, timer' => timer,
         \/ pending' = pending /\ commands' = commands /\ tainted' = FALSE /\ tainted = FALSE
         \/ /\ pending' = None /\ commands' = Ended("unknown", None)
            /\ tainted' = TRUE /\ link' = "closing",
         UNCHANGED <<state, session, socketStarts, conn, buffer, registry, queue, wire, authed, count,
                     seen>>
  PROVE  SocketInv'
<1>1. SocketRowsOK /\ ControlOK /\ CommandsOK /\ MessagesOK /\ TradesOK /\ SubscribesOK
  BY DEF SocketInv, ClientInv
<1>2. Ends
  <2>1. CASE pending' = pending /\ commands' = commands
    BY <1>1, <2>1 DEF Misled, CommandsOK, Ends
  <2>2. CASE pending' = None /\ commands' = Ended("unknown", None)
    BY <1>1, <2>2, EndedOK
  <2> QED
    BY <2>1, <2>2
<1>3. SocketRowsOK'
  BY <1>1 DEF SocketRowsOK
<1>4. ControlOK'
  BY <1>1 DEF ControlOK
<1>5. MessagesOK' /\ SubscribesOK'
  BY <1>1 DEF MessagesOK, SubscribesOK
<1>6. TradesOK'
  BY <1>1, <1>2 DEF Ends, TradesOK
<1> QED
  BY <1>2, <1>3, <1>4, <1>5, <1>6 DEF SocketInv, ClientInv, Ends

LEMMA DiesKeeps ==
  ASSUME SocketInv, Dies
  PROVE  SocketInv'
<1>1. tainted = FALSE /\ timer \in BOOLEAN
  BY DEF SocketInv, ClientInv, SocketRowsOK, ControlOK, Dies
<1> QED
  BY <1>1, ClosingKeeps DEF Dies

LEMMA AuthTimeoutKeeps ==
  ASSUME SocketInv, AuthTimeout
  PROVE  SocketInv'
<1>1. /\ timer /\ HungClosed /\ UNCHANGED <<session, socketStarts, registry, count, seen>>
      /\ IF link' = "down" THEN Transition(queue, "reconnecting")
         ELSE UNCHANGED <<state, queue, pending, commands>>
  BY DEF AuthTimeout
<1>2. session # None /\ link \in {"up", "dead", "closing"} /\ (link # "closing" => tainted = FALSE)
  BY <1>1 DEF SocketInv, ClientInv, SocketRowsOK, ControlOK
<1>3. CASE Loses
  <2>1. link' = "down"
    BY <1>3 DEF Loses
  <2>2. /\ state' = "reconnecting" /\ queue' = Queued(queue, "reconnecting")
        /\ pending' = None /\ commands' = Ended("unknown", None)
    BY <1>1, <2>1 DEF Transition, Unsettled
  <2> QED
    BY <1>1, <1>2, <1>3, <2>2, LosesIs
<1>4. CASE /\ link \in {"up", "dead"} /\ link' = "closing"
           /\ UNCHANGED <<conn, buffer, wire, authed, mute>>
  <2>1. tainted' = FALSE /\ tainted = FALSE /\ timer' = FALSE
    BY <1>1, <1>2, <1>4 DEF HungClosed
  <2>2. UNCHANGED <<state, queue, pending, commands>>
    BY <1>1, <1>4
  <2> QED
    BY <1>1, <1>2, <1>4, <2>1, <2>2, ClosingKeeps
<1> QED
  BY <1>1, <1>3, <1>4 DEF HungClosed, EngineCloses

LEMMA EndWithoutAnswerKeeps ==
  ASSUME SocketInv, EndWithoutAnswer
  PROVE  SocketInv'
<1>1. /\ pending # None /\ pending' = None /\ commands' = Ended("unknown", None)
      /\ UNCHANGED <<session, socketStarts, registry, count, seen>>
  BY DEF EndWithoutAnswer
<1>2. /\ session # None /\ link \in {"up", "dead", "closing"} /\ timer \in BOOLEAN
  BY <1>1 DEF SocketInv, ClientInv, SocketRowsOK, ControlOK
<1>3. CASE Loses /\ state' = "reconnecting" /\ queue' = Queued(queue, "reconnecting")
  BY <1>1, <1>2, <1>3, LosesIs
<1>4. CASE /\ link' = "closing" /\ tainted' = TRUE
           /\ UNCHANGED <<conn, timer, buffer, wire, authed, mute, state, queue>>
  BY <1>1, <1>2, <1>4, ClosingKeeps
<1>5. CASE /\ link = "closing" /\ tainted' = TRUE
           /\ UNCHANGED <<link, conn, timer, buffer, wire, authed, mute, state, queue>>
  BY <1>1, <1>2, <1>5, ClosingKeeps
<1> QED
  BY <1>2, <1>3, <1>4, <1>5 DEF EndWithoutAnswer

\* On a connection that is not authenticated nothing but the authentication went out.
LEMMA OnlyAuth ==
  ASSUME MessagesOK, ~authed, conn # None
  PROVE  /\ wire \in Seq(Messages) /\ wire # <<>> /\ Len(wire) = 1 /\ DOMAIN wire = {1}
         /\ wire[1] = Auth
<1>1. wire \in Seq(Messages) /\ wire # <<>> /\ Len(wire) <= 1 /\ wire[1] = Auth
  BY DEF MessagesOK
<1>2. Len(wire) \in Nat \ {0} /\ DOMAIN wire = 1..Len(wire)
  BY <1>1, EmptySeq, LenProperties
<1> QED
  BY <1>1, <1>2

LEMMA FirstSuccessKeeps ==
  ASSUME SocketInv, AuthSuccess, state = "authenticating"
  PROVE  SocketInv'
<1>1. SocketRowsOK /\ ControlOK /\ CommandsOK /\ MessagesOK /\ TradesOK /\ SubscribesOK
  BY DEF SocketInv, ClientInv
<1>2. /\ link \in {"up", "closing"} /\ authed' = TRUE /\ timer' = FALSE /\ Out(Pass)
      /\ state' = "ready" /\ queue' = Behind(Queued(queue, "ready"), EventItem)
      /\ pending' = Unsettled[1] /\ commands' = Unsettled[2]
      /\ UNCHANGED <<session, socketStarts, link, conn, tainted, registry, mute, count, seen>>
  BY DEF AuthSuccess, Disarmed
<1>3. pending = None /\ ~authed /\ conn # None
  BY <1>1, <1>2 DEF ControlOK
<1>4. pending' = None /\ commands' = commands
  BY <1>2, <1>3 DEF Unsettled, Ended
<1>5. SocketRowsOK'
  BY <1>1, <1>2, <1>4 DEF SocketRowsOK, States
<1>6. ControlOK'
  BY <1>1, <1>2, <1>4 DEF ControlOK
<1>7. CommandsOK'
  BY <1>1, <1>4 DEF Misled, CommandsOK
<1>8. /\ wire \in Seq(Messages) /\ wire # <<>> /\ Len(wire) = 1 /\ DOMAIN wire = {1}
      /\ wire[1] = Auth
  BY <1>1, <1>3, OnlyAuth
<1>9. \A a \in Assets : \A i \in DOMAIN wire : ~AsksFor(wire[i], a)
  BY <1>8, MessagesAre DEF AsksFor
<1>10. MessagesOK' /\ TradesOK' /\ SubscribesOK'
  <2>1. CASE registry = {}
    <3>1. wire' = wire /\ buffer' = buffer
      <4>1. Pass = <<>>
        BY <2>1 DEF Pass
      <4>2. wire \o <<>> = wire
        BY <1>8
      <4> QED
        BY <1>2, <4>1, <4>2 DEF Out
    <3>2. MessagesOK'
      BY <1>1, <1>2, <3>1 DEF MessagesOK
    <3>3. TradesOK'
      BY <1>1, <1>2, <1>3, <1>4, <3>1 DEF Misled, TradesOK
    <3>4. SubscribesOK'
      BY <1>2, <1>9, <2>1, <3>1 DEF SubscribesOK
    <3> QED
      BY <3>2, <3>3, <3>4
  <2>2. CASE registry # {}
    <3> DEFINE m == Subscribe(registry)
    <3>1. m \in Messages /\ m.what = "subscribe" /\ m.ids = registry /\ m # Auth
      BY <1>1, MessagesAre DEF SocketRowsOK
    <3>2. Out(<<m>>)
      BY <1>2, <2>2 DEF Pass
    <3> HIDE DEF m
    <3>3. MessagesOK' /\ (link = "up" => wire' = Append(wire, m)) /\ (link # "up" => wire' = wire)
      BY <1>1, <1>2, <3>1, <3>2, OutIs
    <3>4. CASE link = "up"
      <4>1. TradesOK'
        BY <1>1, <1>2, <1>3, <1>4, <1>8, <3>1, <3>3, <3>4, TradesKept DEF Misled
      <4>2. DOMAIN wire' = {1, 2} /\ wire'[2] = m /\ wire'[1] = wire[1]
        BY <1>8, <3>1, <3>3, <3>4, WireGrows
      <4>3. \A a \in Assets : \A i \in DOMAIN wire' : AsksFor(wire'[i], a) => i = 2 /\ a \in registry
        BY <1>8, <1>9, <3>1, <4>2 DEF AsksFor
      <4>4. \A a \in registry : AsksFor(wire'[2], a)
        BY <3>1, <4>2 DEF AsksFor
      <4>5. SubscribesOK'
        BY <1>2, <4>2, <4>3, <4>4 DEF SubscribesOK
      <4> QED
        BY <3>3, <4>1, <4>5
    <3>5. CASE link # "up"
      <4>1. TradesOK'
        BY <1>1, <1>2, <1>3, <1>4, <3>3, <3>5 DEF Misled, TradesOK
      <4>2. SubscribesOK'
        BY <1>2, <1>9, <3>3, <3>5 DEF SubscribesOK
      <4> QED
        BY <3>3, <4>1, <4>2
    <3> QED
      BY <3>4, <3>5
  <2> QED
    BY <2>1, <2>2
<1>11. QueueOK(queue', state', seen')
  BY <1>2, QueueIs DEF States
<1> QED
  BY <1>2, <1>5, <1>6, <1>7, <1>10, <1>11 DEF SocketInv, ClientInv

\* An event that changes nothing but the queue.
LEMMA EventItemKeeps ==
  ASSUME SocketInv, queue' = Behind(queue, EventItem),
         UNCHANGED <<state, session, socketStarts, link, conn, tainted, timer, buffer, registry,
                     pending, commands, wire, authed, count, seen>>
  PROVE  SocketInv'
<1>1. state \in States
  BY DEF SocketInv, ClientInv, SocketRowsOK
<1>2. QueueOK(queue', state', seen')
  BY <1>1, QueueIs
<1>3. ClientInv'
  BY DEF Misled, SocketInv, ClientInv, SocketRowsOK, ControlOK, CommandsOK, MessagesOK, TradesOK, SubscribesOK
<1> QED
  BY <1>2, <1>3 DEF SocketInv

LEMMA AuthSuccessKeeps ==
  ASSUME SocketInv, AuthSuccess
  PROVE  SocketInv'
<1>1. CASE state = "authenticating"
  BY <1>1, FirstSuccessKeeps
<1>2. CASE state # "authenticating"
  <2>1. authed = TRUE
    BY <1>2 DEF SocketInv, ClientInv, SocketRowsOK, ControlOK, AuthSuccess
  <2>2. /\ queue' = Behind(queue, EventItem)
        /\ UNCHANGED <<state, session, socketStarts, link, conn, tainted, timer, buffer, registry,
                       pending, commands, wire, authed, count, seen>>
    BY <1>2, <2>1 DEF AuthSuccess
  <2> QED
    BY <2>2, EventItemKeeps
<1> QED
  BY <1>1, <1>2

\* An answer ends the command in flight when it fits.
LEMMA AnswerEnds ==
  ASSUME SocketRowsOK, CommandsOK, NEW kind \in {"success", "fail"}, NEW t \in Terms, NEW by \in Nat,
         pending # None => by \in {pending, None} \/ (by \in Commands /\ Misled(by)),
         AnswerCommand(kind, t, by)
  PROVE  /\ Ends
         /\ \/ pending' = pending
            \/ /\ pending' = None /\ pending # None
               /\ by = pending \/ \A c \in Commands : c = pending => Misled(c)'
<1>1. CASE /\ pending # None
           /\ IF kind = "success" THEN Fits(t) ELSE Mode(t) = Mode(commands[pending].terms)
  <2>1. /\ pending' = None /\ commands' = [Ended(kind, by) EXCEPT ![pending].said = t]
        /\ kind = "success" => t = commands[pending].terms
        /\ kind = "fail" => Mode(t) = Mode(commands[pending].terms)
    BY <1>1 DEF AnswerCommand, Fits
  <2>2. /\ pending \in Commands /\ commands \in [Commands -> CommandRows]
        /\ commands[pending] \in CommandRows
    BY <1>1 DEF SocketRowsOK, CommandsOK
  <2> DEFINE half == [commands[pending] EXCEPT !.status = kind, !.by = by]
             new == [commands[pending] EXCEPT !.status = kind, !.by = by, !.said = t]
  <2>3. [half EXCEPT !.said = t] = new /\ half \in CommandRows
    BY <2>2 DEF CommandRows
  <2>4. Ended(kind, by) = [commands EXCEPT ![pending] = half]
    BY <1>1 DEF Ended
  <2> HIDE DEF half
  <2>5. commands' = [commands EXCEPT ![pending] = [half EXCEPT !.said = t]]
    BY <2>1, <2>2, <2>3, <2>4
  <2>6. commands' = [commands EXCEPT ![pending] = new]
    BY <2>3, <2>5
  <2>7. kind \in {"success", "fail", "unknown"} /\ kind # "unknown"
    OBVIOUS
  <2>8. kind # "unknown" => by \in {pending, None} \/ (by \in Commands /\ Misled(by))
    BY <1>1
  <2>9. PICK ended : ended = new
    OBVIOUS
  <2> HIDE DEF new
  <2>10. ended = [commands[pending] EXCEPT !.status = kind, !.by = by, !.said = t]
    BY <2>9 DEF new
  <2>11. commands' = [commands EXCEPT ![pending] = ended]
    BY <2>6, <2>9
  <2>12. Ends /\ (kind # "unknown" /\ by # pending => \A c \in Commands : c = pending => Misled(c)')
    BY <1>1, <2>1, <2>7, <2>8, <2>10, <2>11, EndsOK
  <2> QED
    BY <1>1, <2>1, <2>7, <2>12
<1>2. CASE ~(/\ pending # None
             /\ IF kind = "success" THEN Fits(t) ELSE Mode(t) = Mode(commands[pending].terms))
  <2>1. pending' = pending /\ commands' = commands
    BY <1>2 DEF AnswerCommand
  <2> QED
    BY <2>1 DEF Ends, CommandsOK, Misled
<1> QED
  BY <1>1, <1>2

LEMMA ElsewhereKeeps ==
  ASSUME SocketInv, Elsewhere
  PROVE  SocketInv'
<1>1. SocketRowsOK /\ ControlOK /\ CommandsOK /\ MessagesOK /\ TradesOK /\ SubscribesOK
  BY DEF SocketInv, ClientInv
<1>2. PICK kind \in {"success", "fail"}, t \in Terms : AnswerCommand(kind, t, None)
  BY DEF Elsewhere
<1>3. /\ queue' = Behind(queue, EventItem) /\ wire' = wire
      /\ UNCHANGED <<state, session, socketStarts, link, conn, tainted, timer, buffer, registry, authed,
                     mute, count, seen>>
  BY <1>2 DEF AnswerCommand, Elsewhere
<1>4. None \in Nat
  BY DEF None
<1>5. /\ Ends
      /\ \/ pending' = pending
         \/ /\ pending' = None /\ pending # None
            /\ None = pending \/ \A c \in Commands : c = pending => Misled(c)'
  BY <1>1, <1>2, <1>4, AnswerEnds
<1>6. CommandsOK' /\ SocketRowsOK' /\ ControlOK' /\ MessagesOK' /\ SubscribesOK'
  BY <1>1, <1>3, <1>5 DEF Ends, SocketRowsOK, ControlOK, MessagesOK, SubscribesOK
<1>7. TradesOK'
  BY <1>1, <1>3, <1>5 DEF Ends, TradesOK
<1>8. QueueOK(queue', state', seen')
  BY <1>1, <1>3, QueueIs DEF SocketRowsOK
<1> QED
  BY <1>6, <1>7, <1>8 DEF SocketInv, ClientInv

LEMMA AnswerKeeps ==
  ASSUME SocketInv, NEW c \in Commands, Answer(c)
  PROVE  SocketInv'
<1>1. SocketRowsOK /\ ControlOK /\ CommandsOK /\ MessagesOK /\ TradesOK /\ SubscribesOK
  BY DEF SocketInv, ClientInv
<1>2. PICK kind \in {"success", "fail"} : AnswerCommand(kind, commands[c].terms, c)
  BY DEF Answer
<1>3. /\ link \in {"up", "closing"} /\ authed /\ TradesOf(wire, c) > 0 /\ Reply(c) \notin Range(wire)
      /\ wire' = Append(wire, Reply(c))
      /\ queue' = Behind(queue, EventItem)
      /\ UNCHANGED <<state, session, socketStarts, link, conn, tainted, timer, buffer, registry, authed,
                     mute, count, seen>>
  BY <1>2 DEF Answer, AnswerCommand
<1>4. wire \in Seq(Messages) /\ wire # <<>>
  BY <1>1, <1>3 DEF MessagesOK, ControlOK
<1>5. pending # None => pending = c \/ Misled(c)
  <2>1. TradesOf(wire, c) = 1
    <3>1. TradesOf(wire, c) \in {0, 1}
      BY <1>1, <1>4, TradesOfIs DEF TradesOK
    <3> QED
      BY <1>3, <3>1
  <2>2. PICK i \in DOMAIN wire : wire[i] = Trade(c)
    BY <1>1, <1>4, <2>1, TradesOfIs DEF TradesOK
  <2>3. ~\E j \in DOMAIN wire : wire[j] = Reply(c)
    BY <1>3 DEF Range
  <2> QED
    BY <1>1, <2>2, <2>3 DEF TradesOK, ControlOK
<1> DEFINE m == Reply(c)
<1>6. m \in Messages /\ m.what = "reply" /\ m # Auth
  BY MessagesAre
<1> HIDE DEF m
<1>7. wire' = Append(wire, m)
  BY <1>3 DEF m
<1>8. c \in Nat /\ c # None
  BY SocketAssumption DEF None
<1>9. /\ Ends
      /\ \/ pending' = pending
         \/ /\ pending' = None /\ pending # None
            /\ m = Reply(pending) \/ \A d \in Commands : d = pending => Misled(d)'
  <2>1. commands[c].terms \in Terms
    BY <1>1 DEF CommandsOK, CommandRows
  <2> QED
    BY <1>1, <1>2, <1>5, <1>8, <2>1, AnswerEnds DEF m
<1>10. SocketRowsOK'
  BY <1>1, <1>3, <1>9 DEF SocketRowsOK
<1>11. ControlOK'
  BY <1>1, <1>3, <1>9 DEF ControlOK
<1>12. MessagesOK'
  BY <1>1, <1>3, <1>4, <1>6, <1>7, MessagesGrow
<1>13. TradesOK'
  BY <1>1, <1>3, <1>4, <1>6, <1>7, <1>9, TradesKept DEF Ends
<1>14. SubscribesOK'
  BY <1>1, <1>3, <1>4, <1>6, <1>7, SubscribesKept
<1>15. QueueOK(queue', state', seen')
  BY <1>1, <1>3, QueueIs DEF SocketRowsOK
<1> QED
  BY <1>3, <1>9, <1>10, <1>11, <1>12, <1>13, <1>14, <1>15 DEF SocketInv, ClientInv, Ends

-----------------------------------------------------------------------------
(* The invariant *)

LEMMA SocketInitInv == SocketInit => SocketInv
<1> SUFFICES ASSUME SocketInit PROVE SocketInv
  OBVIOUS
<1>1. SocketRowsOK
  BY DEF SocketInit, SocketRowsOK, States, None
<1>2. ControlOK
  BY DEF SocketInit, ControlOK, Terminal, None
<1>3. CommandsOK
  <2>1. commands \in [Commands -> CommandRows] /\ \A c \in Commands : commands[c] = New
    BY NewIs DEF SocketInit
  <2>2. New.status = "none" /\ New.sent = 0
    BY DEF New
  <2> QED
    BY <2>1, <2>2 DEF CommandsOK, SocketInit, Misled
<1>4. wire = <<>> /\ buffer = <<>> /\ DOMAIN wire = {} /\ Len(wire) = 0 /\ wire \in Seq(Messages)
  BY EmptySeq DEF SocketInit
<1>5. MessagesOK
  BY <1>4 DEF SocketInit, MessagesOK
<1>6. TradesOK /\ SubscribesOK
  BY <1>4 DEF SocketInit, TradesOK, SubscribesOK
<1>7. QueueOK(queue, state, seen)
  <2>1. queue = <<>> /\ Len(queue) = 0 /\ queue \in Seq(Items) /\ state = "idle"
    BY EmptySeq DEF SocketInit
  <2>2. seen \in [Kin -> States] /\ seen["owner"] = "idle" /\ seen["recorder"] = "idle"
    BY ListenersAre DEF SocketInit, Kin, States
  <2> DEFINE path == [i \in 0..0 |-> "idle"]
  <2>3. path \in [0..0 -> States] /\ path[0] = "idle"
    BY DEF States
  <2> HIDE DEF path
  <2>4. Follows(queue, path)
    BY <2>1, <2>3 DEF Follows
  <2>5. LeadsTo(queue, state, seen)
    BY <2>1, <2>2, <2>3, <2>4 DEF LeadsTo
  <2> QED
    BY <2>1, <2>2, <2>5 DEF QueueOK
<1> QED
  BY <1>1, <1>2, <1>3, <1>5, <1>6, <1>7 DEF SocketInv, ClientInv, SocketInit

LEMMA SocketNextInv == SocketInv /\ [SocketNext]_socketVars => SocketInv'
<1> SUFFICES ASSUME SocketInv, [SocketNext]_socketVars PROVE SocketInv'
  OBVIOUS
<1>1. CASE OwnerCalls
  BY <1>1, CallsKeep
<1>2. CASE Deliver
  BY <1>2, DeliverKeeps
<1>3. CASE Connect
  BY <1>3, ConnectKeeps
<1>4. CASE Refused
  BY <1>4, RefusedKeeps
<1>5. CASE Lost
  BY <1>5, LostKeeps
<1>6. CASE Dies
  BY <1>6, DiesKeeps
<1>7. CASE ServerCloses
  BY <1>7, ClosesKeep
<1>8. CASE \E to \in {"auth_failed", "token_expired"} : CredentialsEnd(to)
  BY <1>8, ClosesKeep
<1>9. CASE AuthSuccess
  BY <1>9, AuthSuccessKeeps
<1>10. CASE AuthTimeout
  BY <1>10, AuthTimeoutKeeps
<1>11. CASE \E c \in Commands : Answer(c)
  BY <1>11, AnswerKeeps
<1>12. CASE Elsewhere
  BY <1>12, ElsewhereKeeps
<1>13. CASE EndWithoutAnswer
  BY <1>13, EndWithoutAnswerKeeps
<1>14. CASE UNCHANGED socketVars
  BY <1>14 DEF socketVars, Misled, SocketInv, ClientInv, SocketRowsOK, ControlOK, CommandsOK, MessagesOK,
               TradesOK, SubscribesOK
<1> QED
  BY <1>1, <1>2, <1>3, <1>4, <1>5, <1>6, <1>7, <1>8, <1>9, <1>10, <1>11, <1>12, <1>13, <1>14
     DEF SocketNext

LEMMA QueueIsCausal == SocketInv => CausalOrder
<1> SUFFICES ASSUME SocketInv PROVE CausalOrder
  OBVIOUS
<1>1. PICK path \in [0..Len(queue) -> States] :
        /\ Follows(queue, path) /\ path[Len(queue)] = state /\ seen["recorder"] = path[0]
        /\ seen["owner"] = IF queue # <<>> /\ queue[1].left # Listeners THEN path[1] ELSE path[0]
  BY DEF SocketInv, QueueOK, LeadsTo
<1>2. queue \in Seq(Items) /\ DOMAIN seen = Kin
  BY DEF SocketInv, QueueOK
<1>3. CASE queue = <<>>
  <2>1. Len(queue) = 0
    BY <1>3, EmptySeq
  <2>2. seen["recorder"] = state /\ seen["owner"] = state
    BY <1>1, <1>3, <2>1
  <2> QED
    BY <1>2, <1>3, <2>2 DEF CausalOrder, Kin
<1>4. CASE queue # <<>> /\ queue[1].kind = "state"
  <2>1. 1 \in 1..Len(queue)
    BY <1>2, <1>4, EmptySeq
  <2>2. queue[1].from = path[0]
    BY <1>1, <1>4, <2>1 DEF Follows
  <2>3. queue[1].left \in {Listeners, <<"recorder">>}
    <3>1. queue[1] \in Items
      BY <1>2, <2>1, ElementOfSeq
    <3> QED
      BY <3>1 DEF Items
  <2>4. seen[queue[1].left[1]] = path[0]
    BY <1>1, <2>3, ListenersAre
  <2> QED
    BY <1>4, <2>2, <2>4 DEF CausalOrder
<1> QED
  BY <1>3, <1>4 DEF CausalOrder

LEMMA WireIsSafe == ClientInv => SentOnce /\ WaitsOnItsConnection /\ OncePerConnection /\ AllSubscribed
<1> SUFFICES ASSUME ClientInv
             PROVE  SentOnce /\ WaitsOnItsConnection /\ OncePerConnection /\ AllSubscribed
  OBVIOUS
<1>1. SocketRowsOK /\ ControlOK /\ CommandsOK /\ MessagesOK /\ TradesOK /\ SubscribesOK
  BY DEF ClientInv
<1>2. wire \in Seq(Messages) /\ DOMAIN wire = 1..Len(wire) /\ Len(wire) \in Nat
  BY <1>1, LenProperties DEF MessagesOK
<1>3. \A i \in DOMAIN wire : wire[1] = Auth /\ 1 \in DOMAIN wire /\ i >= 1
  <2>1. ASSUME NEW i \in DOMAIN wire PROVE wire[1] = Auth /\ 1 \in DOMAIN wire /\ i >= 1
    <3>1. wire # <<>>
      BY <1>2, <2>1, EmptySeq
    <3> QED
      BY <1>1, <1>2, <2>1, <3>1 DEF MessagesOK
  <2> QED
    BY <2>1
<1>4. \A c \in Commands : TradesOf(wire, c) \in {0, 1}
        /\ (TradesOf(wire, c) = 1 <=> \E i \in DOMAIN wire : wire[i] = Trade(c))
  BY <1>1, <1>2, TradesOfIs DEF TradesOK
<1>5. SentOnce
  <2>1. ASSUME NEW c \in Commands, TradesOf(wire, c) > 0
        PROVE  \E i \in DOMAIN wire : wire[i] = Auth /\ \A j \in DOMAIN wire : wire[j] = Trade(c) => i < j
    <3>1. TradesOf(wire, c) = 1
      BY <1>4, <2>1
    <3>2. PICK k \in DOMAIN wire : wire[k] = Trade(c)
      BY <1>4, <3>1
    <3>3. wire[1] = Auth /\ 1 \in DOMAIN wire
      BY <1>3, <3>2
    <3>4. \A j \in DOMAIN wire : wire[j] = Trade(c) => 1 < j
      <4>1. ASSUME NEW j \in DOMAIN wire, wire[j] = Trade(c) PROVE 1 < j
        <5>1. j # 1
          BY <3>3, <4>1, MessagesAre
        <5> QED
          BY <1>2, <4>1, <5>1
      <4> QED
        BY <4>1
    <3> QED
      BY <3>3, <3>4
  <2> QED
    BY <1>1, <2>1 DEF SentOnce, CommandsOK
<1>6. WaitsOnItsConnection
  <2>1. pending # None => pending \in Commands
    BY <1>1 DEF SocketRowsOK
  <2> QED
    BY <1>1, <1>4, <2>1 DEF WaitsOnItsConnection, ControlOK, TradesOK
<1>7. \A a \in Assets : Asked(a) = {i \in DOMAIN wire : AsksFor(wire[i], a)}
  BY DEF Asked, AsksFor
<1>8. OncePerConnection
  <2>1. wire # <<>> => wire[1] = Auth /\ \A i \in 2..Len(wire) : wire[i] # Auth
    BY <1>1, <1>2 DEF MessagesOK
  <2>2. ASSUME NEW a \in Assets PROVE Cardinality(Asked(a)) <= 1
    <3>1. CASE Asked(a) = {}
      BY <3>1, FS_EmptySet
    <3>2. CASE Asked(a) # {}
      <4>1. PICK i \in Asked(a) : TRUE
        BY <3>2
      <4>2. Asked(a) = {i}
        BY <1>1, <1>7, <4>1 DEF SubscribesOK
      <4>3. Cardinality({i}) = 1
        BY FS_Singleton
      <4> QED
        BY <4>2, <4>3
    <3> QED
      BY <3>1, <3>2
  <2>3. ASSUME NEW a \in Assets, Asked(a) # {} PROVE authed
    <3>1. PICK i \in DOMAIN wire : AsksFor(wire[i], a)
      BY <1>7, <2>3
    <3>2. i # 1
      BY <1>3, <3>1, MessagesAre DEF AsksFor
    <3>3. Len(wire) > 1
      BY <1>2, <3>1, <3>2
    <3> QED
      BY <1>1, <1>2, <3>3 DEF MessagesOK
  <2> QED
    BY <2>1, <2>2, <2>3 DEF OncePerConnection
<1>9. AllSubscribed
  <2>1. ASSUME state = "ready", link = "up", NEW a \in registry PROVE Asked(a) # {}
    <3>1. a \in Assets
      BY <1>1 DEF SocketRowsOK
    <3>2. \E i \in DOMAIN wire : AsksFor(wire[i], a)
      BY <1>1, <2>1 DEF SubscribesOK
    <3> QED
      BY <1>7, <3>1, <3>2
  <2> QED
    BY <2>1 DEF AllSubscribed
<1> QED
  BY <1>5, <1>6, <1>8, <1>9

LEMMA SocketInvIsSafe == SocketInv => SocketSafe
<1> SUFFICES ASSUME SocketInv PROVE SocketSafe
  OBVIOUS
<1>1. ClientInv /\ SocketRowsOK /\ ControlOK /\ CommandsOK
  BY DEF SocketInv, ClientInv
<1>2. SocketTypeOK
  BY <1>1 DEF SocketTypeOK, SocketRowsOK, ControlOK, CommandsOK, States, Terminal
<1>3. OwnAnswer
  BY <1>1 DEF Misled, OwnAnswer, CommandsOK
<1> QED
  BY <1>1, <1>2, <1>3, WireIsSafe, QueueIsCausal DEF SocketSafe

\* However connections drop, answers come late, listeners call the client from inside a delivery and
\* the session is stopped and started again, for any assets and commands: a command reaches the
\* broker once at most and waits on its own connection; what ends it fits its terms and is its own
\* answer, unless an event of another client of the account passed for one; each asset is
\* subscribed once per connection; every listener hears the changes in order (socket.ts).
THEOREM SocketStaysSafe == SocketSpec => []SocketSafe
<1> QED
  BY SocketInitInv, SocketNextInv, SocketInvIsSafe, PTL DEF SocketSpec

-----------------------------------------------------------------------------
(* The feed of the market data *)

FeedSlots ==
  {Empty}
  \cup [kind : {"starting"}, acct : ServiceAccounts, age : 0..Oldest]
  \cup [kind : {"running"}, acct : ServiceAccounts, ready : BOOLEAN, subscribed : BOOLEAN, age : 0..Oldest]
FeedRows ==
  [slot : [Roles -> FeedSlots], held : [ServiceAccounts -> 0..Retry], recent : SUBSET ServiceAccounts,
   order : SUBSET ServiceAccounts, fresh : BOOLEAN, alarm : NoAlarm..ReserveReady, dropped : BOOLEAN]
FeedJobs == [role : Roles, acct : ServiceAccounts, late : BOOLEAN]
Worlds == [m : FeedRows, jobs : SUBSET FeedJobs, opened : [ServiceAccounts -> Nat]]
FeedTicks == [at : {"none", "wait"}] \cup [at : {"read"}, list : SUBSET ServiceAccounts]

\* A start is one job; a running client is one of its account's; no account has two slots.
WorldOK(w) ==
  /\ w \in Worlds
  /\ \A j \in w.jobs :
       ~j.late => w.m.slot[j.role].kind = "starting" /\ w.m.slot[j.role].acct = j.acct
  /\ \A r \in Roles :
       w.m.slot[r].kind = "starting" => [role |-> r, acct |-> w.m.slot[r].acct, late |-> FALSE] \in w.jobs
  /\ \A a \in ServiceAccounts :
       w.opened[a] = IF \E r \in Roles : w.m.slot[r].kind = "running" /\ w.m.slot[r].acct = a THEN 1 ELSE 0
  /\ \A r \in Roles :
       Held(w.m.slot[r]) /\ Held(w.m.slot[Other(r)]) => w.m.slot[r].acct # w.m.slot[Other(r)].acct

\* On the way through a handler the mark is there as soon as the feeding client is not.
MarkOK(w) ==
  /\ feed.dropped => w.m.dropped
  /\ \/ w.m.dropped
     \/ IsReady(w.m.slot["active"]) /\ Streaming /\ w.m.slot["active"].acct = feed.slot["active"].acct

\* A ready reserve waits for an active within its grace.
WaitOK(w) ==
  LET active == w.m.slot["active"]
  IN IsReady(w.m.slot["reserve"]) => Held(active) /\ (IsReady(active) \/ active.age < FailoverGrace)

Limit(r) == IF r = "active" THEN FailoverGrace ELSE ReserveReady

\* The timer is set for every deadline to come.
AlarmOK(w) ==
  \A r \in Roles :
    Unready(w.m.slot[r]) /\ w.m.slot[r].age < Limit(r) =>
      w.m.alarm # NoAlarm /\ w.m.alarm <= Limit(r) - w.m.slot[r].age

FeedInv ==
  /\ WorldOK(World) /\ AlarmOK(World) /\ FailoverInTime
  /\ listed \in SUBSET ServiceAccounts /\ feedTick \in FeedTicks
  /\ catalog \in BOOLEAN /\ missed \in BOOLEAN
  /\ missed \/ ~Streaming => feed.dropped

-----------------------------------------------------------------------------
LEMMA FeedNumbers ==
  /\ ServiceAccounts \subseteq Nat /\ FailoverGrace \in Nat /\ ReserveReady \in Nat /\ Retry \in Nat
  /\ FailoverGrace > 0 /\ ReserveReady > FailoverGrace /\ Retry > ReserveReady
  /\ Oldest = ReserveReady /\ NoAlarm = -1
  /\ \A r \in Roles : Limit(r) \in Nat /\ Limit(r) > 0 /\ Limit(r) <= ReserveReady
BY DataSocketAssumption DEF Oldest, NoAlarm, Limit, Roles

LEMMA RolesAre ==
  /\ Roles = {"active", "reserve"} /\ Other("active") = "reserve" /\ Other("reserve") = "active"
  /\ \A r \in Roles : Other(r) \in Roles /\ Other(r) # r /\ Other(Other(r)) = r
  /\ \A r \in Roles, q \in Roles : q = r \/ q = Other(r)
BY DEF Roles, Other

\* What the fields of a slot are.
LEMMA SlotIs ==
  ASSUME NEW s \in FeedSlots
  PROVE  /\ s.kind \in {"empty", "starting", "running"}
         /\ Held(s) <=> s.kind # "empty"
         /\ s.kind = "empty" => s = Empty
         /\ s.kind # "empty" => s.acct \in ServiceAccounts /\ s.age \in 0..Oldest
         /\ s.kind = "running" => s.ready \in BOOLEAN /\ s.subscribed \in BOOLEAN
         /\ s.kind = "running" => \A b \in BOOLEAN, c \in BOOLEAN, o \in 0..Oldest :
              /\ [s EXCEPT !.ready = b] \in FeedSlots /\ [s EXCEPT !.subscribed = c] \in FeedSlots
              /\ [s EXCEPT !.ready = b, !.age = o] \in FeedSlots
         /\ s.kind # "empty" => \A o \in 0..Oldest : [s EXCEPT !.age = o] \in FeedSlots
<1>1. CASE s = Empty
  BY <1>1 DEF Empty, Held
<1>2. CASE s \in [kind : {"starting"}, acct : ServiceAccounts, age : 0..Oldest]
  <2>1. s.kind = "starting" /\ s.acct \in ServiceAccounts /\ s.age \in 0..Oldest
    BY <1>2
  <2>2. \A o \in 0..Oldest : [s EXCEPT !.age = o] \in FeedSlots
    BY <1>2 DEF FeedSlots
  <2> QED
    BY <2>1, <2>2 DEF Held
<1>3. CASE s \in [kind : {"running"}, acct : ServiceAccounts, ready : BOOLEAN, subscribed : BOOLEAN,
                  age : 0..Oldest]
  <2>1. /\ s.kind = "running" /\ s.acct \in ServiceAccounts /\ s.age \in 0..Oldest
        /\ s.ready \in BOOLEAN /\ s.subscribed \in BOOLEAN
    BY <1>3
  <2>2. \A o \in 0..Oldest : [s EXCEPT !.age = o] \in FeedSlots
    BY <1>3 DEF FeedSlots
  <2>3. \A b \in BOOLEAN : [s EXCEPT !.ready = b] \in FeedSlots
    BY <1>3 DEF FeedSlots
  <2>4. \A b \in BOOLEAN : [s EXCEPT !.subscribed = b] \in FeedSlots
    BY <1>3 DEF FeedSlots
  <2>5. \A b \in BOOLEAN, o \in 0..Oldest : [s EXCEPT !.ready = b, !.age = o] \in FeedSlots
    BY <1>3 DEF FeedSlots
  <2> QED
    BY <2>1, <2>2, <2>3, <2>4, <2>5 DEF Held
<1> QED
  BY <1>1, <1>2, <1>3 DEF FeedSlots

LEMMA WorldIs ==
  ASSUME NEW w \in Worlds
  PROVE  /\ w.m \in FeedRows /\ w.jobs \subseteq FeedJobs /\ w.opened \in [ServiceAccounts -> Nat]
         /\ w.m.slot \in [Roles -> FeedSlots] /\ w.m.held \in [ServiceAccounts -> 0..Retry]
         /\ w.m.recent \subseteq ServiceAccounts /\ w.m.order \subseteq ServiceAccounts
         /\ w.m.fresh \in BOOLEAN /\ w.m.alarm \in NoAlarm..ReserveReady /\ w.m.dropped \in BOOLEAN
         /\ \A r \in Roles : w.m.slot[r] \in FeedSlots
<1>1. w.m \in FeedRows /\ w.jobs \subseteq FeedJobs /\ w.opened \in [ServiceAccounts -> Nat]
  BY DEF Worlds
<1>2. /\ w.m.slot \in [Roles -> FeedSlots] /\ w.m.held \in [ServiceAccounts -> 0..Retry]
      /\ w.m.recent \subseteq ServiceAccounts /\ w.m.order \subseteq ServiceAccounts
      /\ w.m.fresh \in BOOLEAN /\ w.m.alarm \in NoAlarm..ReserveReady /\ w.m.dropped \in BOOLEAN
  BY <1>1 DEF FeedRows
<1> QED
  BY <1>1, <1>2

-----------------------------------------------------------------------------
(* What each move of a handler leaves *)

\* A slot given up: its start's answer will be late, its client is stopped.
Vacates(w, role, v) ==
  /\ WorldOK(v)
  /\ v.m.slot[role] = Empty /\ v.m.slot[Other(role)] = w.m.slot[Other(role)]
  /\ v.m.order = w.m.order /\ v.m.fresh = w.m.fresh
  /\ v.m.dropped <=> w.m.dropped \/ (role = "active" /\ IsReady(w.m.slot["active"]))

LEMMA VacateOK ==
  ASSUME NEW w, WorldOK(w), NEW role \in Roles, NEW hold, NEW v, v = Vacate(w, role, hold)
  PROVE  Vacates(w, role, v)
<1> DEFINE s == w.m.slot[role]
           o == w.m.slot[Other(role)]
<1>1. w \in Worlds /\ s \in FeedSlots /\ o \in FeedSlots /\ Other(role) \in Roles /\ Other(role) # role
  BY WorldIs, RolesAre DEF WorldOK
<1>2. CASE ~Held(s)
  <2>1. v = w /\ s = Empty
    BY <1>1, <1>2, SlotIs DEF Vacate
  <2>2. role = "active" => ~IsReady(w.m.slot["active"])
    BY <1>1, <1>2, SlotIs DEF IsReady
  <2> QED
    BY <2>1, <2>2 DEF Vacates
<1>3. CASE Held(s)
  <2> DEFINE holds == IF hold THEN Retry ELSE w.m.held[s.acct]
             jobz == {IF j.role = role /\ ~j.late THEN [j EXCEPT !.late = TRUE] ELSE j : j \in w.jobs}
             opens == IF s.kind = "running" THEN [w.opened EXCEPT ![s.acct] = @ - 1] ELSE w.opened
             mem == [w.m EXCEPT !.slot[role] = Empty, !.dropped = Vacated(w, role), !.held[s.acct] = holds]
  <2>1. v = [m |-> mem, jobs |-> jobz, opened |-> opens]
    BY <1>3 DEF Vacate
  <2>2. s.kind # "empty" /\ s.acct \in ServiceAccounts
    BY <1>1, <1>3, SlotIs
  <2>3. Vacated(w, role) \in BOOLEAN
    BY <1>1, WorldIs DEF Vacated
  <2>4. holds \in 0..Retry
    <3>1. w.m.held \in [ServiceAccounts -> 0..Retry] /\ Retry \in Nat
      BY <1>1, WorldIs, FeedNumbers
    <3> HIDE DEF s
    <3> QED
      BY <2>2, <3>1
  <2>5. Empty \in FeedSlots
    BY DEF FeedSlots
  <2> HIDE DEF holds
  <2>6. /\ mem \in FeedRows /\ mem.slot = [w.m.slot EXCEPT ![role] = Empty]
        /\ mem.order = w.m.order /\ mem.fresh = w.m.fresh /\ mem.dropped = Vacated(w, role)
    <3> HIDE DEF s
    <3>1. w.m \in FeedRows
      BY <1>1, WorldIs
    <3> QED
      BY <2>2, <2>3, <2>4, <2>5, <3>1 DEF FeedRows
  <2> HIDE DEF mem
  <2>7. /\ mem.slot \in [Roles -> FeedSlots] /\ mem.slot[role] = Empty /\ mem.slot[Other(role)] = o
    BY <1>1, <2>5, <2>6, WorldIs
  <2>8. \A j \in w.jobs : j \in FeedJobs /\ [j EXCEPT !.late = TRUE] \in FeedJobs
    <3>1. w.jobs \subseteq FeedJobs
      BY <1>1, WorldIs
    <3>2. \A j \in FeedJobs : [j EXCEPT !.late = TRUE] \in FeedJobs
      BY DEF FeedJobs
    <3> QED
      BY <3>1, <3>2
  <2>9. \A j \in jobz :
          /\ j \in FeedJobs
          /\ ~j.late => j \in w.jobs /\ j.role # role
    BY <2>8 DEF FeedJobs
  <2>10. \A j \in w.jobs : j.role # role => j \in jobz
    OBVIOUS
  <2> HIDE DEF jobz
  <2>11. /\ o.kind = "running" /\ s.kind = "running" => o.acct # s.acct
    BY <1>1, <2>2, SlotIs DEF WorldOK
  <2>12. \A a \in ServiceAccounts : opens[a] = IF o.kind = "running" /\ o.acct = a THEN 1 ELSE 0
    <3> TAKE a \in ServiceAccounts
    <3>1. /\ w.opened \in [ServiceAccounts -> Nat]
          /\ w.opened[a] = IF (s.kind = "running" /\ s.acct = a) \/ (o.kind = "running" /\ o.acct = a)
                           THEN 1 ELSE 0
      BY <1>1, WorldIs, RolesAre DEF WorldOK
    <3> HIDE DEF s, o
    <3>2. CASE s.kind = "running" /\ s.acct = a
      BY <2>2, <2>11, <3>1, <3>2
    <3>3. CASE ~(s.kind = "running" /\ s.acct = a)
      BY <2>2, <3>1, <3>3
    <3> QED
      BY <3>2, <3>3
  <2>13. opens \in [ServiceAccounts -> Nat]
    <3>1. w.opened \in [ServiceAccounts -> Nat]
      BY <1>1, WorldIs
    <3>2. opens = [a \in ServiceAccounts |-> opens[a]]
      BY <3>1
    <3> HIDE DEF opens
    <3>3. \A a \in ServiceAccounts : opens[a] \in Nat
      BY <2>12
    <3> QED
      BY <3>2, <3>3
  <2> HIDE DEF opens
  <2>14. v \in Worlds /\ v.m = mem /\ v.jobs = jobz /\ v.opened = opens
    BY <2>1, <2>6, <2>9, <2>13 DEF Worlds
  <2>15. Empty.kind = "empty" /\ ~Held(Empty)
    BY DEF Empty, Held
  <2>16. \A r \in Roles : r = role \/ r = Other(role)
    BY RolesAre
  <2>17. \A j \in v.jobs :
           ~j.late => v.m.slot[j.role].kind = "starting" /\ v.m.slot[j.role].acct = j.acct
    <3> SUFFICES ASSUME NEW j \in jobz, ~j.late
                 PROVE  mem.slot[j.role].kind = "starting" /\ mem.slot[j.role].acct = j.acct
      BY <2>14
    <3>1. j \in w.jobs /\ j.role # role /\ j.role \in Roles
      BY <2>9 DEF FeedJobs
    <3>2. j.role = Other(role)
      BY <2>16, <3>1
    <3> QED
      BY <2>7, <3>1, <3>2 DEF WorldOK
  <2>18. \A r \in Roles :
           v.m.slot[r].kind = "starting" => [role |-> r, acct |-> v.m.slot[r].acct, late |-> FALSE] \in v.jobs
    <3> SUFFICES ASSUME NEW r \in Roles, mem.slot[r].kind = "starting"
                 PROVE  [role |-> r, acct |-> mem.slot[r].acct, late |-> FALSE] \in jobz
      BY <2>14
    <3>1. r = Other(role) /\ mem.slot[r] = o
      BY <2>7, <2>15, <2>16
    <3>2. [role |-> r, acct |-> o.acct, late |-> FALSE] \in w.jobs
      BY <3>1 DEF WorldOK
    <3> QED
      BY <1>1, <2>10, <3>1, <3>2
  <2>19. \A a \in ServiceAccounts :
           v.opened[a] = IF \E r \in Roles : v.m.slot[r].kind = "running" /\ v.m.slot[r].acct = a THEN 1 ELSE 0
    BY <1>1, <2>7, <2>12, <2>14, <2>15, <2>16
  <2>20. \A r \in Roles :
           Held(v.m.slot[r]) /\ Held(v.m.slot[Other(r)]) => v.m.slot[r].acct # v.m.slot[Other(r)].acct
    BY <1>1, <2>7, <2>14, <2>15, <2>16, RolesAre
  <2> QED
    BY <2>6, <2>7, <2>14, <2>17, <2>18, <2>19, <2>20 DEF WorldOK, Vacated, Vacates
<1> QED
  BY <1>2, <1>3

\* Moves that leave the slots' kinds and accounts, the jobs and the clients alone.
LEMMA SameSlots ==
  ASSUME NEW w, WorldOK(w), NEW v \in Worlds, v.jobs = w.jobs, v.opened = w.opened,
         \A r \in Roles : /\ v.m.slot[r].kind = w.m.slot[r].kind
                          /\ v.m.slot[r].kind # "empty" => v.m.slot[r].acct = w.m.slot[r].acct
  PROVE  WorldOK(v)
<1>1. w \in Worlds /\ (\A j \in v.jobs : j.role \in Roles) /\ \A r \in Roles : Other(r) \in Roles
  <2>1. w \in Worlds
    BY DEF WorldOK
  <2>2. v.jobs \subseteq FeedJobs
    BY WorldIs
  <2> QED
    BY <2>1, <2>2, RolesAre DEF FeedJobs
<1>2. \A r \in Roles : w.m.slot[r] \in FeedSlots /\ v.m.slot[r] \in FeedSlots
  BY <1>1, WorldIs
<1>3. \A r \in Roles : /\ Held(v.m.slot[r]) <=> Held(w.m.slot[r])
                       /\ Held(v.m.slot[r]) <=> v.m.slot[r].kind # "empty"
  BY <1>2, SlotIs
<1>4. \A j \in v.jobs :
        ~j.late => v.m.slot[j.role].kind = "starting" /\ v.m.slot[j.role].acct = j.acct
  BY <1>1 DEF WorldOK
<1>5. \A r \in Roles :
        v.m.slot[r].kind = "starting" => [role |-> r, acct |-> v.m.slot[r].acct, late |-> FALSE] \in v.jobs
  BY DEF WorldOK
<1>6. \A a \in ServiceAccounts :
        v.opened[a] = IF \E r \in Roles : v.m.slot[r].kind = "running" /\ v.m.slot[r].acct = a THEN 1 ELSE 0
  <2> TAKE a \in ServiceAccounts
  <2>1. (\E r \in Roles : v.m.slot[r].kind = "running" /\ v.m.slot[r].acct = a)
        <=> \E r \in Roles : w.m.slot[r].kind = "running" /\ w.m.slot[r].acct = a
    OBVIOUS
  <2>2. w.opened[a] = IF \E r \in Roles : w.m.slot[r].kind = "running" /\ w.m.slot[r].acct = a THEN 1 ELSE 0
    BY DEF WorldOK
  <2> QED
    BY <2>1, <2>2
<1>7. \A r \in Roles :
        Held(v.m.slot[r]) /\ Held(v.m.slot[Other(r)]) => v.m.slot[r].acct # v.m.slot[Other(r)].acct
  BY <1>1, <1>3 DEF WorldOK
<1> QED
  BY <1>4, <1>5, <1>6, <1>7 DEF WorldOK

LEMMA StartJobOK ==
  ASSUME NEW w, WorldOK(w), NEW role \in Roles, NEW a \in ServiceAccounts, ~Held(w.m.slot[role]),
         ~(Held(w.m.slot[Other(role)]) /\ w.m.slot[Other(role)].acct = a),
         NEW v, v = StartJob(w, role, a)
  PROVE  /\ WorldOK(v)
         /\ v.m.slot[role] = [kind |-> "starting", acct |-> a, age |-> 0]
         /\ v.m.slot[Other(role)] = w.m.slot[Other(role)]
         /\ v.m.order = w.m.order /\ v.m.fresh = w.m.fresh /\ v.m.dropped = w.m.dropped
<1> DEFINE o == w.m.slot[Other(role)]
           new == [kind |-> "starting", acct |-> a, age |-> 0]
           job == [role |-> role, acct |-> a, late |-> FALSE]
           mem == [w.m EXCEPT !.slot[role] = new]
<1>1. /\ w \in Worlds /\ w.m.slot[role] \in FeedSlots /\ o \in FeedSlots
      /\ Other(role) \in Roles /\ Other(role) # role
  BY WorldIs, RolesAre DEF WorldOK
<1>2. new \in FeedSlots /\ new.kind = "starting" /\ new.acct = a /\ Held(new) /\ job \in FeedJobs
  BY FeedNumbers DEF FeedSlots, Held, FeedJobs
<1>3. w.m.slot[role].kind = "empty"
  BY <1>1, SlotIs
<1>4. v = [w EXCEPT !.m = mem, !.jobs = @ \cup {job}]
  BY <1>1 DEF StartJob, Worlds
<1> HIDE DEF new
<1>5. /\ mem \in FeedRows /\ mem.slot = [w.m.slot EXCEPT ![role] = new]
      /\ mem.order = w.m.order /\ mem.fresh = w.m.fresh /\ mem.dropped = w.m.dropped
  <2>1. w.m \in FeedRows
    BY <1>1, WorldIs
  <2> QED
    BY <1>2, <2>1 DEF FeedRows
<1> HIDE DEF mem
<1>6. mem.slot[role] = new /\ mem.slot[Other(role)] = o
  BY <1>1, <1>5, WorldIs
<1>7. v \in Worlds /\ v.m = mem /\ v.jobs = w.jobs \cup {job} /\ v.opened = w.opened
  <2> DEFINE jobz == w.jobs \cup {job}
  <2>1. jobz \in SUBSET FeedJobs
    BY <1>1, <1>2, WorldIs
  <2>2. v = [w EXCEPT !.m = mem, !.jobs = jobz]
    BY <1>4
  <2> HIDE DEF jobz
  <2>3. v \in Worlds /\ v.m = mem /\ v.jobs = jobz /\ v.opened = w.opened
    BY <1>1, <1>5, <2>1, <2>2 DEF Worlds
  <2> QED
    BY <2>3 DEF jobz
<1>8. \A r \in Roles : r = role \/ r = Other(role)
  BY RolesAre
<1>9. \A j \in v.jobs :
        ~j.late => v.m.slot[j.role].kind = "starting" /\ v.m.slot[j.role].acct = j.acct
  <2> SUFFICES ASSUME NEW j \in v.jobs, ~j.late
               PROVE  mem.slot[j.role].kind = "starting" /\ mem.slot[j.role].acct = j.acct
    BY <1>7
  <2>1. CASE j = job
    BY <1>2, <1>6, <2>1
  <2>2. CASE j \in w.jobs
    <3>1. w.m.slot[j.role].kind = "starting" /\ w.m.slot[j.role].acct = j.acct /\ j.role \in Roles
      BY <1>1, <2>2, WorldIs DEF WorldOK, FeedJobs
    <3>2. j.role = Other(role)
      BY <1>3, <1>8, <3>1
    <3> QED
      BY <1>6, <3>1, <3>2
  <2> QED
    BY <1>7, <2>1, <2>2
<1>10. \A r \in Roles :
         v.m.slot[r].kind = "starting" => [role |-> r, acct |-> v.m.slot[r].acct, late |-> FALSE] \in v.jobs
  <2> SUFFICES ASSUME NEW r \in Roles, mem.slot[r].kind = "starting"
               PROVE  [role |-> r, acct |-> mem.slot[r].acct, late |-> FALSE] \in w.jobs \cup {job}
    BY <1>7
  <2>1. CASE r = role
    BY <1>2, <1>6, <2>1
  <2>2. CASE r = Other(role)
    BY <1>1, <1>6, <2>2 DEF WorldOK
  <2> QED
    BY <1>8, <2>1, <2>2
<1>11. \A b \in ServiceAccounts :
         v.opened[b] = IF \E r \in Roles : v.m.slot[r].kind = "running" /\ v.m.slot[r].acct = b THEN 1 ELSE 0
  <2> TAKE b \in ServiceAccounts
  <2>1. w.opened[b] = IF \E r \in Roles : w.m.slot[r].kind = "running" /\ w.m.slot[r].acct = b THEN 1 ELSE 0
    BY DEF WorldOK
  <2>2. (\E r \in Roles : w.m.slot[r].kind = "running" /\ w.m.slot[r].acct = b)
        <=> \E r \in Roles : mem.slot[r].kind = "running" /\ mem.slot[r].acct = b
    BY <1>1, <1>2, <1>3, <1>6, <1>8
  <2> QED
    BY <1>7, <2>1, <2>2
<1>12. \A r \in Roles :
         Held(v.m.slot[r]) /\ Held(v.m.slot[Other(r)]) => v.m.slot[r].acct # v.m.slot[Other(r)].acct
  BY <1>1, <1>2, <1>6, <1>7, <1>8, RolesAre
<1> QED
  BY <1>5, <1>6, <1>7, <1>9, <1>10, <1>11, <1>12 DEF WorldOK, new

LEMMA SubscribeOK ==
  ASSUME NEW w, WorldOK(w), NEW v, v = SubscribeNew(w)
  PROVE  /\ WorldOK(v)
         /\ \A r \in Roles :
              /\ v.m.slot[r].kind = w.m.slot[r].kind
              /\ v.m.slot[r].kind # "empty" =>
                   v.m.slot[r].acct = w.m.slot[r].acct /\ v.m.slot[r].age = w.m.slot[r].age
              /\ v.m.slot[r].kind = "running" => v.m.slot[r].ready = w.m.slot[r].ready
         /\ v.m.order = w.m.order /\ v.m.fresh = w.m.fresh /\ v.m.dropped = w.m.dropped
<1> DEFINE s == w.m.slot["active"]
<1>1. /\ w \in Worlds /\ "active" \in Roles /\ w.m.slot \in [Roles -> FeedSlots]
      /\ s \in FeedSlots /\ w.m \in FeedRows
  BY WorldIs, RolesAre DEF WorldOK
<1>2. CASE ~(s.kind = "running" /\ w.m.fresh)
  BY <1>2 DEF SubscribeNew
<1>3. CASE s.kind = "running" /\ w.m.fresh
  <2> DEFINE new == [s EXCEPT !.subscribed = TRUE]
             mem == [w.m EXCEPT !.slot["active"] = new]
  <2>1. v = [w EXCEPT !.m = mem]
    BY <1>1, <1>3 DEF SubscribeNew, Worlds, FeedRows
  <2>2. new \in FeedSlots
    BY <1>1, <1>3, SlotIs
  <2>3. new.kind = "running" /\ new.acct = s.acct /\ new.age = s.age /\ new.ready = s.ready
    <3>1. s \in [kind : {"running"}, acct : ServiceAccounts, ready : BOOLEAN, subscribed : BOOLEAN,
                 age : 0..Oldest]
      BY <1>1, <1>3 DEF FeedSlots, Empty
    <3> HIDE DEF s
    <3> QED
      BY <3>1
  <2> HIDE DEF new
  <2>4. /\ mem \in FeedRows /\ mem.slot = [w.m.slot EXCEPT !["active"] = new]
        /\ mem.order = w.m.order /\ mem.fresh = w.m.fresh /\ mem.dropped = w.m.dropped
    BY <1>1, <2>2 DEF FeedRows
  <2> HIDE DEF mem
  <2>5. mem.slot["active"] = new /\ \A r \in Roles : r # "active" => mem.slot[r] = w.m.slot[r]
    BY <1>1, <2>4
  <2>6. v \in Worlds /\ v.m = mem /\ v.jobs = w.jobs /\ v.opened = w.opened
    BY <1>1, <2>1, <2>4 DEF Worlds
  <2>7. \A r \in Roles :
          /\ mem.slot[r].kind = w.m.slot[r].kind
          /\ mem.slot[r].kind # "empty" =>
               mem.slot[r].acct = w.m.slot[r].acct /\ mem.slot[r].age = w.m.slot[r].age
          /\ mem.slot[r].kind = "running" => mem.slot[r].ready = w.m.slot[r].ready
    BY <1>3, <2>3, <2>5
  <2>8. WorldOK(v)
    BY <2>6, <2>7, SameSlots
  <2> QED
    BY <2>4, <2>6, <2>7, <2>8
<1> QED
  BY <1>2, <1>3

-----------------------------------------------------------------------------
(* reconcile: each rule keeps the world and the mark *)

Through(w) == WorldOK(w) /\ MarkOK(w)

LEMMA WorldSlots ==
  ASSUME NEW w, WorldOK(w), NEW r \in Roles
  PROVE  /\ w \in Worlds /\ w.m.slot[r] \in FeedSlots /\ w.m.dropped \in BOOLEAN
         /\ IsReady(w.m.slot[r]) => Held(w.m.slot[r])
         /\ Unready(w.m.slot[r]) <=> Held(w.m.slot[r]) /\ ~IsReady(w.m.slot[r])
         /\ Held(w.m.slot[r]) => w.m.slot[r].acct \in ServiceAccounts /\ w.m.slot[r].age \in 0..Oldest
<1>1. w \in Worlds
  BY DEF WorldOK
<1>2. w.m.slot[r] \in FeedSlots /\ w.m.dropped \in BOOLEAN
  BY <1>1, WorldIs
<1> QED
  BY <1>1, <1>2, SlotIs DEF IsReady, Unready

LEMMA VacateThrough ==
  ASSUME NEW w, Through(w), NEW role \in Roles, NEW hold, NEW v, v = Vacate(w, role, hold)
  PROVE  Through(v)
<1>1. /\ WorldOK(v)
      /\ v.m.slot[role] = Empty /\ v.m.slot[Other(role)] = w.m.slot[Other(role)]
      /\ v.m.dropped <=> w.m.dropped \/ (role = "active" /\ IsReady(w.m.slot["active"]))
  BY VacateOK DEF Through, Vacates
<1>2. role = "active" \/ (role = "reserve" /\ Other(role) = "active")
  BY RolesAre
<1>3. MarkOK(v)
  BY <1>1, <1>2 DEF Through, MarkOK
<1> QED
  BY <1>1, <1>3 DEF Through

LEMMA R1Through == ASSUME NEW w, Through(w) PROVE Through(R1(w))
<1> DEFINE Unlisted(v, role) ==
             IF Held(v.m.slot[role]) /\ v.m.slot[role].acct \notin v.m.order THEN Vacate(v, role, FALSE) ELSE v
<1>1. \A v, role : Through(v) /\ role \in Roles => Through(Unlisted(v, role))
  BY VacateThrough
<1>2. R1(w) = Unlisted(Unlisted(w, "active"), "reserve")
  BY DEF R1
<1> HIDE DEF Unlisted
<1> QED
  BY <1>1, <1>2, RolesAre

LEMMA R2Through == ASSUME NEW w, Through(w) PROVE Through(R2(w))
BY VacateThrough, RolesAre DEF R2

LEMMA VacateActive ==
  ASSUME NEW w, WorldOK(w)
  PROVE  LET v == Vacate(w, "active", FALSE)
         IN /\ WorldOK(v) /\ v.m.slot["active"] = Empty /\ v.m.slot["reserve"] = w.m.slot["reserve"]
            /\ w.m.dropped => v.m.dropped
<1>1. "active" \in Roles /\ Other("active") = "reserve"
  BY RolesAre
<1>2. Vacates(w, "active", Vacate(w, "active", FALSE))
  BY <1>1, VacateOK
<1> QED
  BY <1>1, <1>2 DEF Vacates

\* The reserve becomes the active: the mark is there, since the active was not ready.
LEMMA R3Through == ASSUME NEW w, Through(w) PROVE Through(R3(w)) /\ WaitOK(R3(w))
<1> DEFINE active == w.m.slot["active"]
           reserve == w.m.slot["reserve"]
           takes == IsReady(reserve) /\ (~Held(active) \/ (Unready(active) /\ active.age >= FailoverGrace))
           v == Vacate(w, "active", FALSE)
           swap == [v EXCEPT !.m.slot = [active |-> reserve, reserve |-> Empty]]
<1>1. /\ w \in Worlds /\ active \in FeedSlots /\ reserve \in FeedSlots /\ w.m.dropped \in BOOLEAN
      /\ IsReady(active) => Held(active)
      /\ Unready(active) <=> Held(active) /\ ~IsReady(active)
      /\ Held(active) => active.age \in Nat
      /\ FailoverGrace \in Nat
  BY WorldSlots, RolesAre, FeedNumbers DEF Through
<1>2. R3(w) = IF takes THEN SubscribeNew(swap) ELSE w
  BY DEF R3
<1>3. CASE ~takes
  <2>1. WaitOK(w)
    BY <1>1, <1>3 DEF WaitOK
  <2> QED
    BY <1>2, <1>3, <2>1
<1>4. CASE takes
  <2>1. w.m.dropped /\ ~IsReady(active)
    BY <1>1, <1>4 DEF Through, MarkOK
  <2>2. /\ WorldOK(v) /\ v.m.slot["active"] = Empty /\ v.m.slot["reserve"] = reserve
        /\ v.m.dropped
    <3>1. WorldOK(w) /\ "active" \in Roles /\ Other("active") = "reserve"
      BY RolesAre DEF Through
    <3> QED
      BY <2>1, <3>1, VacateActive
  <2>3. v \in Worlds
    BY <2>2 DEF WorldOK
  <2>4. reserve.kind = "running" /\ reserve.ready
    BY <1>4 DEF IsReady
  <2>5. /\ Empty \in FeedSlots /\ Empty.kind = "empty" /\ ~Held(Empty) /\ ~IsReady(Empty)
    BY DEF FeedSlots, Empty, Held, IsReady
  <2> HIDE DEF v, active, reserve
  <2> DEFINE slots == [active |-> reserve, reserve |-> Empty]
             mem == [v.m EXCEPT !.slot = slots]
  <2>6. slots \in [Roles -> FeedSlots] /\ slots["active"] = reserve /\ slots["reserve"] = Empty
    <3>1. slots = [r \in {"active", "reserve"} |-> IF r = "active" THEN reserve ELSE Empty]
      OBVIOUS
    <3> QED
      BY <1>1, <2>5, <3>1 DEF Roles
  <2> HIDE DEF slots
  <2>7. v.m \in FeedRows
    BY <2>3, WorldIs
  <2>8. mem \in FeedRows /\ mem.slot = slots /\ mem.dropped = v.m.dropped
    BY <2>6, <2>7 DEF FeedRows
  <2>9. swap = [v EXCEPT !.m = mem]
    BY <2>3 DEF Worlds, slots
  <2> HIDE DEF mem, swap
  <2>10. swap \in Worlds /\ swap.m = mem /\ swap.jobs = v.jobs /\ swap.opened = v.opened
    BY <2>3, <2>8, <2>9 DEF Worlds
  <2>11. swap.m.slot["active"] = reserve /\ swap.m.slot["reserve"] = Empty /\ swap.m.dropped
    BY <2>2, <2>6, <2>8, <2>10
  <2>12. WorldOK(swap)
    <3>1. \A j \in swap.jobs : j.late
      <4>1. \A j \in v.jobs : j.role \in Roles
        BY <2>3, WorldIs DEF FeedJobs
      <4>2. \A j \in v.jobs : ~j.late => v.m.slot[j.role].kind = "starting"
        BY <2>2 DEF WorldOK
      <4>3. \A r \in Roles : v.m.slot[r].kind # "starting"
        BY <2>2, <2>4, <2>5, RolesAre
      <4> QED
        BY <2>10, <4>1, <4>2, <4>3
    <3>2. \A r \in Roles : swap.m.slot[r].kind # "starting"
      BY <2>4, <2>5, <2>11, RolesAre
    <3>3. \A a \in ServiceAccounts :
            swap.opened[a] = IF \E r \in Roles : swap.m.slot[r].kind = "running" /\ swap.m.slot[r].acct = a
                             THEN 1 ELSE 0
      <4> TAKE a \in ServiceAccounts
      <4>1. v.opened[a] = IF \E r \in Roles : v.m.slot[r].kind = "running" /\ v.m.slot[r].acct = a
                          THEN 1 ELSE 0
        BY <2>2 DEF WorldOK
      <4>2. (\E r \in Roles : v.m.slot[r].kind = "running" /\ v.m.slot[r].acct = a)
            <=> \E r \in Roles : swap.m.slot[r].kind = "running" /\ swap.m.slot[r].acct = a
        BY <2>2, <2>5, <2>11, RolesAre
      <4> QED
        BY <2>10, <4>1, <4>2
    <3>4. \A r \in Roles :
            Held(swap.m.slot[r]) /\ Held(swap.m.slot[Other(r)]) =>
              swap.m.slot[r].acct # swap.m.slot[Other(r)].acct
      BY <2>5, <2>11, RolesAre
    <3> QED
      BY <2>10, <3>1, <3>2, <3>3, <3>4 DEF WorldOK
  <2> DEFINE u == SubscribeNew(swap)
  <2>13. /\ WorldOK(u) /\ u.m.dropped = swap.m.dropped
         /\ u.m.slot["reserve"].kind = swap.m.slot["reserve"].kind
    BY <2>12, SubscribeOK, RolesAre
  <2> HIDE DEF u
  <2>14. u.m.dropped /\ ~IsReady(u.m.slot["reserve"])
    BY <2>5, <2>11, <2>13 DEF IsReady
  <2>15. R3(w) = u
    BY <1>2, <1>4 DEF u
  <2> QED
    BY <2>13, <2>14, <2>15 DEF Through, MarkOK, WaitOK
<1> QED
  BY <1>3, <1>4

LEMMA LeastOf ==
  ASSUME NEW S, S \subseteq Nat, S # {}
  PROVE  \E n \in S : \A p \in S : n <= p
<1>1. PICK n \in S : \A p \in S : ~(<<p, n>> \in OpToRel(<, Nat))
  BY NatLessThanWellFounded, WFMin
<1>2. \A p \in S : ~(p < n)
  BY <1>1 DEF OpToRel
<1> QED
  BY <1>2

LEMMA StartEmptyThrough ==
  ASSUME NEW w, Through(w), WaitOK(w), NEW role \in Roles
  PROVE  Through(StartEmpty(w, role)) /\ WaitOK(StartEmpty(w, role))
<1> DEFINE C == Candidates(w, role)
           a == First(C)
           v == StartJob(w, role, a)
           other == w.m.slot[Other(role)]
<1>1. /\ w \in Worlds /\ w.m.order \subseteq ServiceAccounts /\ C \subseteq ServiceAccounts
      /\ Held(w.m.slot[role]) <=> ~(w.m.slot[role].kind = "empty")
      /\ IsReady(w.m.slot[role]) => Held(w.m.slot[role])
  <2>1. w \in Worlds /\ w.m.order \subseteq ServiceAccounts
    BY WorldIs DEF Through, WorldOK
  <2>2. C \subseteq w.m.order
    BY DEF Candidates
  <2> HIDE DEF C
  <2>3. IsReady(w.m.slot[role]) => Held(w.m.slot[role])
    BY WorldSlots DEF Through
  <2> QED
    BY <2>1, <2>2, <2>3 DEF Held
<1>2. CASE Held(w.m.slot[role]) \/ C = {}
  BY <1>2 DEF StartEmpty
<1>3. CASE ~Held(w.m.slot[role]) /\ C # {}
  <2>1. a \in C
    <3>1. C \subseteq Nat
      BY <1>1, FeedNumbers
    <3> HIDE DEF C
    <3>2. \E b \in C : \A c \in C : b <= c
      BY <1>3, <3>1, LeastOf
    <3> QED
      BY <3>2 DEF First
  <2>2. a \in ServiceAccounts /\ ~(Held(other) /\ other.acct = a)
    BY <1>1, <2>1 DEF Candidates
  <2> HIDE DEF C, a
  <2>3. /\ WorldOK(v)
        /\ v.m.slot[role] = [kind |-> "starting", acct |-> a, age |-> 0]
        /\ v.m.slot[Other(role)] = other
        /\ v.m.dropped = w.m.dropped
    BY <1>3, <2>2, StartJobOK DEF Through
  <2> HIDE DEF v
  <2>4. /\ Held(v.m.slot[role]) /\ ~IsReady(v.m.slot[role]) /\ v.m.slot[role].age = 0
    BY <2>3 DEF Held, IsReady
  <2>5. MarkOK(v) /\ WaitOK(v)
    <3>1. CASE role = "active"
      <4>1. MarkOK(v)
        BY <1>1, <1>3, <2>3, <3>1 DEF Through, MarkOK
      <4>2. WaitOK(v)
        BY <2>4, <3>1, FeedNumbers DEF WaitOK
      <4> QED
        BY <4>1, <4>2
    <3>2. CASE role = "reserve"
      <4>1. MarkOK(v)
        BY <2>3, <3>2, RolesAre DEF Through, MarkOK
      <4>2. WaitOK(v)
        BY <2>4, <3>2 DEF WaitOK
      <4> QED
        BY <4>1, <4>2
    <3> QED
      BY <3>1, <3>2, RolesAre
  <2>6. StartEmpty(w, role) = v
    BY <1>3 DEF StartEmpty, v, C, a
  <2> QED
    BY <2>3, <2>5, <2>6 DEF Through
<1> QED
  BY <1>2, <1>3

LEMMA SubscribeThrough ==
  ASSUME NEW w, Through(w), WaitOK(w), NEW v, v = SubscribeNew(w)
  PROVE  Through(v) /\ WaitOK(v)
<1>1. /\ WorldOK(v) /\ WorldOK(w) /\ v.m.dropped = w.m.dropped
      /\ \A r \in Roles :
           /\ v.m.slot[r].kind = w.m.slot[r].kind
           /\ v.m.slot[r].kind # "empty" =>
                v.m.slot[r].acct = w.m.slot[r].acct /\ v.m.slot[r].age = w.m.slot[r].age
           /\ v.m.slot[r].kind = "running" => v.m.slot[r].ready = w.m.slot[r].ready
  BY SubscribeOK DEF Through
<1>2. \A r \in Roles :
        /\ IsReady(v.m.slot[r]) <=> IsReady(w.m.slot[r])
        /\ Held(v.m.slot[r]) <=> Held(w.m.slot[r])
        /\ Held(v.m.slot[r]) => v.m.slot[r].acct = w.m.slot[r].acct /\ v.m.slot[r].age = w.m.slot[r].age
        /\ IsReady(v.m.slot[r]) => Held(v.m.slot[r])
  BY <1>1 DEF IsReady, Held
<1>3. MarkOK(v)
  BY <1>1, <1>2, RolesAre DEF Through, MarkOK
<1>4. WaitOK(v)
  BY <1>2, RolesAre DEF WaitOK
<1> QED
  BY <1>1, <1>3, <1>4 DEF Through

LEMMA ArmThrough ==
  ASSUME NEW w, Through(w), WaitOK(w), NEW v, v = ArmDeadline(w)
  PROVE  Through(v) /\ WaitOK(v) /\ AlarmOK(v)
<1> DEFINE D == {d \in Deadlines(w) : d > 0}
           alarm == IF D = {} THEN NoAlarm ELSE CHOOSE d \in D : \A e \in D : d <= e
           mem == [w.m EXCEPT !.alarm = alarm]
<1>1. w \in Worlds /\ w.m \in FeedRows
  BY WorldIs DEF Through, WorldOK
<1>2. D = {d \in {Limit(r) - w.m.slot[r].age : r \in {q \in Roles : Unready(w.m.slot[q])}} : d > 0}
  BY DEF Deadlines, Limit
<1>3. \A r \in Roles :
        Unready(w.m.slot[r]) => /\ w.m.slot[r].age \in 0..Oldest
                                /\ Limit(r) - w.m.slot[r].age \in Int
                                /\ Limit(r) - w.m.slot[r].age <= ReserveReady
  <2> TAKE r \in Roles
  <2>1. Unready(w.m.slot[r]) => w.m.slot[r].age \in 0..Oldest
    BY WorldSlots DEF Through
  <2> QED
    BY <2>1, FeedNumbers
<1>4. D \subseteq 1..ReserveReady
  BY <1>2, <1>3, FeedNumbers
<1>5. \A r \in Roles :
        Unready(w.m.slot[r]) /\ w.m.slot[r].age < Limit(r) => Limit(r) - w.m.slot[r].age \in D
  <2> SUFFICES ASSUME NEW r \in Roles, Unready(w.m.slot[r]), w.m.slot[r].age < Limit(r)
               PROVE  Limit(r) - w.m.slot[r].age \in D
    OBVIOUS
  <2>1. Limit(r) - w.m.slot[r].age > 0
    BY <1>3, FeedNumbers
  <2> QED
    BY <1>2, <2>1
<1> HIDE DEF D
<1>6. /\ alarm \in NoAlarm..ReserveReady
      /\ \A d \in D : alarm # NoAlarm /\ alarm <= d
  <2>1. CASE D = {}
    BY <2>1, FeedNumbers
  <2>2. CASE D # {}
    <3>1. D \subseteq Nat
      BY <1>4, FeedNumbers
    <3>2. \E b \in D : \A c \in D : b <= c
      BY <2>2, <3>1, LeastOf
    <3>4. alarm \in D /\ \A d \in D : alarm <= d
      BY <2>2, <3>2
    <3> HIDE DEF alarm
    <3> QED
      BY <1>4, <3>4, FeedNumbers
  <2> QED
    BY <2>1, <2>2
<1>7. v = [w EXCEPT !.m = mem]
  BY <1>1 DEF ArmDeadline, Worlds, FeedRows, D
<1> HIDE DEF alarm
<1>8. mem \in FeedRows /\ mem.slot = w.m.slot /\ mem.dropped = w.m.dropped /\ mem.alarm = alarm
  BY <1>1, <1>6 DEF FeedRows
<1> HIDE DEF mem
<1>9. v \in Worlds /\ v.m = mem /\ v.jobs = w.jobs /\ v.opened = w.opened
  BY <1>1, <1>7, <1>8 DEF Worlds
<1>10. WorldOK(v)
  BY <1>8, <1>9, SameSlots DEF Through
<1>11. MarkOK(v) /\ WaitOK(v)
  BY <1>8, <1>9 DEF Through, MarkOK, WaitOK
<1>12. AlarmOK(v)
  BY <1>5, <1>6, <1>8, <1>9 DEF AlarmOK
<1> QED
  BY <1>10, <1>11, <1>12 DEF Through

LEMMA FreshThrough ==
  ASSUME NEW w, Through(w), catalog \in BOOLEAN, NEW v, v = [w EXCEPT !.m.fresh = catalog]
  PROVE  Through(v)
<1> DEFINE mem == [w.m EXCEPT !.fresh = catalog]
<1>1. w \in Worlds /\ w.m \in FeedRows
  BY WorldIs DEF Through, WorldOK
<1>2. mem \in FeedRows /\ mem.slot = w.m.slot /\ mem.dropped = w.m.dropped
  BY <1>1 DEF FeedRows
<1>3. v = [w EXCEPT !.m = mem]
  BY <1>1 DEF Worlds
<1> HIDE DEF mem
<1>4. v \in Worlds /\ v.m = mem /\ v.jobs = w.jobs /\ v.opened = w.opened
  BY <1>1, <1>2, <1>3 DEF Worlds
<1> QED
  BY <1>2, <1>4, SameSlots DEF Through, MarkOK

\* What a handler leaves behind.
Settled ==
  /\ WorldOK(World) /\ AlarmOK(World) /\ FailoverInTime /\ missed \in BOOLEAN
  /\ missed \/ ~Streaming => feed.dropped

\* A handler that gives its rules a sound world with the mark in place leaves a sound feed.
LEMMA ReconcileSettles ==
  ASSUME FeedInv, NEW w, Through(w), Reconcile(w)
  PROVE  Settled'
<1>1. PICK w0 \in {[w EXCEPT !.m.fresh = catalog]} : \E w1 \in {R1(w0)} : \E w2 \in {R2(w1)} :
        \E w3 \in {R3(w2)} : \E w4 \in {StartEmpty(w3, "active")} : \E w5 \in {StartEmpty(w4, "reserve")} :
        \E w6 \in {SubscribeNew(w5)} : Become(ArmDeadline(w6))
  BY DEF Reconcile
<1>2. \E w1, w2, w3, w4, w5, w6 :
        /\ w1 = R1(w0) /\ w2 = R2(w1) /\ w3 = R3(w2) /\ w4 = StartEmpty(w3, "active")
        /\ w5 = StartEmpty(w4, "reserve") /\ w6 = SubscribeNew(w5) /\ Become(ArmDeadline(w6))
  BY <1>1
<1>. PICK w1, w2, w3, w4, w5, w6 :
       /\ w1 = R1(w0) /\ w2 = R2(w1) /\ w3 = R3(w2) /\ w4 = StartEmpty(w3, "active")
       /\ w5 = StartEmpty(w4, "reserve") /\ w6 = SubscribeNew(w5) /\ Become(ArmDeadline(w6))
  BY <1>2
<1>3. Through(w0)
  BY FreshThrough DEF FeedInv
<1>4. Through(w1)
  BY <1>2, <1>3, R1Through
<1>5. Through(w2)
  BY <1>2, <1>4, R2Through
<1>6. Through(w3) /\ WaitOK(w3)
  BY <1>2, <1>5, R3Through
<1>7. Through(w4) /\ WaitOK(w4)
  BY <1>2, <1>6, StartEmptyThrough, RolesAre
<1>8. Through(w5) /\ WaitOK(w5)
  BY <1>2, <1>7, StartEmptyThrough, RolesAre
<1>9. Through(w6) /\ WaitOK(w6)
  BY <1>2, <1>8, SubscribeThrough
<1> DEFINE u == ArmDeadline(w6)
<1>10. Through(u) /\ WaitOK(u) /\ AlarmOK(u) /\ Become(u)
  BY <1>2, <1>9, ArmThrough
<1> HIDE DEF u
<1>11. feed' = u.m /\ jobs' = u.jobs /\ started' = u.opened
  BY <1>10 DEF Become
<1>12. [m |-> feed', jobs |-> jobs', opened |-> started'] = u
  BY <1>10, <1>11 DEF Through, WorldOK, Worlds
<1>13. World' = u
  BY <1>12 DEF World
<1>14. WorldOK(World)' /\ AlarmOK(World)'
  BY <1>10, <1>13 DEF Through, WorldOK, AlarmOK
<1>15. u.m.dropped \in BOOLEAN /\ (IsReady(u.m.slot["active"]) => Held(u.m.slot["active"]))
  BY <1>10, WorldSlots, RolesAre DEF Through
<1>16. FailoverInTime'
  BY <1>10, <1>11, <1>15 DEF WaitOK, FailoverInTime, Streaming
<1>17. missed' \in BOOLEAN /\ ((missed \/ ~Streaming)' => feed'.dropped)
  <2>1. missed' = (missed \/ ~IsReady(u.m.slot["active"])
                   \/ (Streaming /\ u.m.slot["active"].acct # feed.slot["active"].acct))
    BY <1>10 DEF Become
  <2>2. /\ missed => feed.dropped
        /\ feed.dropped => u.m.dropped
        /\ u.m.dropped \/ (IsReady(u.m.slot["active"]) /\ Streaming
                             /\ u.m.slot["active"].acct = feed.slot["active"].acct)
    BY <1>10 DEF FeedInv, Through, MarkOK
  <2>3. Streaming' = IsReady(u.m.slot["active"])
    BY <1>11 DEF Streaming
  <2> QED
    BY <1>11, <2>1, <2>2, <2>3
<1> QED
  BY <1>14, <1>16, <1>17 DEF Settled

-----------------------------------------------------------------------------
(* Every step keeps the invariant *)

\* What the invariant says of the manager's memory.
LEMMA FeedIs ==
  ASSUME FeedInv
  PROVE  /\ Through(World) /\ World.m = feed /\ World.jobs = jobs /\ World.opened = started
         /\ feed \in FeedRows /\ feed.slot \in [Roles -> FeedSlots] /\ jobs \subseteq FeedJobs
         /\ started \in [ServiceAccounts -> Nat] /\ feed.dropped \in BOOLEAN
         /\ \A r \in Roles : feed.slot[r] \in FeedSlots
         /\ missed \/ ~Streaming => feed.dropped
<1>1. World.m = feed /\ World.jobs = jobs /\ World.opened = started
  BY DEF World
<1>2. World \in Worlds
  BY DEF FeedInv, WorldOK
<1>3. /\ feed \in FeedRows /\ feed.slot \in [Roles -> FeedSlots] /\ jobs \subseteq FeedJobs
      /\ started \in [ServiceAccounts -> Nat] /\ feed.dropped \in BOOLEAN
      /\ \A r \in Roles : feed.slot[r] \in FeedSlots
  BY <1>1, <1>2, WorldIs
<1>4. MarkOK(World)
  BY <1>1 DEF FeedInv, MarkOK, Streaming
<1> QED
  BY <1>1, <1>3, <1>4 DEF FeedInv, Through

\* A step that leaves a settled feed and a sound list keeps the invariant.
LEMMA SettledKeeps ==
  ASSUME FeedInv, Settled', listed' \in SUBSET ServiceAccounts, feedTick' \in FeedTicks, catalog' \in BOOLEAN
  PROVE  FeedInv'
BY DEF FeedInv, Settled

\* A handler's assignments to one slot, taken together.
MovesAre(f, role, b, o, d) ==
  /\ [f EXCEPT !.slot[role].ready = b, !.slot[role].age = o, !.dropped = d]
     = [f EXCEPT !.slot = [f.slot EXCEPT ![role] = [f.slot[role] EXCEPT !.ready = b, !.age = o]],
                 !.dropped = d]
  /\ [f EXCEPT !.slot[role].ready = b, !.slot[role].age = o]
     = [f EXCEPT !.slot = [f.slot EXCEPT ![role] = [f.slot[role] EXCEPT !.ready = b, !.age = o]],
                 !.dropped = f.dropped]
  /\ [f EXCEPT !.slot[role].ready = b, !.dropped = d]
     = [f EXCEPT !.slot = [f.slot EXCEPT ![role] = [f.slot[role] EXCEPT !.ready = b]],
                 !.dropped = d]

LEMMA MovesOnce ==
  ASSUME NEW f \in FeedRows, NEW role \in Roles, NEW b, NEW o, NEW d
  PROVE  MovesAre(f, role, b, o, d)
<1> DEFINE s == f.slot[role]
           s1 == [s EXCEPT !.ready = b]
           s2 == [s1 EXCEPT !.age = o]
           t1 == [f.slot EXCEPT ![role] = s1]
           t2 == [f.slot EXCEPT ![role] = s2]
           f1 == [f EXCEPT !.slot = t1]
           f2 == [f EXCEPT !.slot = t2]
<1>1. f.slot \in [Roles -> FeedSlots]
  BY DEF FeedRows
<1>2. [f EXCEPT !.slot[role].ready = b] = f1
  OBVIOUS
<1>3. t1[role] = s1 /\ [t1 EXCEPT ![role] = s2] = t2
  BY <1>1
<1>4. f1.slot = t1
  BY DEF FeedRows
<1>5. [f1 EXCEPT !.slot[role].age = o] = f2
  <2>1. [f1 EXCEPT !.slot[role].age = o]
        = [f1 EXCEPT !.slot = [f1.slot EXCEPT ![role] = [f1.slot[role] EXCEPT !.age = o]]]
    OBVIOUS
  <2> HIDE DEF s1
  <2>2. [f1.slot EXCEPT ![role] = [f1.slot[role] EXCEPT !.age = o]] = t2
    BY <1>3, <1>4
  <2> HIDE DEF t1, t2
  <2>3. [f1 EXCEPT !.slot = t2] = f2
    BY DEF FeedRows
  <2> QED
    BY <2>1, <2>2, <2>3
<1>6. [f EXCEPT !.slot[role].ready = b, !.slot[role].age = o] = f2
  BY <1>2, <1>5
<1>7. [f2 EXCEPT !.dropped = f.dropped] = f2
  <2> HIDE DEF t2
  <2> QED
    BY DEF FeedRows
<1>8. [f EXCEPT !.slot[role].ready = b, !.slot[role].age = o, !.dropped = d] = [f2 EXCEPT !.dropped = d]
  BY <1>6
<1>9. [f EXCEPT !.slot[role].ready = b, !.dropped = d] = [f1 EXCEPT !.dropped = d]
  BY <1>2
<1> QED
  BY <1>6, <1>7, <1>8, <1>9 DEF MovesAre

\* The world with a slot's client and the mark set.
FeedMoved(f, role, s, d) ==
  [m |-> [f EXCEPT !.slot = [f.slot EXCEPT ![role] = s], !.dropped = d], jobs |-> jobs, opened |-> started]

HandlerMoves(role, b, o, d) ==
  /\ [World EXCEPT !.m.slot[role].ready = b, !.m.slot[role].age = o, !.m.dropped = @ \/ d]
     = FeedMoved(feed, role, [feed.slot[role] EXCEPT !.ready = b, !.age = o], feed.dropped \/ d)
  /\ [World EXCEPT !.m.slot[role].ready = b, !.m.slot[role].age = o]
     = FeedMoved(feed, role, [feed.slot[role] EXCEPT !.ready = b, !.age = o], feed.dropped)
  /\ [World EXCEPT !.m.slot[role].ready = b, !.m.dropped = @ \/ d]
     = FeedMoved(feed, role, [feed.slot[role] EXCEPT !.ready = b], feed.dropped \/ d)

LEMMA WorldMoves ==
  ASSUME feed \in FeedRows, NEW role \in Roles, NEW b, NEW o, NEW d
  PROVE  HandlerMoves(role, b, o, d)
<1> DEFINE e == feed.dropped \/ d
           of(x) == [m |-> x, jobs |-> jobs, opened |-> started]
           r1 == [feed EXCEPT !.slot[role].ready = b]
           r2 == [r1 EXCEPT !.slot[role].age = o]
<1>1. World = of(feed) /\ World.m = feed /\ \A x, y : [of(x) EXCEPT !.m = y] = of(y) /\ of(x).m = x
  BY DEF World
<1> HIDE DEF of
<1>2. r1.dropped = feed.dropped /\ r2.dropped = feed.dropped
  BY DEF FeedRows
<1>3. \A x : /\ [of(x) EXCEPT !.m.slot[role].ready = b] = of([x EXCEPT !.slot[role].ready = b])
             /\ [of(x) EXCEPT !.m.slot[role].age = o] = of([x EXCEPT !.slot[role].age = o])
             /\ [of(x) EXCEPT !.m.dropped = e] = of([x EXCEPT !.dropped = e])
  BY <1>1
<1>4. [World EXCEPT !.m.slot[role].ready = b] = of(r1)
  BY <1>1, <1>3
<1>5. [World EXCEPT !.m.slot[role].ready = b, !.m.slot[role].age = o] = of(r2)
  <2>1. [World EXCEPT !.m.slot[role].ready = b, !.m.slot[role].age = o] = [of(r1) EXCEPT !.m.slot[role].age = o]
    BY <1>4
  <2> HIDE DEF r1
  <2> QED
    BY <1>3, <2>1
<1>6. [World EXCEPT !.m.slot[role].ready = b, !.m.slot[role].age = o, !.m.dropped = @ \/ d]
      = of([r2 EXCEPT !.dropped = e])
  <2>1. [World EXCEPT !.m.slot[role].ready = b, !.m.slot[role].age = o, !.m.dropped = @ \/ d]
        = [[World EXCEPT !.m.slot[role].ready = b, !.m.slot[role].age = o] EXCEPT !.m.dropped = e]
    BY <1>1 DEF e
  <2> HIDE DEF r2
  <2> QED
    BY <1>2, <1>3, <1>5, <2>1
<1>7. [World EXCEPT !.m.slot[role].ready = b, !.m.dropped = @ \/ d] = of([r1 EXCEPT !.dropped = e])
  <2>1. [World EXCEPT !.m.slot[role].ready = b, !.m.dropped = @ \/ d]
        = [[World EXCEPT !.m.slot[role].ready = b] EXCEPT !.m.dropped = e]
    BY <1>1 DEF e
  <2> HIDE DEF r1
  <2> QED
    BY <1>2, <1>3, <1>4, <2>1
<1>8. r2 = [feed EXCEPT !.slot[role].ready = b, !.slot[role].age = o]
  OBVIOUS
<1> HIDE DEF e
<1>9. /\ [r2 EXCEPT !.dropped = e] = [feed EXCEPT !.slot[role].ready = b, !.slot[role].age = o, !.dropped = e]
      /\ [r1 EXCEPT !.dropped = e] = [feed EXCEPT !.slot[role].ready = b, !.dropped = e]
  OBVIOUS
<1> HIDE DEF r1, r2
<1>10. /\ [r2 EXCEPT !.dropped = e]
          = [feed EXCEPT !.slot = [feed.slot EXCEPT ![role] = [feed.slot[role] EXCEPT !.ready = b, !.age = o]],
                         !.dropped = e]
       /\ r2 = [feed EXCEPT !.slot = [feed.slot EXCEPT ![role] = [feed.slot[role] EXCEPT !.ready = b, !.age = o]],
                            !.dropped = feed.dropped]
       /\ [r1 EXCEPT !.dropped = e]
          = [feed EXCEPT !.slot = [feed.slot EXCEPT ![role] = [feed.slot[role] EXCEPT !.ready = b]],
                         !.dropped = e]
  <2>1. MovesAre(feed, role, b, o, e)
    BY MovesOnce
  <2> QED
    BY <1>8, <1>9, <2>1 DEF MovesAre
<1> QED
  BY <1>5, <1>6, <1>7, <1>10 DEF HandlerMoves, FeedMoved, e, of

\* A running client of a slot becomes ready or not ready.
LEMMA ReadyThrough ==
  ASSUME FeedInv, NEW role \in Roles, Runs(role), NEW b \in BOOLEAN, NEW o \in 0..Oldest, NEW d \in BOOLEAN,
         feed.dropped => d, role = "active" /\ ~b => d \/ ~IsReady(feed.slot["active"]),
         NEW w,
         w = FeedMoved(feed, role, [feed.slot[role] EXCEPT !.ready = b, !.age = o], d)
  PROVE  Through(w)
<1> DEFINE s == feed.slot[role]
           new == [s EXCEPT !.ready = b, !.age = o]
           slots == [feed.slot EXCEPT ![role] = new]
           mem == [feed EXCEPT !.slot = slots, !.dropped = d]
<1>1. s \in FeedSlots /\ s.kind = "running" /\ feed \in FeedRows /\ feed.slot \in [Roles -> FeedSlots]
  BY FeedIs DEF Runs
<1>2. new \in FeedSlots
  BY <1>1, SlotIs
<1>3. new.kind = "running" /\ new.acct = s.acct
  BY <1>1 DEF FeedSlots, Empty
<1>4. w = [m |-> mem, jobs |-> jobs, opened |-> started]
  BY DEF FeedMoved
<1> HIDE DEF new
<1>5. /\ slots \in [Roles -> FeedSlots] /\ slots[role] = new
      /\ \A r \in Roles : r # role => slots[r] = feed.slot[r]
  BY <1>1, <1>2
<1> HIDE DEF slots
<1>6. mem \in FeedRows /\ mem.slot = slots /\ mem.dropped = d
  BY <1>1, <1>5 DEF FeedRows
<1> HIDE DEF mem
<1>7. w \in Worlds /\ w.m = mem /\ w.jobs = jobs /\ w.opened = started
  BY <1>4, <1>6, FeedIs DEF Worlds
<1>8. WorldOK(w)
  <2>1. WorldOK(World) /\ w.jobs = World.jobs /\ w.opened = World.opened /\ World.m = feed
    BY <1>7, FeedIs DEF Through
  <2>2. \A r \in Roles : /\ w.m.slot[r].kind = World.m.slot[r].kind
                         /\ w.m.slot[r].kind # "empty" => w.m.slot[r].acct = World.m.slot[r].acct
    BY <1>1, <1>3, <1>5, <1>6, <1>7, <2>1
  <2> QED
    BY <1>7, <2>1, <2>2, SameSlots
<1>9. MarkOK(w)
  <2>1. CASE d
    BY <1>6, <1>7, <2>1 DEF MarkOK
  <2>2. CASE ~d
    <3>1. Streaming /\ IsReady(feed.slot["active"])
      BY <2>2, FeedIs DEF Streaming
    <3>2. CASE role = "active"
      <4>1. b
        BY <2>2, <3>1, <3>2
      <4>2. new.ready = b
        BY <1>1 DEF FeedSlots, Empty, new
      <4> QED
        BY <1>3, <1>5, <1>6, <1>7, <2>2, <3>1, <3>2, <4>1, <4>2 DEF MarkOK, IsReady
    <3>3. CASE role # "active"
      BY <1>5, <1>6, <1>7, <2>2, <3>1, <3>3, RolesAre DEF MarkOK
    <3> QED
      BY <3>2, <3>3
  <2> QED
    BY <2>1, <2>2
<1> QED
  BY <1>8, <1>9 DEF Through

LEMMA ConnectsKeeps == ASSUME FeedInv, ClientReady PROVE FeedInv'
<1>1. PICK role \in Roles : Connects(role)
  BY DEF ClientReady
<1> DEFINE w == [World EXCEPT !.m.slot[role].ready = TRUE, !.m.slot[role].age = 0]
           s == feed.slot[role]
<1>2. Runs(role) /\ Reconcile(w) /\ UNCHANGED <<listed, feedTick, catalog>>
  BY <1>1 DEF Connects
<1>3. w = FeedMoved(feed, role, [s EXCEPT !.ready = TRUE, !.age = 0], feed.dropped)
  <2>1. HandlerMoves(role, TRUE, 0, FALSE)
    BY FeedIs, WorldMoves
  <2> QED
    BY <2>1 DEF HandlerMoves
<1>4. 0 \in 0..Oldest /\ feed.dropped \in BOOLEAN
  BY FeedNumbers, FeedIs
<1> HIDE DEF w
<1>5. Through(w)
  BY <1>2, <1>3, <1>4, ReadyThrough
<1> QED
  BY <1>2, <1>5, ReconcileSettles, SettledKeeps DEF FeedInv

LEMMA FeedLostKeeps == ASSUME FeedInv, ConnectionLost PROVE FeedInv'
<1>1. PICK role \in Roles :
        /\ IsReady(feed.slot[role])
        /\ Reconcile([World EXCEPT !.m.slot[role].ready = FALSE, !.m.slot[role].age = 0,
                                   !.m.dropped = @ \/ role = "active"])
        /\ UNCHANGED <<listed, feedTick, catalog>>
  BY DEF ConnectionLost
<1> DEFINE w == [World EXCEPT !.m.slot[role].ready = FALSE, !.m.slot[role].age = 0,
                              !.m.dropped = @ \/ role = "active"]
           s == feed.slot[role]
           d == feed.dropped \/ role = "active"
<1>2. Runs(role) /\ Reconcile(w) /\ UNCHANGED <<listed, feedTick, catalog>>
  BY <1>1 DEF IsReady, Runs
<1>3. w = FeedMoved(feed, role, [s EXCEPT !.ready = FALSE, !.age = 0], d)
  <2>1. HandlerMoves(role, FALSE, 0, role = "active")
    BY FeedIs, WorldMoves
  <2> QED
    BY <2>1 DEF HandlerMoves
<1>4. 0 \in 0..Oldest /\ d \in BOOLEAN /\ (feed.dropped => d) /\ (role = "active" => d)
  BY FeedNumbers, FeedIs
<1> HIDE DEF w, d
<1>5. Through(w)
  BY <1>2, <1>3, <1>4, ReadyThrough
<1> QED
  BY <1>2, <1>5, ReconcileSettles, SettledKeeps DEF FeedInv

LEMMA EndedThrough ==
  ASSUME FeedInv, NEW role \in Roles, Runs(role), NEW hold
  PROVE  Through(EndedBy(role, hold))
<1> DEFINE w == [World EXCEPT !.m.slot[role].ready = FALSE,
                              !.m.dropped = @ \/ (role = "active" /\ feed.slot[role].ready)]
           s == feed.slot[role]
           d == feed.dropped \/ (role = "active" /\ s.ready)
<1>1. s \in FeedSlots /\ s.kind = "running"
  BY FeedIs DEF Runs
<1>2. s.age \in 0..Oldest /\ [s EXCEPT !.ready = FALSE] = [s EXCEPT !.ready = FALSE, !.age = s.age]
  <2>1. s \in [kind : {"running"}, acct : ServiceAccounts, ready : BOOLEAN, subscribed : BOOLEAN,
               age : 0..Oldest]
    BY <1>1 DEF FeedSlots, Empty
  <2> HIDE DEF s
  <2> QED
    BY <2>1
<1>3. w = FeedMoved(feed, role, [s EXCEPT !.ready = FALSE], d)
  <2>1. HandlerMoves(role, FALSE, 0, role = "active" /\ s.ready)
    BY FeedIs, WorldMoves
  <2> QED
    BY <2>1 DEF HandlerMoves
<1>4. d \in BOOLEAN /\ (feed.dropped => d) /\ (role = "active" => d \/ ~IsReady(feed.slot["active"]))
  BY <1>1, FeedIs, SlotIs DEF IsReady
<1>5. EndedBy(role, hold) = Vacate(w, role, hold)
  BY DEF EndedBy
<1> HIDE DEF w, d
<1>6. Through(w)
  BY <1>2, <1>3, <1>4, ReadyThrough
<1> QED
  BY <1>5, <1>6, VacateThrough

LEMMA RejectedKeeps == ASSUME FeedInv, Rejected PROVE FeedInv'
<1>1. PICK role \in Roles :
        Runs(role) /\ Reconcile(EndedBy(role, TRUE)) /\ UNCHANGED <<listed, feedTick, catalog>>
  BY DEF Rejected
<1>2. Through(EndedBy(role, TRUE))
  BY <1>1, EndedThrough
<1> QED
  BY <1>1, <1>2, ReconcileSettles, SettledKeeps DEF FeedInv

\* The refusals and the list are no part of what a sound world says.
LEMMA OtherFields ==
  ASSUME NEW w, Through(w), NEW x \in SUBSET ServiceAccounts
  PROVE  Through([w EXCEPT !.m.recent = x]) /\ Through([w EXCEPT !.m.order = x])
<1>1. w \in Worlds /\ w.m \in FeedRows
  BY WorldIs DEF Through, WorldOK
<1>2. ASSUME NEW mem \in FeedRows, mem.slot = w.m.slot, mem.dropped = w.m.dropped,
             NEW v, v = [w EXCEPT !.m = mem]
      PROVE  Through(v)
  <2>1. v \in Worlds /\ v.m = mem /\ v.jobs = w.jobs /\ v.opened = w.opened
    BY <1>1, <1>2 DEF Worlds
  <2> QED
    BY <1>2, <2>1, SameSlots DEF Through, MarkOK
<1>3. /\ [w.m EXCEPT !.recent = x] \in FeedRows /\ [w.m EXCEPT !.recent = x].slot = w.m.slot
      /\ [w.m EXCEPT !.recent = x].dropped = w.m.dropped
      /\ [w EXCEPT !.m.recent = x] = [w EXCEPT !.m = [w.m EXCEPT !.recent = x]]
  BY <1>1 DEF FeedRows, Worlds
<1>4. /\ [w.m EXCEPT !.order = x] \in FeedRows /\ [w.m EXCEPT !.order = x].slot = w.m.slot
      /\ [w.m EXCEPT !.order = x].dropped = w.m.dropped
      /\ [w EXCEPT !.m.order = x] = [w EXCEPT !.m = [w.m EXCEPT !.order = x]]
  BY <1>1 DEF FeedRows, Worlds
<1> QED
  BY <1>2, <1>3, <1>4

LEMMA FeedRefusedKeeps == ASSUME FeedInv, TokenRefusedAgain PROVE FeedInv'
<1>1. PICK role \in Roles :
        /\ Runs(role)
        /\ Reconcile([EndedBy(role, feed.slot[role].acct \in feed.recent)
                        EXCEPT !.m.recent = @ \cup {feed.slot[role].acct}])
        /\ UNCHANGED <<listed, feedTick, catalog>>
  BY DEF TokenRefusedAgain
<1> DEFINE w == EndedBy(role, feed.slot[role].acct \in feed.recent)
           x == w.m.recent \cup {feed.slot[role].acct}
           v == [w EXCEPT !.m.recent = x]
<1>2. Through(w)
  BY <1>1, EndedThrough
<1>3. w \in Worlds /\ w.m \in FeedRows /\ w.m.recent \subseteq ServiceAccounts
  BY <1>2, WorldIs DEF Through, WorldOK
<1>4. feed.slot[role].acct \in ServiceAccounts
  BY <1>1, FeedIs, SlotIs DEF Runs
<1>5. x \in SUBSET ServiceAccounts
  BY <1>3, <1>4
<1>6. Reconcile(v)
  <2> HIDE DEF w
  <2>1. [w EXCEPT !.m.recent = @ \cup {feed.slot[role].acct}] = v
    OBVIOUS
  <2>2. Reconcile([w EXCEPT !.m.recent = @ \cup {feed.slot[role].acct}])
    BY <1>1 DEF w
  <2> HIDE DEF v
  <2> QED
    BY <2>1, <2>2
<1> HIDE DEF w, x
<1>7. Through(v)
  BY <1>2, <1>5, OtherFields
<1> HIDE DEF v
<1> QED
  BY <1>1, <1>6, <1>7, ReconcileSettles, SettledKeeps DEF FeedInv

LEMMA RunTickKeeps == ASSUME FeedInv, RunTick PROVE FeedInv'
<1>1. feedTick \in [at : {"read"}, list : SUBSET ServiceAccounts]
  BY DEF RunTick, FeedInv, FeedTicks
<1>2. CASE Reconcile([World EXCEPT !.m.order = feedTick.list]) /\ feedTick' = [at |-> "wait"]
  <2>1. Through([World EXCEPT !.m.order = feedTick.list])
    BY <1>1, FeedIs, OtherFields
  <2>2. listed' \in SUBSET ServiceAccounts /\ catalog' \in BOOLEAN /\ feedTick' \in FeedTicks
    BY <1>2 DEF RunTick, FeedInv, FeedTicks
  <2> QED
    BY <1>2, <2>1, <2>2, ReconcileSettles, SettledKeeps
<1>3. CASE feedTick' = [at |-> "none"] /\ UNCHANGED <<feed, jobs, started, missed>>
  <2>1. UNCHANGED <<feed, jobs, started, missed, listed, catalog>> /\ feedTick' \in FeedTicks
    BY <1>3 DEF RunTick, FeedTicks
  <2> QED
    BY <2>1 DEF FeedInv, World, WorldOK, AlarmOK, FailoverInTime, Streaming
<1> QED
  BY <1>2, <1>3 DEF RunTick

LEMMA DeadlineKeeps == ASSUME FeedInv, Deadline PROVE FeedInv'
<1>1. Reconcile(World) /\ UNCHANGED <<listed, feedTick, catalog>>
  BY DEF Deadline
<1>2. Through(World)
  BY FeedIs
<1> QED
  BY <1>1, <1>2, ReconcileSettles, SettledKeeps DEF FeedInv

\* The steps that leave the slots, the jobs and the clients alone.
LEMMA QuietKeeps ==
  ASSUME FeedInv, UNCHANGED <<feed, jobs, started, missed>>,
         listed' \in SUBSET ServiceAccounts, feedTick' \in FeedTicks, catalog' \in BOOLEAN
  PROVE  FeedInv'
BY DEF FeedInv, World, WorldOK, AlarmOK, FailoverInTime, Streaming

LEMMA ListKeeps == ASSUME FeedInv, ReadList \/ TickEnds \/ Relist \/ CatalogLoads PROVE FeedInv'
<1>1. listed \in SUBSET ServiceAccounts /\ feedTick \in FeedTicks /\ catalog \in BOOLEAN
  BY DEF FeedInv
<1>2. CASE ReadList
  BY <1>1, <1>2, QuietKeeps DEF ReadList, FeedTicks
<1>3. CASE TickEnds
  BY <1>1, <1>3, QuietKeeps DEF TickEnds, FeedTicks
<1>4. CASE Relist
  <2>1. listed' \in SUBSET ServiceAccounts
    BY <1>1, <1>4, DataSocketAssumption DEF Relist
  <2> QED
    BY <1>1, <1>4, <2>1, QuietKeeps DEF Relist
<1>5. CASE CatalogLoads
  BY <1>1, <1>5, QuietKeeps DEF CatalogLoads
<1> QED
  BY <1>2, <1>3, <1>4, <1>5

\* A tick reaches the ring: the mark is used up, and the feed that brought it runs.
LEMMA PriceKeeps == ASSUME FeedInv, Price PROVE FeedInv'
<1> DEFINE mem == [feed EXCEPT !.dropped = FALSE]
<1>1. /\ Streaming /\ missed' = FALSE /\ feed' = mem
      /\ UNCHANGED <<jobs, started, listed, feedTick, catalog>>
  BY DEF Price
<1>2. mem \in FeedRows /\ mem.slot = feed.slot /\ mem.alarm = feed.alarm
  BY FeedIs DEF FeedRows
<1> HIDE DEF mem
<1>3. World' = [m |-> mem, jobs |-> jobs, opened |-> started]
  BY <1>1 DEF World
<1>4. /\ World' \in Worlds /\ World'.m = mem /\ World'.jobs = World.jobs /\ World'.opened = World.opened
      /\ World.m = feed /\ WorldOK(World)
  BY <1>2, <1>3, FeedIs DEF Worlds, Through
<1>5. ASSUME NEW v, v = World' PROVE WorldOK(v) /\ AlarmOK(v)
  <2>1. v \in Worlds /\ v.m = mem /\ v.jobs = World.jobs /\ v.opened = World.opened
    BY <1>4, <1>5
  <2>2. WorldOK(v)
    BY <1>2, <1>4, <2>1, SameSlots
  <2>3. AlarmOK(v)
    BY <1>2, <1>4, <2>1 DEF FeedInv, AlarmOK
  <2> QED
    BY <2>2, <2>3
<1>6. WorldOK(World)' /\ AlarmOK(World)'
  BY <1>5 DEF WorldOK, AlarmOK
<1>7. FailoverInTime' /\ (missed' \/ ~Streaming' => feed'.dropped)
  BY <1>1, <1>2 DEF FeedInv, FailoverInTime, Streaming
<1> QED
  BY <1>1, <1>6, <1>7 DEF FeedInv

\* Time goes on: a deadline comes nearer with its timer.
LEMMA ClockKeeps == ASSUME FeedInv, Clock PROVE FeedInv'
<1>1. PICK recent \in {feed.recent, {}} :
        feed' = [feed EXCEPT !.slot = [r \in Roles |-> Aged(feed.slot[r])],
                             !.held = [a \in ServiceAccounts |-> Down(feed.held[a])],
                             !.recent = recent,
                             !.alarm = IF @ > 0 THEN @ - 1 ELSE @]
  BY DEF Clock
<1> DEFINE slots == [r \in Roles |-> Aged(feed.slot[r])]
           holds == [a \in ServiceAccounts |-> Down(feed.held[a])]
           alarm == IF feed.alarm > 0 THEN feed.alarm - 1 ELSE feed.alarm
           mem == [feed EXCEPT !.slot = slots, !.held = holds, !.recent = recent, !.alarm = alarm]
<1>2. feed' = mem
  BY <1>1
<1>3. /\ feed.alarm # 0 /\ feed \in FeedRows
      /\ UNCHANGED <<jobs, started, listed, feedTick, catalog, missed>>
  BY FeedIs DEF Clock
<1>4. \A r \in Roles :
        /\ Aged(feed.slot[r]) \in FeedSlots
        /\ Aged(feed.slot[r]).kind = feed.slot[r].kind
        /\ feed.slot[r].kind # "empty" => Aged(feed.slot[r]).acct = feed.slot[r].acct
        /\ IsReady(Aged(feed.slot[r])) <=> IsReady(feed.slot[r])
        /\ Held(Aged(feed.slot[r])) <=> Held(feed.slot[r])
        /\ Unready(Aged(feed.slot[r])) <=> Unready(feed.slot[r])
        /\ IsReady(feed.slot[r]) => Aged(feed.slot[r]) = feed.slot[r]
        /\ Unready(feed.slot[r]) =>
             Aged(feed.slot[r]).age = IF feed.slot[r].age < Oldest THEN feed.slot[r].age + 1
                                      ELSE feed.slot[r].age
  <2> TAKE r \in Roles
  <2> DEFINE s == feed.slot[r]
  <2>1. s \in FeedSlots
    BY FeedIs
  <2> HIDE DEF s
  <2>2. CASE ~(Unready(s) /\ s.age < Oldest)
    <3>1. Aged(s) = s
      BY <2>2 DEF Aged
    <3> QED
      BY <2>1, <2>2, <3>1 DEF s
  <2>3. CASE Unready(s) /\ s.age < Oldest
    <3>1. Aged(s) = [s EXCEPT !.age = s.age + 1] /\ s.kind # "empty" /\ s.age \in 0..Oldest /\ ~IsReady(s)
      BY <2>1, <2>3, SlotIs DEF Aged, Unready
    <3>2. s.age + 1 \in 0..Oldest
      BY <2>3, <3>1, FeedNumbers
    <3>3. Aged(s) \in FeedSlots
      BY <2>1, <3>1, <3>2, SlotIs
    <3>4. /\ Aged(s).kind = s.kind /\ Aged(s).acct = s.acct /\ Aged(s).age = s.age + 1
          /\ s.kind = "running" => Aged(s).ready = s.ready
      <4>1. CASE s \in [kind : {"starting"}, acct : ServiceAccounts, age : 0..Oldest]
        BY <3>1, <4>1
      <4>2. CASE s \in [kind : {"running"}, acct : ServiceAccounts, ready : BOOLEAN, subscribed : BOOLEAN,
                        age : 0..Oldest]
        BY <3>1, <4>2
      <4> QED
        BY <2>1, <3>1, <4>1, <4>2 DEF FeedSlots, Empty
    <3>5. (IsReady(Aged(s)) <=> IsReady(s)) /\ (Held(Aged(s)) <=> Held(s))
      BY <3>4 DEF IsReady, Held
    <3> QED
      BY <2>3, <3>1, <3>3, <3>4, <3>5 DEF Unready, s
  <2> QED
    BY <2>2, <2>3
<1>5. slots \in [Roles -> FeedSlots] /\ \A r \in Roles : slots[r] = Aged(feed.slot[r])
  BY <1>4
<1> HIDE DEF slots
<1>6. holds \in [ServiceAccounts -> 0..Retry]
  <2>1. feed.held \in [ServiceAccounts -> 0..Retry] /\ Retry \in Nat
    BY <1>3, FeedNumbers DEF FeedRows
  <2> QED
    BY <2>1 DEF Down
<1> HIDE DEF holds
<1>7. feed.alarm \in NoAlarm..ReserveReady /\ alarm \in NoAlarm..ReserveReady
  BY <1>3, FeedNumbers DEF FeedRows
<1> HIDE DEF alarm
<1>8. recent \subseteq ServiceAccounts
  BY <1>3 DEF FeedRows
<1>9. mem \in FeedRows /\ mem.slot = slots /\ mem.alarm = alarm /\ mem.dropped = feed.dropped
  BY <1>3, <1>5, <1>6, <1>7, <1>8 DEF FeedRows
<1> HIDE DEF mem
<1>10. World' = [m |-> mem, jobs |-> jobs, opened |-> started]
  BY <1>2, <1>3 DEF World
<1>11. ASSUME NEW v, v = World' PROVE WorldOK(v) /\ AlarmOK(v)
  <2>1. /\ v \in Worlds /\ v.m = mem /\ v.jobs = World.jobs /\ v.opened = World.opened
        /\ World.m = feed /\ WorldOK(World)
    BY <1>9, <1>10, <1>11, FeedIs DEF Worlds, Through
  <2>2. \A r \in Roles : /\ v.m.slot[r].kind = World.m.slot[r].kind
                         /\ v.m.slot[r].kind # "empty" => v.m.slot[r].acct = World.m.slot[r].acct
    BY <1>4, <1>5, <1>9, <2>1
  <2>3. WorldOK(v)
    BY <2>1, <2>2, SameSlots
  <2>4. AlarmOK(v)
    <3> SUFFICES ASSUME NEW r \in Roles, Unready(v.m.slot[r]), v.m.slot[r].age < Limit(r)
                 PROVE  v.m.alarm # NoAlarm /\ v.m.alarm <= Limit(r) - v.m.slot[r].age
      BY DEF AlarmOK
    <3> DEFINE age == feed.slot[r].age
    <3>1. Unready(feed.slot[r]) /\ v.m.slot[r].age = IF age < Oldest THEN age + 1 ELSE age
      BY <1>4, <1>5, <1>9, <2>1
    <3>2. age \in 0..Oldest
      BY <2>1, <3>1, WorldSlots
    <3> HIDE DEF age
    <3>3. age < Limit(r) /\ age < Oldest /\ v.m.slot[r].age = age + 1
      BY <3>1, <3>2, FeedNumbers
    <3>4. feed.alarm # NoAlarm /\ feed.alarm <= Limit(r) - age
      BY <2>1, <3>1, <3>3 DEF FeedInv, AlarmOK, age
    <3>5. feed.alarm > 0 /\ alarm = feed.alarm - 1
      BY <1>3, <1>7, <3>4, FeedNumbers DEF alarm
    <3>6. v.m.alarm = alarm
      BY <1>9, <2>1
    <3> QED
      BY <1>7, <3>2, <3>3, <3>4, <3>5, <3>6, FeedNumbers
  <2> QED
    BY <2>3, <2>4
<1>12. WorldOK(World)' /\ AlarmOK(World)'
  BY <1>11 DEF WorldOK, AlarmOK
<1>13. FailoverInTime'
  <2> SUFFICES ASSUME IsReady(slots["reserve"]), ~IsReady(slots["active"])
               PROVE  Held(slots["active"]) /\ (slots["active"].age < FailoverGrace \/ alarm = 0)
    BY <1>2, <1>9 DEF FailoverInTime, Streaming
  <2> DEFINE age == feed.slot["active"].age
  <2>1. IsReady(feed.slot["reserve"]) /\ ~Streaming
    BY <1>4, <1>5, RolesAre DEF Streaming
  <2>2. Held(feed.slot["active"]) /\ age < FailoverGrace
    BY <1>3, <2>1 DEF FeedInv, FailoverInTime
  <2>3. Unready(feed.slot["active"]) /\ ~IsReady(feed.slot["active"])
    BY <2>1, <2>2 DEF Unready, Streaming
  <2>4. age \in 0..Oldest
    BY <2>2, FeedIs, SlotIs, RolesAre
  <2>5. Held(slots["active"]) /\ slots["active"].age = IF age < Oldest THEN age + 1 ELSE age
    BY <1>4, <1>5, <2>2, <2>3, RolesAre
  <2>6. World.m = feed /\ Limit("active") = FailoverGrace /\ "active" \in Roles
    BY FeedIs, RolesAre DEF Limit
  <2>7. feed.alarm # NoAlarm /\ feed.alarm <= FailoverGrace - age
    BY <2>2, <2>3, <2>6 DEF FeedInv, AlarmOK
  <2> HIDE DEF age
  <2>8. feed.alarm > 0 /\ alarm = feed.alarm - 1
    BY <1>3, <1>7, <2>7, FeedNumbers DEF alarm
  <2> QED
    BY <1>7, <2>2, <2>4, <2>5, <2>7, <2>8, FeedNumbers
<1>14. missed' \/ ~Streaming' => feed'.dropped
  <2>1. Streaming' <=> Streaming
    BY <1>2, <1>4, <1>5, <1>9, RolesAre DEF Streaming
  <2> QED
    BY <1>2, <1>3, <1>9, <2>1, FeedIs
<1> QED
  BY <1>3, <1>12, <1>13, <1>14 DEF FeedInv

\* The job of an answer is over; a start that it belongs to is still there.
LEMMA JobOver ==
  ASSUME FeedInv, NEW job \in jobs, NEW w, w = [World EXCEPT !.jobs = @ \ {job}]
  PROVE  /\ w \in Worlds /\ w.m = feed /\ w.jobs = jobs \ {job} /\ w.opened = started
         /\ job \in FeedJobs /\ job.role \in Roles /\ job.acct \in ServiceAccounts
         /\ job.late => WorldOK(w)
         /\ ~job.late => /\ feed.slot[job.role].kind = "starting" /\ feed.slot[job.role].acct = job.acct
                         /\ \A j \in w.jobs : ~j.late => j.role # job.role
<1>1. /\ World \in Worlds /\ WorldOK(World) /\ World.m = feed /\ World.jobs = jobs /\ World.opened = started
      /\ jobs \subseteq FeedJobs
  BY FeedIs DEF Through, WorldOK
<1>2. w \in Worlds /\ w.m = feed /\ w.jobs = jobs \ {job} /\ w.opened = started
  BY <1>1 DEF Worlds
<1>3. job \in FeedJobs /\ job.role \in Roles /\ job.acct \in ServiceAccounts
  BY <1>1 DEF FeedJobs
<1>4. /\ \A j \in jobs : ~j.late => feed.slot[j.role].kind = "starting" /\ feed.slot[j.role].acct = j.acct
      /\ \A r \in Roles :
           feed.slot[r].kind = "starting" => [role |-> r, acct |-> feed.slot[r].acct, late |-> FALSE] \in jobs
      /\ \A a \in ServiceAccounts :
           started[a] = IF \E r \in Roles : feed.slot[r].kind = "running" /\ feed.slot[r].acct = a THEN 1 ELSE 0
      /\ \A r \in Roles :
           Held(feed.slot[r]) /\ Held(feed.slot[Other(r)]) => feed.slot[r].acct # feed.slot[Other(r)].acct
  BY <1>1 DEF WorldOK
<1>5. job.late => \A r \in Roles : \A a : [role |-> r, acct |-> a, late |-> FALSE] # job
  OBVIOUS
<1>6. ASSUME job.late PROVE WorldOK(w)
  <2>1. \A j \in w.jobs : ~j.late => w.m.slot[j.role].kind = "starting" /\ w.m.slot[j.role].acct = j.acct
    BY <1>2, <1>4
  <2>2. \A r \in Roles :
          w.m.slot[r].kind = "starting" => [role |-> r, acct |-> w.m.slot[r].acct, late |-> FALSE] \in w.jobs
    BY <1>2, <1>4, <1>5, <1>6
  <2>3. \A a \in ServiceAccounts :
          w.opened[a] = IF \E r \in Roles : w.m.slot[r].kind = "running" /\ w.m.slot[r].acct = a THEN 1 ELSE 0
    BY <1>2, <1>4
  <2>4. \A r \in Roles :
          Held(w.m.slot[r]) /\ Held(w.m.slot[Other(r)]) => w.m.slot[r].acct # w.m.slot[Other(r)].acct
    BY <1>2, <1>4
  <2> QED
    BY <1>2, <2>1, <2>2, <2>3, <2>4 DEF WorldOK
<1>7. ASSUME ~job.late, NEW j \in w.jobs, ~j.late, j.role = job.role PROVE FALSE
  <2>1. j \in jobs /\ j # job /\ j \in FeedJobs
    BY <1>1, <1>2
  <2>2. j.acct = job.acct
    BY <1>4, <1>7, <2>1
  <2>3. j = [role |-> j.role, acct |-> j.acct, late |-> j.late] /\ j.late = FALSE
    BY <1>7, <2>1 DEF FeedJobs
  <2>4. job = [role |-> job.role, acct |-> job.acct, late |-> job.late] /\ job.late = FALSE
    BY <1>3, <1>7 DEF FeedJobs
  <2> QED
    BY <1>7, <2>1, <2>2, <2>3, <2>4
<1> QED
  BY <1>2, <1>3, <1>4, <1>6, <1>7

\* The slot of an answered start takes what the answer makes of it: a client or nothing.
LEMMA AnswerThrough ==
  ASSUME FeedInv, NEW job \in jobs, ~job.late, NEW s \in FeedSlots, s.kind # "starting",
         s.kind = "running" => s.acct = job.acct /\ ~s.ready,
         NEW mem \in FeedRows, mem.slot = [feed.slot EXCEPT ![job.role] = s], mem.dropped = feed.dropped,
         NEW v, v = [m |-> mem, jobs |-> jobs \ {job},
                     opened |-> IF s.kind = "running" THEN [started EXCEPT ![job.acct] = @ + 1] ELSE started]
  PROVE  Through(v)
<1> DEFINE role == job.role
           o == feed.slot[Other(role)]
           w == [World EXCEPT !.jobs = @ \ {job}]
           opens == IF s.kind = "running" THEN [started EXCEPT ![job.acct] = @ + 1] ELSE started
<1>1. /\ w.jobs = jobs \ {job} /\ job \in FeedJobs /\ role \in Roles /\ job.acct \in ServiceAccounts
      /\ feed.slot[role].kind = "starting" /\ feed.slot[role].acct = job.acct
      /\ \A j \in w.jobs : ~j.late => j.role # role
  BY JobOver
<1> HIDE DEF w
<1>2. /\ Other(role) \in Roles /\ Other(role) # role /\ \A r \in Roles : r = role \/ r = Other(role)
      /\ Other(Other(role)) = role
  BY <1>1, RolesAre
<1>3. /\ WorldOK(World) /\ World.m = feed /\ World.jobs = jobs /\ World.opened = started
      /\ jobs \subseteq FeedJobs /\ started \in [ServiceAccounts -> Nat]
      /\ feed.slot \in [Roles -> FeedSlots] /\ o \in FeedSlots
  BY <1>2, FeedIs DEF Through
<1>4. /\ \A j \in jobs : ~j.late => feed.slot[j.role].kind = "starting" /\ feed.slot[j.role].acct = j.acct
      /\ \A r \in Roles :
           feed.slot[r].kind = "starting" => [role |-> r, acct |-> feed.slot[r].acct, late |-> FALSE] \in jobs
      /\ \A a \in ServiceAccounts :
           started[a] = IF \E r \in Roles : feed.slot[r].kind = "running" /\ feed.slot[r].acct = a THEN 1 ELSE 0
      /\ \A r \in Roles :
           Held(feed.slot[r]) /\ Held(feed.slot[Other(r)]) => feed.slot[r].acct # feed.slot[Other(r)].acct
  BY <1>3 DEF WorldOK
<1>5. mem.slot[role] = s /\ mem.slot[Other(role)] = o
  BY <1>1, <1>2, <1>3
<1>6. o.kind # "empty" => o.acct # job.acct
  BY <1>1, <1>2, <1>4 DEF Held
<1>7. \A a \in ServiceAccounts :
        /\ started[a] = IF o.kind = "running" /\ o.acct = a THEN 1 ELSE 0
        /\ opens[a] = IF (s.kind = "running" /\ s.acct = a) \/ (o.kind = "running" /\ o.acct = a) THEN 1 ELSE 0
  <2> TAKE a \in ServiceAccounts
  <2>1. started[a] = IF o.kind = "running" /\ o.acct = a THEN 1 ELSE 0
    BY <1>1, <1>2, <1>4
  <2> HIDE DEF o, role
  <2>2. CASE s.kind = "running" /\ a = job.acct
    BY <1>1, <1>3, <1>6, <2>1, <2>2
  <2>3. CASE ~(s.kind = "running" /\ a = job.acct)
    BY <1>1, <1>3, <2>1, <2>3
  <2> QED
    BY <2>1, <2>2, <2>3
<1>8. opens \in [ServiceAccounts -> Nat]
  BY <1>1, <1>3
<1> HIDE DEF opens
<1>9. v \in Worlds /\ v.m = mem /\ v.jobs = jobs \ {job} /\ v.opened = opens
  <2>1. jobs \ {job} \in SUBSET FeedJobs
    BY <1>3
  <2> DEFINE rest == jobs \ {job}
  <2>2. v = [m |-> mem, jobs |-> rest, opened |-> opens]
    BY DEF opens
  <2>3. rest \in SUBSET FeedJobs
    BY <2>1
  <2> HIDE DEF rest
  <2>4. v.m = mem /\ v.jobs = rest /\ v.opened = opens
    BY <2>2
  <2>5. \A x \in FeedRows, y \in SUBSET FeedJobs, z \in [ServiceAccounts -> Nat] :
          [m |-> x, jobs |-> y, opened |-> z] \in Worlds
    BY DEF Worlds
  <2>6. v \in Worlds
    BY <1>8, <2>2, <2>3, <2>5
  <2> QED
    BY <2>4, <2>6 DEF rest
<1> HIDE DEF o, role
<1>10. \A j \in v.jobs : ~j.late => v.m.slot[j.role].kind = "starting" /\ v.m.slot[j.role].acct = j.acct
  <2> SUFFICES ASSUME NEW j \in jobs \ {job}, ~j.late
               PROVE  mem.slot[j.role].kind = "starting" /\ mem.slot[j.role].acct = j.acct
    BY <1>9
  <2>1. j.role # role /\ j.role \in Roles
    BY <1>1, <1>3 DEF FeedJobs
  <2>2. j.role = Other(role)
    BY <1>2, <2>1
  <2> QED
    BY <1>4, <1>5, <2>2 DEF o
<1>11. \A r \in Roles :
         v.m.slot[r].kind = "starting" => [role |-> r, acct |-> v.m.slot[r].acct, late |-> FALSE] \in v.jobs
  <2> SUFFICES ASSUME NEW r \in Roles, mem.slot[r].kind = "starting"
               PROVE  [role |-> r, acct |-> mem.slot[r].acct, late |-> FALSE] \in jobs \ {job}
    BY <1>9
  <2>1. r = Other(role) /\ r # role /\ mem.slot[r] = feed.slot[r]
    BY <1>2, <1>5 DEF o
  <2>2. [role |-> r, acct |-> mem.slot[r].acct, late |-> FALSE] \in jobs
    BY <1>4, <2>1
  <2> QED
    BY <2>1, <2>2 DEF role
<1>12. \A a \in ServiceAccounts :
         v.opened[a] = IF \E r \in Roles : v.m.slot[r].kind = "running" /\ v.m.slot[r].acct = a THEN 1 ELSE 0
  <2> TAKE a \in ServiceAccounts
  <2>1. (\E r \in Roles : mem.slot[r].kind = "running" /\ mem.slot[r].acct = a)
        <=> (s.kind = "running" /\ s.acct = a) \/ (o.kind = "running" /\ o.acct = a)
    BY <1>1, <1>2, <1>5 DEF role
  <2> QED
    BY <1>7, <1>9, <2>1
<1>13. \A r \in Roles :
         Held(v.m.slot[r]) /\ Held(v.m.slot[Other(r)]) => v.m.slot[r].acct # v.m.slot[Other(r)].acct
  <2>1. Held(s) /\ Held(o) => s.acct # o.acct
    <3>1. s.kind \in {"empty", "starting", "running"}
      BY SlotIs
    <3> QED
      BY <1>6, <3>1 DEF Held
  <2> QED
    BY <1>1, <1>2, <1>5, <1>9, <2>1
<1>14. MarkOK(v)
  <2>1. CASE role = "active"
    BY <1>1, <1>9, <2>1, FeedIs DEF MarkOK, Streaming, IsReady, role
  <2>2. CASE role # "active"
    <3>1. mem.slot["active"] = feed.slot["active"]
      BY <1>2, <1>5, <2>2, RolesAre DEF o
    <3> QED
      BY <1>9, <3>1, FeedIs DEF MarkOK, Streaming
  <2> QED
    BY <2>1, <2>2
<1> QED
  BY <1>9, <1>10, <1>11, <1>12, <1>13, <1>14 DEF Through, WorldOK

\* The assignments of an answer, taken together.
AnswerMoves(job, s) ==
  LET w == [World EXCEPT !.jobs = @ \ {job}]
      rest == jobs \ {job}
  IN /\ [w EXCEPT !.m.slot[job.role] = s, !.m.fresh = catalog, !.opened[job.acct] = @ + 1]
        = [m |-> [feed EXCEPT !.slot[job.role] = s, !.fresh = catalog], jobs |-> rest,
           opened |-> [started EXCEPT ![job.acct] = @ + 1]]
     /\ [w EXCEPT !.m.slot[job.role] = s, !.m.held[job.acct] = Retry]
        = [m |-> [feed EXCEPT !.slot[job.role] = s, !.held[job.acct] = Retry], jobs |-> rest,
           opened |-> started]

LEMMA AnswerMove ==
  ASSUME NEW job, NEW s
  PROVE  AnswerMoves(job, s)
<1> DEFINE w == [World EXCEPT !.jobs = @ \ {job}]
           rest == jobs \ {job}
           of(x, z) == [m |-> x, jobs |-> rest, opened |-> z]
           more == [started EXCEPT ![job.acct] = @ + 1]
<1>1. w = of(feed, started)
  BY DEF World
<1>2. \A x, y, z : [of(x, z) EXCEPT !.m = y] = of(y, z) /\ of(x, z).m = x /\ of(x, z).opened = z
  OBVIOUS
<1>3. \A x, y, z : [of(x, z) EXCEPT !.opened = y] = of(x, y)
  OBVIOUS
<1> HIDE DEF of, w
<1>4. \A x, z : /\ [of(x, z) EXCEPT !.m.slot[job.role] = s] = of([x EXCEPT !.slot[job.role] = s], z)
                /\ [of(x, z) EXCEPT !.m.fresh = catalog] = of([x EXCEPT !.fresh = catalog], z)
                /\ [of(x, z) EXCEPT !.m.held[job.acct] = Retry] = of([x EXCEPT !.held[job.acct] = Retry], z)
  BY <1>2
<1> DEFINE r1 == [feed EXCEPT !.slot[job.role] = s]
           r2 == [r1 EXCEPT !.fresh = catalog]
           r3 == [r1 EXCEPT !.held[job.acct] = Retry]
<1>5. [w EXCEPT !.m.slot[job.role] = s] = of(r1, started)
  BY <1>1, <1>4
<1>6. [w EXCEPT !.m.slot[job.role] = s, !.m.fresh = catalog] = of(r2, started)
  <2>1. [w EXCEPT !.m.slot[job.role] = s, !.m.fresh = catalog]
        = [[w EXCEPT !.m.slot[job.role] = s] EXCEPT !.m.fresh = catalog]
    OBVIOUS
  <2> HIDE DEF r1
  <2>2. [of(r1, started) EXCEPT !.m.fresh = catalog] = of(r2, started)
    BY <1>4
  <2> HIDE DEF r2
  <2> QED
    BY <1>5, <2>1, <2>2
<1>7. [w EXCEPT !.m.slot[job.role] = s, !.m.held[job.acct] = Retry] = of(r3, started)
  <2>1. [w EXCEPT !.m.slot[job.role] = s, !.m.held[job.acct] = Retry]
        = [[w EXCEPT !.m.slot[job.role] = s] EXCEPT !.m.held[job.acct] = Retry]
    OBVIOUS
  <2> HIDE DEF r1
  <2>2. [of(r1, started) EXCEPT !.m.held[job.acct] = Retry] = of(r3, started)
    BY <1>4
  <2> HIDE DEF r3
  <2> QED
    BY <1>5, <2>1, <2>2
<1>8. [w EXCEPT !.m.slot[job.role] = s, !.m.fresh = catalog, !.opened[job.acct] = @ + 1] = of(r2, more)
  <2>1. w.opened = started
    BY <1>1, <1>2
  <2>2. [w EXCEPT !.m.slot[job.role] = s, !.m.fresh = catalog, !.opened[job.acct] = @ + 1]
        = [[w EXCEPT !.m.slot[job.role] = s, !.m.fresh = catalog]
              EXCEPT !.opened[job.acct] = w.opened[job.acct] + 1]
    OBVIOUS
  <2>3. \A x, z, y : [of(x, z) EXCEPT !.opened[job.acct] = y] = of(x, [z EXCEPT ![job.acct] = y])
    BY <1>2, <1>3
  <2>4. [of(r2, started) EXCEPT !.opened[job.acct] = started[job.acct] + 1] = of(r2, more)
    BY <2>3
  <2> HIDE DEF r2, more
  <2> QED
    BY <1>6, <2>1, <2>2, <2>4
<1>9. /\ r2 = [feed EXCEPT !.slot[job.role] = s, !.fresh = catalog]
      /\ r3 = [feed EXCEPT !.slot[job.role] = s, !.held[job.acct] = Retry]
  OBVIOUS
<1> HIDE DEF r2, r3
<1> QED
  BY <1>7, <1>8, <1>9 DEF AnswerMoves, w, of

\* A token's client takes the start's slot; a failed start leaves it empty.
LEMMA TokenKeeps == ASSUME FeedInv, TokenAnswer PROVE FeedInv'
<1>1. PICK job \in jobs :
        LET w == [World EXCEPT !.jobs = @ \ {job}]
        IN /\ IF Taken(job)
              THEN \/ Reconcile(Opened(w, job))
                   \/ Reconcile([w EXCEPT !.m.slot[job.role] = Empty, !.m.held[job.acct] = Retry])
              ELSE Become(w)
           /\ UNCHANGED <<listed, feedTick, catalog>>
  BY DEF TokenAnswer
<1> DEFINE w == [World EXCEPT !.jobs = @ \ {job}]
           age == IF w.m.slot[job.role].kind = "starting" THEN w.m.slot[job.role].age ELSE 0
           new == [kind |-> "running", acct |-> job.acct, ready |-> FALSE, subscribed |-> FALSE, age |-> age]
           mem == [feed EXCEPT !.slot[job.role] = new, !.fresh = catalog]
           gone == [feed EXCEPT !.slot[job.role] = Empty, !.held[job.acct] = Retry]
           open == [w EXCEPT !.m.slot[job.role] = new, !.m.fresh = catalog, !.opened[job.acct] = @ + 1]
           fail == [w EXCEPT !.m.slot[job.role] = Empty, !.m.held[job.acct] = Retry]
<1>2. /\ w.m = feed /\ job.role \in Roles /\ job.acct \in ServiceAccounts
      /\ job.late => WorldOK(w)
      /\ ~job.late => feed.slot[job.role].kind = "starting"
  BY JobOver
<1>3. /\ feed \in FeedRows /\ feed.slot[job.role] \in FeedSlots /\ feed.slot \in [Roles -> FeedSlots]
      /\ feed.held \in [ServiceAccounts -> 0..Retry] /\ catalog \in BOOLEAN /\ Retry \in 0..Retry
  BY <1>2, FeedIs, FeedNumbers DEF FeedInv, FeedRows
<1>4. /\ listed' \in SUBSET ServiceAccounts /\ feedTick' \in FeedTicks /\ catalog' \in BOOLEAN
  BY <1>1 DEF FeedInv
<1>5. CASE job.late
  <2>1. Become(w)
    BY <1>1, <1>5 DEF Taken
  <2> HIDE DEF w
  <2>2. /\ feed' = feed /\ jobs' = w.jobs /\ started' = w.opened
        /\ missed' = (missed \/ ~Streaming)
    BY <1>2, <2>1 DEF Become, Streaming
  <2>3. [m |-> feed', jobs |-> jobs', opened |-> started'] = w
    BY <1>2, <1>5, <2>2 DEF WorldOK, Worlds
  <2>4. World' = w
    BY <2>3 DEF World
  <2>5. WorldOK(World)'
    BY <1>2, <1>5, <2>4 DEF WorldOK
  <2>6. AlarmOK(World)'
    BY <1>2, <2>4, FeedIs DEF FeedInv, AlarmOK
  <2>7. FailoverInTime' /\ missed' \in BOOLEAN /\ (missed' \/ ~Streaming' => feed'.dropped)
    BY <2>2 DEF FeedInv, FailoverInTime, Streaming
  <2>8. Settled'
    BY <2>5, <2>6, <2>7 DEF Settled
  <2> QED
    BY <1>4, <2>8, SettledKeeps
<1>6. CASE ~job.late
  <2>1. age \in 0..Oldest
    BY <1>2, <1>3, <1>6, SlotIs
  <2> HIDE DEF age
  <2>2. new \in FeedSlots /\ new.kind = "running" /\ new.acct = job.acct /\ ~new.ready
    BY <1>2, <2>1 DEF FeedSlots
  <2>3. Empty \in FeedSlots /\ Empty.kind = "empty"
    BY DEF FeedSlots, Empty
  <2>4. open = [m |-> mem, jobs |-> jobs \ {job}, opened |-> [started EXCEPT ![job.acct] = @ + 1]]
    <3>1. AnswerMoves(job, new)
      BY AnswerMove
    <3> HIDE DEF new
    <3> QED
      BY <3>1 DEF AnswerMoves
  <2>5. fail = [m |-> gone, jobs |-> jobs \ {job}, opened |-> started]
    <3>1. AnswerMoves(job, Empty)
      BY AnswerMove
    <3> QED
      BY <3>1 DEF AnswerMoves
  <2>6. Opened(w, job) = SubscribeNew(open)
    BY DEF Opened, age
  <2>7. Reconcile(SubscribeNew(open)) \/ Reconcile(fail)
    <3>1. Reconcile(Opened(w, job)) \/ Reconcile(fail)
      BY <1>1, <1>6 DEF Taken
    <3> HIDE DEF open, fail, w
    <3> QED
      BY <2>6, <3>1
  <2> HIDE DEF w, open, fail, new
  <2>8. /\ mem \in FeedRows /\ mem.slot = [feed.slot EXCEPT ![job.role] = new] /\ mem.dropped = feed.dropped
    BY <1>2, <1>3, <2>2 DEF FeedRows
  <2>9. /\ gone \in FeedRows /\ gone.slot = [feed.slot EXCEPT ![job.role] = Empty]
        /\ gone.dropped = feed.dropped
    <3>1. [feed.held EXCEPT ![job.acct] = Retry] \in [ServiceAccounts -> 0..Retry]
      BY <1>2, <1>3
    <3>2. [feed.slot EXCEPT ![job.role] = Empty] \in [Roles -> FeedSlots]
      BY <1>2, <1>3, <2>3
    <3> QED
      BY <1>3, <3>1, <3>2 DEF FeedRows
  <2> HIDE DEF mem, gone
  <2>10. CASE Reconcile(SubscribeNew(open))
    <3>1. Through(open)
      BY <1>6, <2>2, <2>4, <2>8, AnswerThrough
    <3>2. Through(SubscribeNew(open))
      <4>1. /\ WorldOK(SubscribeNew(open)) /\ SubscribeNew(open).m.dropped = open.m.dropped
            /\ \A r \in Roles :
                 /\ SubscribeNew(open).m.slot[r].kind = open.m.slot[r].kind
                 /\ SubscribeNew(open).m.slot[r].kind # "empty" =>
                      SubscribeNew(open).m.slot[r].acct = open.m.slot[r].acct
                 /\ SubscribeNew(open).m.slot[r].kind = "running" =>
                      SubscribeNew(open).m.slot[r].ready = open.m.slot[r].ready
        BY <3>1, SubscribeOK DEF Through
      <4> QED
        BY <3>1, <4>1, RolesAre DEF Through, MarkOK, IsReady
    <3> QED
      BY <1>4, <2>10, <3>2, ReconcileSettles, SettledKeeps
  <2>11. CASE Reconcile(fail)
    <3>1. Through(fail)
      BY <1>6, <2>3, <2>5, <2>9, AnswerThrough
    <3> QED
      BY <1>4, <2>11, <3>1, ReconcileSettles, SettledKeeps
  <2> QED
    BY <2>7, <2>10, <2>11
<1>7. job.late \in BOOLEAN
  <2>1. job \in FeedJobs
    BY JobOver
  <2> QED
    BY <2>1 DEF FeedJobs
<1> QED
  BY <1>5, <1>6

-----------------------------------------------------------------------------
LEMMA FeedNextKeeps == ASSUME FeedInv, FeedNext PROVE FeedInv'
BY ConnectsKeeps, FeedLostKeeps, RejectedKeeps, FeedRefusedKeeps, RunTickKeeps, DeadlineKeeps, ListKeeps,
   PriceKeeps, ClockKeeps, TokenKeeps DEF FeedNext

LEMMA FeedStays == ASSUME FeedInv, UNCHANGED feedVars PROVE FeedInv'
<1>1. UNCHANGED <<feed, jobs, started, listed, feedTick, catalog, missed>>
  BY DEF feedVars
<1> QED
  BY <1>1, QuietKeeps DEF FeedInv

LEMMA FeedStarts == FeedInit => FeedInv
<1> SUFFICES ASSUME FeedInit PROVE FeedInv
  OBVIOUS
<1> DEFINE mem == [slot |-> [r \in Roles |-> Empty], held |-> [a \in ServiceAccounts |-> 0],
                   recent |-> {}, order |-> {}, fresh |-> FALSE, alarm |-> NoAlarm, dropped |-> TRUE]
<1>1. /\ feed = mem /\ jobs = {} /\ started = [a \in ServiceAccounts |-> 0] /\ listed = ServiceAccounts
      /\ feedTick = [at |-> "none"] /\ catalog = FALSE /\ missed = FALSE
  BY DEF FeedInit
<1>2. Empty \in FeedSlots /\ ~Held(Empty) /\ ~IsReady(Empty) /\ ~Unready(Empty) /\ Empty.kind = "empty"
  BY DEF FeedSlots, Empty, Held, IsReady, Unready
<1>3. mem \in FeedRows /\ (\A r \in Roles : mem.slot[r] = Empty) /\ mem.dropped = TRUE
  BY <1>2, FeedNumbers DEF FeedRows
<1> HIDE DEF mem
<1>4. /\ World = [m |-> mem, jobs |-> {}, opened |-> [a \in ServiceAccounts |-> 0]]
      /\ World \in Worlds /\ World.m = mem /\ World.jobs = {}
      /\ \A a \in ServiceAccounts : World.opened[a] = 0
  BY <1>1, <1>3 DEF World, Worlds
<1>5. WorldOK(World)
  BY <1>2, <1>3, <1>4, RolesAre DEF WorldOK
<1>6. AlarmOK(World)
  BY <1>2, <1>3, <1>4 DEF AlarmOK
<1>7. FailoverInTime /\ (missed \/ ~Streaming => feed.dropped)
  BY <1>1, <1>2, <1>3, RolesAre DEF FailoverInTime
<1> QED
  BY <1>1, <1>5, <1>6, <1>7 DEF FeedInv, FeedTicks

LEMMA FeedIsSafe == FeedInv => FeedSafe
<1> SUFFICES ASSUME FeedInv PROVE FeedSafe
  OBVIOUS
<1>1. /\ WorldOK(World) /\ World.m = feed /\ World.jobs = jobs /\ World.opened = started
      /\ feed \in FeedRows /\ jobs \subseteq FeedJobs /\ \A r \in Roles : feed.slot[r] \in FeedSlots
  BY FeedIs DEF Through
<1>2. /\ \A j \in jobs : ~j.late => feed.slot[j.role].kind = "starting" /\ feed.slot[j.role].acct = j.acct
      /\ \A r \in Roles :
           feed.slot[r].kind = "starting" => [role |-> r, acct |-> feed.slot[r].acct, late |-> FALSE] \in jobs
      /\ \A a \in ServiceAccounts :
           started[a] = IF \E r \in Roles : feed.slot[r].kind = "running" /\ feed.slot[r].acct = a THEN 1 ELSE 0
      /\ \A r \in Roles :
           Held(feed.slot[r]) /\ Held(feed.slot[Other(r)]) => feed.slot[r].acct # feed.slot[Other(r)].acct
  BY <1>1 DEF WorldOK
<1>3. DataSocketTypeOK
  <2>1. feed.alarm \in NoAlarm..ReserveReady /\ feed.order \subseteq ServiceAccounts
    BY <1>1 DEF FeedRows
  <2>2. ASSUME NEW r \in Roles, Held(feed.slot[r])
        PROVE  /\ feed.slot[r].acct \in ServiceAccounts /\ feed.slot[r].age \in 0..Oldest
               /\ feed.slot[r].kind = "starting" <=>
                    \E j \in jobs : j.role = r /\ ~j.late /\ j.acct = feed.slot[r].acct
    <3>1. feed.slot[r].acct \in ServiceAccounts /\ feed.slot[r].age \in 0..Oldest
      BY <1>1, <2>2, SlotIs
    <3>2. ASSUME feed.slot[r].kind = "starting"
          PROVE  \E j \in jobs : j.role = r /\ ~j.late /\ j.acct = feed.slot[r].acct
      <4> DEFINE j == [role |-> r, acct |-> feed.slot[r].acct, late |-> FALSE]
      <4>1. j \in jobs /\ j.role = r /\ ~j.late /\ j.acct = feed.slot[r].acct
        BY <1>2, <3>2
      <4> QED
        BY <4>1
    <3>3. ASSUME NEW j \in jobs, j.role = r, ~j.late PROVE feed.slot[r].kind = "starting"
      BY <1>2, <3>3
    <3> QED
      BY <3>1, <3>2, <3>3
  <2> QED
    BY <2>1, <2>2 DEF DataSocketTypeOK
<1>4. ClientsAreHeld
  <2> SUFFICES ASSUME NEW a \in ServiceAccounts
               PROVE  /\ started[a] = Cardinality({r \in Roles : Runs(r) /\ feed.slot[r].acct = a})
                      /\ started[a] <= 1
    BY DEF ClientsAreHeld
  <2> DEFINE S == {r \in Roles : Runs(r) /\ feed.slot[r].acct = a}
  <2>1. CASE S = {}
    <3>1. started[a] = 0
      BY <1>2, <2>1 DEF Runs
    <3> QED
      BY <2>1, <3>1, FS_EmptySet
  <2>2. CASE S # {}
    <3>1. PICK r \in S : TRUE
      BY <2>2
    <3>2. \A q \in S : q = r
      <4> SUFFICES ASSUME NEW q \in S, q # r PROVE FALSE
        OBVIOUS
      <4>1. q = Other(r) /\ Held(feed.slot[r]) /\ Held(feed.slot[q])
        BY <3>1, RolesAre DEF Runs, Held
      <4> QED
        BY <1>2, <3>1, <4>1
    <3>3. S = {r}
      BY <3>1, <3>2
    <3>4. started[a] = 1
      BY <1>2, <3>1 DEF Runs
    <3> HIDE DEF S
    <3>5. Cardinality(S) = 1
      BY <3>3, FS_Singleton
    <3> QED
      BY <3>4, <3>5 DEF S
  <2> QED
    BY <2>1, <2>2
<1>5. HoleIsMarked /\ FailoverInTime
  BY DEF FeedInv, HoleIsMarked
<1> QED
  BY <1>3, <1>4, <1>5 DEF FeedSafe

\* Whatever the tokens, the clients, the lists and the clock do and in whatever order: a client that
\* runs is in exactly one slot, a ready reserve takes over within the grace, and the ring is told of
\* every pause of the feed (market-data/manager.ts).
THEOREM FeedStaysSafe == FeedSpec => []FeedSafe
<1>1. FeedInv /\ [FeedNext]_feedVars => FeedInv'
  BY FeedNextKeeps, FeedStays
<1> QED
  BY <1>1, FeedStarts, FeedIsSafe, PTL DEF FeedSpec

=============================================================================
