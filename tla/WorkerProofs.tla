---------------------------- MODULE WorkerProofs ----------------------------
(***************************************************************************)
(* What the router of the intents, the cache of access tokens and the       *)
(* circuit breaker promise, for every fleet, every rank of it, every window *)
(* and every number of faults.                                              *)
(*                                                                         *)
(* The router's invariant has a part of the fleet (how far each process's   *)
(* fence, row and view are from each other, and that the others forget a    *)
(* process that left before its tail is over) and a part of the queues,     *)
(* said of one intent at a time.  There is one lemma per action.            *)
(*                                                                         *)
(* The breaker's says of each window that it is one event a key, in the     *)
(* order of time, and the newest event of every key heard of in its time:   *)
(* what a trip is decided on is then the outage itself.                     *)
(***************************************************************************)
EXTENDS IntentRouter, TokenCache, CircuitBreaker, FiniteSetTheorems, SequenceTheorems,
        WellFoundedInduction, TLAPS

(* The fleet and its queues *)

Nodes == Processes \cup {"none"}
ProcRow == [at : {"new", "up", "closing", "stopping", "deregistered", "gone", "dead"},
            view : SUBSET Processes, fence : 0..Fence, beat : 0..Heartbeat,
            flight : {"none", "sent", "answered"}, age : 0..Timeout, answer : SUBSET Processes,
            tail : 0..DrainTail, revived : BOOLEAN]
JobRow == [intent : Intents, direct : BOOLEAN, due : 0..Recovery, at : Nodes,
           step : {"wait", "insure", "submit"}]
IntentRow == [at : {"new", "queued", "taken"}, published : Nat, forwards : Nat, by : Nodes, wait : Nat]

FleetTyped ==
  /\ row \in [Processes -> 0..Ttl] /\ proc \in [Processes -> ProcRow] /\ late \in SUBSET Processes
JobsTyped ==
  /\ shared \in SUBSET JobRow /\ own \in [Processes -> SUBSET JobRow]
  /\ intent \in [Intents -> IntentRow]
FaultsTyped == faults \in 0..MaxFaults

-----------------------------------------------------------------------------
\* The flight of a process's beat, its fence and its row.
FlightOK(q, r, isLate) ==
  /\ q.at = "new" => q = Fresh /\ r = 0 /\ ~isLate
  /\ q.flight = "none" => q.age = 0
  /\ q.flight # "answered" => q.answer = {}
  /\ q.at \in {"up", "closing", "stopping"} /\ q.flight # "none" => q.beat = q.age
  /\ q.at \in {"new", "up", "closing", "stopping"} => q.tail = DrainTail
  /\ q.fence # 0 => r > q.fence
  /\ q.at \in {"up", "closing", "stopping"} /\ q.flight = "answered" => r + q.age >= Ttl
FlightsOK == \A p \in Processes : FlightOK(proc[p], row[p], p \in late)

\* Nobody has heard of a process that has not started.
Started(q) == proc[q].at # "new"
ViewsOK == \A p, q \in Processes : q \in proc[p].view \cup proc[p].answer => Started(q)

\* A row that keeps a view which may name a process that left is asked again before that process is gone.
Forgets(b, q, tail) ==
  /\ q \in b.view /\ b.flight = "none" => tail + b.beat > Heartbeat + Timeout
  /\ q \in b.view /\ b.flight # "none" /\ q \notin b.answer => tail + b.age > Timeout
  /\ q \in b.answer => tail + b.beat > Heartbeat + Timeout

Left(q) == q.at \in {"deregistered", "gone"} /\ ~q.revived
CalmOK ==
  faults = 0 =>
    /\ late = {}
    /\ \A p \in Processes : proc[p].at # "dead"
    /\ \A q \in Processes : Left(proc[q]) =>
         /\ row[q] = 0
         /\ proc[q].at = "gone" => proc[q].tail = 0
         /\ \A p \in Processes : p # q /\ Beating(p) => Forgets(proc[p], q, proc[q].tail)

FleetOK == FlightsOK /\ ViewsOK /\ CalmOK

-----------------------------------------------------------------------------
\* What holds of one intent: it is its row, S its jobs of the shared queue, O its jobs of each own
\* queue, P the rows of the processes, f the faults so far.
JobAt(j, it, P) ==
  /\ it.at # "new"
  /\ (j.at = "none") = (j.step = "wait")
  /\ j.step = "insure" => ~j.direct
  /\ j.step = "submit" => it.at = "taken"
  /\ j.at # "none" => P[j.at].at \in {"up", "closing", "dead"}
SharedAt(it, S, P) == OncePerId(S) /\ \A j \in S : JobAt(j, it, P)
OwnAt(it, O, P) == \A p \in Processes : OncePerId(O[p]) /\ \A j \in O[p] :
  JobAt(j, it, P) /\ ~j.direct /\ j.at \in {"none", p} /\ j.step # "insure"

\* A job of the intent that some process may forward, now or once it is taken from a dead one.
Returns(S, P) == \E j \in S : ~j.direct /\ (j.at = "none" \/ P[j.at].at = "dead")
HopAt(it, S, P, f) ==
  /\ it.forwards <= it.published + f
  /\ Returns(S, P) => it.forwards + 1 <= it.published + f

InsuredAt(it, O, P) ==
  it.by # "none" =>
    /\ P[it.by].at # "new" /\ it.at # "new"
    /\ it.at = "queued" /\ P[it.by].at = "up" =>
         \E j \in O[it.by] : j.at = "none" /\ j.due + it.wait <= Recovery

\* A queue whose jobs are not lost yet: its process runs, or has moved on with its row alive.
Keeps(q) == q.at \notin Down \/ q.revived
KeptBut(O, P, p) == \E q \in Processes : q # p /\ Keeps(P[q]) /\ O[q] # {}
PairAt(it, S, O, P, f) ==
  f = 0 /\ it.at = "queued" =>
    /\ S = {} => \E p \in Processes : Keeps(P[p]) /\ O[p] # {} /\ KeptBut(O, P, p)
    /\ \A j \in S : j.step = "insure" => (\E k \in S : k.direct) \/ KeptBut(O, P, j.at)
CopyAt(S, O, P) == S # {} \/ \E p \in Processes : P[p].at \notin Down /\ O[p] # {}
SingleAt(it, S, O, P, f) ==
  f <= 1 /\ (\A p \in Processes : ~P[p].revived) /\ it.at = "queued" => CopyAt(S, O, P)

QueueAt(it, S, O, P, f) ==
  /\ SharedAt(it, S, P) /\ OwnAt(it, O, P) /\ HopAt(it, S, P, f) /\ InsuredAt(it, O, P)
  /\ PairAt(it, S, O, P, f) /\ SingleAt(it, S, O, P, f)

Of(jobs, i) == {j \in jobs : j.intent = i}
OwnOf(queues, i) == [p \in Processes |-> Of(queues[p], i)]
QueuesOK == \A i \in Intents : QueueAt(intent[i], Of(shared, i), OwnOf(own, i), proc, faults)

RouterInv == FleetTyped /\ JobsTyped /\ FaultsTyped /\ FleetOK /\ QueuesOK

-----------------------------------------------------------------------------
LEMMA Times ==
  /\ Heartbeat \in Nat /\ Timeout \in Nat /\ Fence \in Nat /\ Ttl \in Nat /\ DrainTail \in Nat
  /\ Recovery \in Nat /\ MaxPublished \in Nat /\ MaxFaults \in Nat
  /\ Timeout < Heartbeat /\ Timeout < Fence /\ Fence < Ttl /\ Heartbeat + Timeout < DrainTail
  /\ "none" \notin Processes
BY RouterTimes

LEMMA Zeros == 0 \in 0..Heartbeat /\ 0 \in 0..Timeout /\ 0 \in 0..Fence /\ Ttl \in 0..Ttl /\ 0 \in 0..Ttl
BY Times

LEMMA Inited == Init => RouterInv
<1> SUFFICES ASSUME Init PROVE RouterInv
  OBVIOUS
<1>1. Fresh \in ProcRow /\ Fresh.at = "new" /\ Fresh.view = {} /\ Fresh.answer = {}
      /\ Fresh.flight = "none" /\ Fresh.age = 0 /\ Fresh.tail = DrainTail /\ Fresh.fence = 0
      /\ Fresh.revived = FALSE
  BY Times DEF Fresh, ProcRow
<1>2. \A p \in Processes : proc[p] = Fresh /\ row[p] = 0
  BY DEF Init
<1>3. FleetTyped /\ JobsTyped /\ FaultsTyped
  BY <1>1, Times DEF Init, FleetTyped, JobsTyped, FaultsTyped, IntentRow, Nodes
<1> HIDE DEF Fresh
<1>4. FleetOK
  BY <1>1, <1>2 DEF Init, FleetOK, FlightsOK, FlightOK, ViewsOK, CalmOK, Left
<1>5. QueuesOK
  <2> SUFFICES ASSUME NEW i \in Intents
               PROVE  QueueAt(intent[i], Of(shared, i), OwnOf(own, i), proc, faults)
    BY DEF QueuesOK
  <2>1. Of(shared, i) = {} /\ \A p \in Processes : OwnOf(own, i)[p] = {}
    BY DEF Init, Of, OwnOf
  <2>2. /\ intent[i].at = "new" /\ intent[i].by = "none" /\ intent[i].forwards = 0
        /\ intent[i].published = 0 /\ faults = 0
    BY DEF Init
  <2>3. QED
    BY <2>1, <2>2 DEF QueueAt, SharedAt, OwnAt, OncePerId, HopAt, Returns, InsuredAt, PairAt, SingleAt
<1>6. QED
  BY <1>3, <1>4, <1>5 DEF RouterInv

\* A step of the jobs leaves the fleet as it was.
LEMMA JobStepKeepsFleet ==
  ASSUME FleetTyped, FaultsTyped, FleetOK, UNCHANGED <<row, proc, late>>, faults' \in Nat, faults <= faults'
  PROVE  FleetTyped' /\ FleetOK'
<1>1. FleetTyped' /\ FlightsOK' /\ ViewsOK'
  BY DEF FleetTyped, FleetOK, FlightsOK, ViewsOK, Started
<1>2. faults' = 0 => faults = 0
  BY Times DEF FaultsTyped
<1>3. CalmOK'
  BY <1>2 DEF FleetOK, CalmOK, Beating
<1>4. QED
  BY <1>1, <1>3 DEF FleetOK

\* The jobs of an intent, as a set of the typed ones.
LEMMA JobsOf ==
  ASSUME JobsTyped, NEW i \in Intents
  PROVE  /\ Of(shared, i) \in SUBSET JobRow
         /\ \A p \in Processes : OwnOf(own, i)[p] = Of(own[p], i) /\ Of(own[p], i) \in SUBSET JobRow
         /\ intent[i] \in IntentRow /\ intent[i].at \in {"new", "queued", "taken"}
         /\ intent[i].published \in Nat /\ intent[i].forwards \in Nat /\ intent[i].wait \in Nat
         /\ intent[i].by \in Nodes
BY DEF JobsTyped, Of, OwnOf, IntentRow

\* Processes that go on as they were, as far as the queues are concerned.
SameFleet(P, Q) ==
  \A p \in Processes : Q[p].at = P[p].at /\ (P[p].revived => Q[p].revived)

LEMMA FleetKeepsQueue ==
  ASSUME NEW it \in IntentRow, NEW S \in SUBSET JobRow, NEW O, \A p \in Processes : O[p] \in SUBSET JobRow,
         NEW P, NEW Q, SameFleet(P, Q), NEW f \in Nat, NEW g \in Nat, f <= g, QueueAt(it, S, O, P, f)
  PROVE  QueueAt(it, S, O, Q, g)
<1>1. \A j \in JobRow : j.at # "none" => Q[j.at].at = P[j.at].at
  BY DEF JobRow, Nodes, SameFleet
<1>2. SharedAt(it, S, Q) /\ OwnAt(it, O, Q)
  BY <1>1 DEF QueueAt, SharedAt, OwnAt, JobAt
<1>3. HopAt(it, S, Q, g)
  <2>1. Returns(S, Q) => Returns(S, P)
    BY <1>1 DEF Returns
  <2>2. it.forwards \in Nat /\ it.published \in Nat
    BY DEF IntentRow
  <2>3. QED
    BY <2>1, <2>2 DEF QueueAt, HopAt
<1>4. InsuredAt(it, O, Q)
  <2>1. it.by # "none" => Q[it.by].at = P[it.by].at
    BY DEF IntentRow, Nodes, SameFleet
  <2>2. QED
    BY <2>1 DEF QueueAt, InsuredAt
<1>5. \A p \in Processes : Keeps(P[p]) => Keeps(Q[p])
  BY DEF Keeps, SameFleet
<1>6. PairAt(it, S, O, Q, g)
  <2>1. g = 0 => f = 0
    OBVIOUS
  <2>2. QED
    BY <1>5, <2>1 DEF QueueAt, PairAt, KeptBut
<1>7. SingleAt(it, S, O, Q, g)
  <2>1. g <= 1 => f <= 1
    OBVIOUS
  <2>2. \A p \in Processes : Q[p].at = P[p].at /\ (P[p].revived => Q[p].revived)
    BY DEF SameFleet
  <2>3. SingleAt(it, S, O, P, f)
    BY DEF QueueAt
  <2>4. QED
    BY <2>1, <2>2, <2>3 DEF SingleAt, CopyAt
<1>8. QED
  BY <1>2, <1>3, <1>4, <1>6, <1>7 DEF QueueAt

\* A step of the fleet that starts, stops and kills nobody leaves the queues in order.
LEMMA FleetStepKeepsQueues ==
  ASSUME JobsTyped, QueuesOK, UNCHANGED <<shared, own, intent>>, faults \in Nat,
         faults' \in Nat, faults <= faults', SameFleet(proc, proc')
  PROVE  JobsTyped' /\ QueuesOK'
<1>1. JobsTyped'
  BY DEF JobsTyped
<1>2. ASSUME NEW i \in Intents
      PROVE  QueueAt(intent'[i], Of(shared', i), OwnOf(own', i), proc', faults')
  <2>1. QueueAt(intent[i], Of(shared, i), OwnOf(own, i), proc, faults)
    BY DEF QueuesOK
  <2>2. QueueAt(intent[i], Of(shared, i), OwnOf(own, i), proc', faults')
    BY <2>1, JobsOf, FleetKeepsQueue
  <2>3. QED
    BY <2>2
<1>3. QED
  BY <1>1, <1>2 DEF QueuesOK

-----------------------------------------------------------------------------
\* Only p's row of the fleet changes.
Moves(p, new) ==
  /\ new \in ProcRow /\ proc' = [proc EXCEPT ![p] = new]
  /\ row' \in [Processes -> 0..Ttl] /\ late' \in SUBSET Processes
  /\ \A q \in Processes : q # p => row'[q] = row[q] /\ (q \in late' <=> q \in late)
  /\ new.at # "new"

LEMMA MovesFlights ==
  ASSUME FleetTyped, FleetOK, NEW p \in Processes, NEW new, Moves(p, new),
         FlightOK(new, row'[p], p \in late'),
         \A q \in new.view \cup new.answer : q = p \/ Started(q)
  PROVE  FleetTyped' /\ FlightsOK' /\ ViewsOK'
<1>1. /\ proc'[p] = new /\ \A q \in Processes : q # p => proc'[q] = proc[q]
      /\ proc' \in [Processes -> ProcRow] /\ FleetTyped'
  BY DEF FleetTyped, Moves
<1>2. FlightsOK'
  <2> SUFFICES ASSUME NEW q \in Processes PROVE FlightOK(proc'[q], row'[q], q \in late')
    BY DEF FlightsOK
  <2>1. CASE q = p
    BY <1>1, <2>1
  <2>2. CASE q # p
    <3>1. FlightOK(proc[q], row[q], q \in late)
      BY DEF FleetOK, FlightsOK
    <3>2. proc'[q] = proc[q] /\ row'[q] = row[q] /\ (q \in late') = (q \in late)
      BY <1>1, <2>2 DEF Moves
    <3>3. QED
      BY <3>1, <3>2
  <2>3. QED
    BY <2>1, <2>2
<1>3. \A q \in Processes : Started(q) => Started(q)'
  BY <1>1 DEF Started, Moves
<1>4. Started(p)'
  BY <1>1 DEF Started, Moves
<1>5. ViewsOK'
  <2> SUFFICES ASSUME NEW q \in Processes, NEW v \in Processes,
                      v \in proc'[q].view \cup proc'[q].answer
               PROVE  Started(v)'
    BY DEF ViewsOK
  <2>1. CASE q = p
    BY <1>1, <1>3, <1>4, <2>1
  <2>2. CASE q # p
    BY <1>1, <1>3, <2>2 DEF FleetOK, ViewsOK
  <2>3. QED
    BY <2>1, <2>2
<1>6. QED
  BY <1>1, <1>2, <1>5

\* The same for a step of the registry, which starts, stops and kills nobody.
LEMMA RegistryCalm ==
  ASSUME FleetTyped, FleetOK, NEW p \in Processes, NEW new, Moves(p, new),
         new.at = proc[p].at, new.tail = proc[p].tail, faults = 0, late' = {},
         Left(new) => Left(proc[p]) /\ row'[p] = row[p],
         \A q \in Processes : q # p /\ Beating(p) /\ Left(proc[q]) /\ row[q] = 0
           /\ Forgets(proc[p], q, proc[q].tail) => Forgets(new, q, proc[q].tail)
  PROVE  CalmOK'
<1>1. proc'[p] = new /\ \A q \in Processes : q # p => proc'[q] = proc[q]
  BY DEF FleetTyped, Moves
<1>2. \A q \in Processes : proc'[q].at = proc[q].at /\ proc'[q].tail = proc[q].tail
  BY <1>1
<1>3. \A q \in Processes : Beating(q)' <=> Beating(q)
  BY <1>2 DEF Beating
<1>4. \A q \in Processes : proc'[q].at # "dead"
  BY <1>2 DEF FleetOK, CalmOK
<1>5. \A q \in Processes : Left(proc'[q]) => Left(proc[q]) /\ row'[q] = row[q]
  BY <1>1 DEF Moves
<1>6. ASSUME NEW q \in Processes, Left(proc'[q])
      PROVE  /\ row'[q] = 0
             /\ proc'[q].at = "gone" => proc'[q].tail = 0
             /\ \A x \in Processes : x # q /\ Beating(x)' => Forgets(proc'[x], q, proc'[q].tail)
  <2>1. Left(proc[q]) /\ row'[q] = row[q]
    BY <1>5, <1>6
  <2>2. /\ row[q] = 0
        /\ proc[q].at = "gone" => proc[q].tail = 0
        /\ \A x \in Processes : x # q /\ Beating(x) => Forgets(proc[x], q, proc[q].tail)
    BY <2>1 DEF FleetOK, CalmOK
  <2>3. ASSUME NEW x \in Processes, x # q, Beating(x)'
        PROVE  Forgets(proc'[x], q, proc'[q].tail)
    <3>1. Forgets(proc[x], q, proc[q].tail) /\ Beating(x)
      BY <1>3, <2>2, <2>3
    <3>2. CASE x = p
      BY <1>1, <1>2, <2>1, <2>2, <2>3, <3>1, <3>2
    <3>3. CASE x # p
      BY <1>1, <1>2, <3>1, <3>3
    <3>4. QED
      BY <3>2, <3>3
  <2>4. QED
    BY <1>2, <2>1, <2>2, <2>3
<1>7. QED
  BY <1>4, <1>6 DEF CalmOK

\* What the proofs need of the row of p.
LEMMA RowOf ==
  ASSUME FleetTyped, FleetOK, NEW p \in Processes
  PROVE  /\ proc[p] \in ProcRow /\ row[p] \in 0..Ttl /\ FlightOK(proc[p], row[p], p \in late)
         /\ proc[p].view \in SUBSET Processes /\ proc[p].answer \in SUBSET Processes
         /\ proc[p].fence \in 0..Fence /\ proc[p].beat \in 0..Heartbeat
         /\ proc[p].age \in 0..Timeout /\ proc[p].tail \in 0..DrainTail
         /\ \A q \in proc[p].view \cup proc[p].answer : q \in Processes /\ Started(q)
BY DEF FleetTyped, FleetOK, FlightsOK, ViewsOK, ProcRow

\* FleetOK after a step of p's registry: what is left to the action.
LEMMA RegistryMoves ==
  ASSUME FleetTyped, JobsTyped, FaultsTyped, FleetOK, QueuesOK, NEW p \in Processes, NEW new,
         Moves(p, new), UNCHANGED <<shared, own, intent>>, faults' \in 0..MaxFaults, faults <= faults',
         FlightOK(new, row'[p], p \in late'),
         \A q \in new.view \cup new.answer : q = p \/ Started(q),
         new.at = proc[p].at, new.tail = proc[p].tail, proc[p].revived => new.revived,
         faults' = 0 => late' = {} /\ (Left(new) => Left(proc[p]) /\ row'[p] = row[p]),
         \A q \in Processes : q # p /\ Beating(p) /\ Left(proc[q]) /\ row[q] = 0 /\ faults' = 0
           /\ Forgets(proc[p], q, proc[q].tail) => Forgets(new, q, proc[q].tail)
  PROVE  RouterInv'
<1>1. FleetTyped' /\ FlightsOK' /\ ViewsOK'
  BY MovesFlights
<1>2. faults \in Nat /\ faults' \in Nat
  BY Times DEF FaultsTyped
<1>3. ASSUME faults' = 0 PROVE CalmOK'
  <2>1. faults = 0
    BY <1>2, <1>3
  <2>2. \A q \in Processes : q # p /\ Beating(p) /\ Left(proc[q]) /\ row[q] = 0
          /\ Forgets(proc[p], q, proc[q].tail) => Forgets(new, q, proc[q].tail)
    BY <1>3
  <2>3. late' = {} /\ (Left(new) => Left(proc[p]) /\ row'[p] = row[p])
    BY <1>3
  <2>4. QED
    BY <2>1, <2>2, <2>3, RegistryCalm
<1>4. CalmOK'
  BY <1>3 DEF CalmOK
<1>5. SameFleet(proc, proc')
  BY DEF FleetTyped, Moves, SameFleet
<1>6. JobsTyped' /\ QueuesOK'
  BY <1>2, <1>5, FleetStepKeepsQueues
<1>7. QED
  BY <1>1, <1>4, <1>6 DEF RouterInv, FleetOK, FaultsTyped

-----------------------------------------------------------------------------
(* The steps of the registry *)

LEMMA BeatKeeps ==
  ASSUME RouterInv, NEW p \in Processes, Beat(p) PROVE RouterInv'
<1> DEFINE new == [proc[p] EXCEPT !.flight = "answered", !.answer = Live(p),
                                  !.revived = @ \/ ~Beating(p)]
<1>0. FleetTyped /\ JobsTyped /\ FaultsTyped /\ FleetOK /\ QueuesOK
  BY DEF RouterInv
<1>1. /\ proc' = [proc EXCEPT ![p] = new] /\ row' = [row EXCEPT ![p] = Ttl]
      /\ proc[p].flight = "sent" /\ proc[p].at # "dead"
      /\ UNCHANGED <<late, shared, own, intent, faults>>
  BY DEF Beat, Rows
<1>2. /\ proc[p] \in ProcRow /\ FlightOK(proc[p], row[p], p \in late)
      /\ proc[p].fence \in 0..Fence /\ proc[p].age \in 0..Timeout
  BY <1>0, RowOf
<1>3. Live(p) \in SUBSET Processes
  BY DEF Live
<1>4. /\ new \in ProcRow /\ new.at = proc[p].at /\ new.view = proc[p].view
      /\ new.fence = proc[p].fence /\ new.beat = proc[p].beat /\ new.flight = "answered"
      /\ new.age = proc[p].age /\ new.answer = Live(p) /\ new.tail = proc[p].tail
      /\ new.revived = (proc[p].revived \/ ~Beating(p))
  BY <1>2, <1>3 DEF ProcRow
<1> HIDE DEF new
<1>5. proc[p].at # "new"
  BY <1>1, <1>2 DEF FlightOK, Fresh
<1>6. row'[p] = Ttl /\ Moves(p, new)
  BY <1>0, <1>1, <1>4, <1>5, Times DEF Moves, FleetTyped
<1>7. FlightOK(new, row'[p], p \in late')
  BY <1>1, <1>2, <1>4, <1>5, <1>6, Times DEF FlightOK
<1>8. \A q \in new.view \cup new.answer : q = p \/ Started(q)
  <2>1. \A q \in Processes : row[q] > 0 => Started(q)
    BY <1>0 DEF FleetTyped, FleetOK, FlightsOK, FlightOK, Started
  <2>2. \A q \in proc[p].view : Started(q)
    BY <1>0, RowOf
  <2>3. QED
    BY <1>4, <2>1, <2>2 DEF Live
<1>9. Left(new) => Left(proc[p]) /\ row'[p] = row[p]
  BY <1>4 DEF Left, Beating
<1>10. ASSUME NEW q \in Processes, q # p, row[q] = 0, Forgets(proc[p], q, proc[q].tail)
       PROVE  Forgets(new, q, proc[q].tail)
  <2>1. q \notin Live(p)
    BY <1>10 DEF Live
  <2>2. proc[p].answer = {}
    BY <1>1, <1>2 DEF FlightOK
  <2>3. QED
    BY <1>1, <1>4, <1>10, <2>1, <2>2 DEF Forgets
<1>11. faults' = 0 => late' = {}
  BY <1>0, <1>1 DEF FleetOK, CalmOK
<1>12. faults' \in 0..MaxFaults /\ faults <= faults'
  BY <1>0, <1>1, Times DEF FaultsTyped
<1>13. QED
  BY <1>0, <1>1, <1>4, <1>6, <1>7, <1>8, <1>9, <1>10, <1>11, <1>12, RegistryMoves

LEMMA BeatAnswersKeeps ==
  ASSUME RouterInv, NEW p \in Processes, BeatAnswers(p) PROVE RouterInv'
<1> DEFINE new == [proc[p] EXCEPT
                     !.flight = "none", !.age = 0, !.answer = {},
                     !.view = IF Beating(p) THEN proc[p].answer ELSE @,
                     !.fence = IF Beating(p) THEN Fence - proc[p].age ELSE @]
<1>0. FleetTyped /\ JobsTyped /\ FaultsTyped /\ FleetOK /\ QueuesOK
  BY DEF RouterInv
<1>1. /\ proc' = [proc EXCEPT ![p] = new] /\ proc[p].flight = "answered" /\ proc[p].at # "dead"
      /\ UNCHANGED <<row, late, shared, own, intent, faults>>
  BY DEF BeatAnswers
<1>2. /\ proc[p] \in ProcRow /\ FlightOK(proc[p], row[p], p \in late) /\ row[p] \in 0..Ttl
      /\ proc[p].fence \in 0..Fence /\ proc[p].age \in 0..Timeout /\ proc[p].answer \in SUBSET Processes
  BY <1>0, RowOf
<1>3. Fence - proc[p].age \in 0..Fence
  BY <1>2, Times
<1>4. /\ new \in ProcRow /\ new.at = proc[p].at /\ new.beat = proc[p].beat
      /\ new.view = IF Beating(p) THEN proc[p].answer ELSE proc[p].view
      /\ new.fence = IF Beating(p) THEN Fence - proc[p].age ELSE proc[p].fence
      /\ new.flight = "none" /\ new.age = 0 /\ new.answer = {} /\ new.tail = proc[p].tail
      /\ new.revived = proc[p].revived
  BY <1>2, <1>3, Zeros DEF ProcRow
<1> HIDE DEF new
<1>5. proc[p].at # "new"
  BY <1>1, <1>2 DEF FlightOK, Fresh
<1>6. Moves(p, new)
  BY <1>0, <1>1, <1>4, <1>5 DEF Moves, FleetTyped
<1>7. FlightOK(new, row'[p], p \in late')
  <2>1. CASE Beating(p)
    BY <1>1, <1>2, <1>4, <2>1, Times DEF FlightOK, Beating
  <2>2. CASE ~Beating(p)
    BY <1>1, <1>2, <1>4, <1>5, <2>2, Times DEF FlightOK, Beating
  <2>3. QED
    BY <2>1, <2>2
<1>8. \A q \in new.view \cup new.answer : q = p \/ Started(q)
  BY <1>0, <1>4, RowOf
<1>9. Left(new) => Left(proc[p]) /\ row'[p] = row[p]
  BY <1>1, <1>4 DEF Left
<1>10. ASSUME NEW q \in Processes, Beating(p), Forgets(proc[p], q, proc[q].tail)
       PROVE  Forgets(new, q, proc[q].tail)
  BY <1>4, <1>10 DEF Forgets
<1>11. faults' = 0 => late' = {}
  BY <1>0, <1>1 DEF FleetOK, CalmOK
<1>12. faults' \in 0..MaxFaults /\ faults <= faults'
  BY <1>0, <1>1, Times DEF FaultsTyped
<1>13. QED
  BY <1>0, <1>1, <1>4, <1>6, <1>7, <1>8, <1>9, <1>10, <1>11, <1>12, RegistryMoves

LEMMA BeatFailsKeeps ==
  ASSUME RouterInv, NEW p \in Processes, BeatFails(p) PROVE RouterInv'
<1> DEFINE new == [proc[p] EXCEPT !.flight = "none", !.age = 0, !.answer = {}]
<1>0. FleetTyped /\ JobsTyped /\ FaultsTyped /\ FleetOK /\ QueuesOK
  BY DEF RouterInv
<1>1. /\ proc' = [proc EXCEPT ![p] = new] /\ proc[p].flight # "none"
      /\ late' \in {late, late \cup {p}}
      /\ UNCHANGED <<row, shared, own, intent>>
  BY DEF BeatFails
<1>2. /\ proc[p] \in ProcRow /\ FlightOK(proc[p], row[p], p \in late)
  BY <1>0, RowOf
<1>3. /\ new \in ProcRow /\ new.at = proc[p].at /\ new.view = proc[p].view
      /\ new.fence = proc[p].fence /\ new.flight = "none" /\ new.age = 0 /\ new.answer = {}
      /\ new.tail = proc[p].tail /\ new.revived = proc[p].revived
  BY <1>2, Zeros DEF ProcRow
<1> HIDE DEF new
<1>4. proc[p].at # "new"
  BY <1>1, <1>2 DEF FlightOK, Fresh
<1>5. Moves(p, new)
  BY <1>0, <1>1, <1>3, <1>4 DEF Moves, FleetTyped
<1>6. FlightOK(new, row'[p], p \in late')
  BY <1>1, <1>2, <1>3, <1>4 DEF FlightOK
<1>7. \A q \in new.view \cup new.answer : q = p \/ Started(q)
  BY <1>0, <1>3, RowOf
<1>8. faults' \in 0..MaxFaults /\ faults <= faults' /\ faults' # 0
  BY <1>0, Times DEF FaultsTyped, BeatFails, Fault
<1>9. QED
  BY <1>0, <1>1, <1>3, <1>5, <1>6, <1>7, <1>8, RegistryMoves

LEMMA LateBeatKeeps ==
  ASSUME RouterInv, NEW p \in Processes, LateBeat(p) PROVE RouterInv'
<1> DEFINE new == proc[p]
<1>0. FleetTyped /\ JobsTyped /\ FaultsTyped /\ FleetOK /\ QueuesOK
  BY DEF RouterInv
<1>1. /\ row' = [row EXCEPT ![p] = Ttl] /\ p \in late /\ late' = late \ {p}
      /\ UNCHANGED <<proc, shared, own, intent, faults>>
  BY DEF LateBeat, Rows
<1>2. /\ new \in ProcRow /\ FlightOK(new, row[p], p \in late) /\ new.at # "new"
      /\ new.fence \in 0..Fence /\ new.age \in 0..Timeout
  BY <1>0, <1>1, RowOf DEF FlightOK
<1>3. proc' = [proc EXCEPT ![p] = new]
  BY <1>0, <1>1 DEF FleetTyped
<1>t. row \in [Processes -> 0..Ttl] /\ late \in SUBSET Processes
  BY <1>0 DEF FleetTyped
<1>4. row'[p] = Ttl /\ Moves(p, new)
  <2> HIDE DEF new
  <2>1. row' \in [Processes -> 0..Ttl] /\ row'[p] = Ttl /\ \A q \in Processes : q # p => row'[q] = row[q]
    BY <1>t, <1>1, Zeros
  <2>2. QED
    BY <1>t, <1>1, <1>2, <1>3, <2>1 DEF Moves
<1>5. FlightOK(new, row'[p], p \in late')
  BY <1>1, <1>2, <1>4, Times DEF FlightOK
<1>6. \A q \in new.view \cup new.answer : q = p \/ Started(q)
  BY <1>0, RowOf
<1>7. faults' \in 0..MaxFaults /\ faults <= faults' /\ faults' # 0
  BY <1>0, <1>1, Times DEF FaultsTyped, FleetOK, CalmOK
<1>8. QED
  BY <1>0, <1>1, <1>2, <1>4, <1>5, <1>6, <1>7, RegistryMoves

LEMMA BeatStartsKeeps ==
  ASSUME RouterInv, NEW p \in Processes, BeatStarts(p) PROVE RouterInv'
<1> DEFINE new == [proc[p] EXCEPT !.flight = "sent", !.beat = 0]
<1>0. FleetTyped /\ JobsTyped /\ FaultsTyped /\ FleetOK /\ QueuesOK
  BY DEF RouterInv
<1>1. /\ proc' = [proc EXCEPT ![p] = new] /\ Beating(p) /\ proc[p].flight = "none"
      /\ proc[p].beat = Heartbeat /\ UNCHANGED <<row, late, shared, own, intent, faults>>
  BY DEF BeatStarts
<1>2. /\ proc[p] \in ProcRow /\ FlightOK(proc[p], row[p], p \in late)
  BY <1>0, RowOf
<1>3. /\ new \in ProcRow /\ new.at = proc[p].at /\ new.view = proc[p].view /\ new.beat = 0
      /\ new.fence = proc[p].fence /\ new.flight = "sent" /\ new.age = proc[p].age
      /\ new.answer = proc[p].answer /\ new.tail = proc[p].tail /\ new.revived = proc[p].revived
  BY <1>2, Zeros DEF ProcRow
<1> HIDE DEF new
<1>4. proc[p].age = 0 /\ proc[p].answer = {}
  BY <1>1, <1>2 DEF FlightOK
<1>5. Moves(p, new)
  BY <1>0, <1>1, <1>3 DEF Moves, FleetTyped, Beating
<1>6. FlightOK(new, row'[p], p \in late')
  BY <1>1, <1>2, <1>3, <1>4 DEF FlightOK, Beating
<1>7. \A q \in new.view \cup new.answer : q = p \/ Started(q)
  BY <1>0, <1>3, RowOf
<1>8. ASSUME NEW q \in Processes, Forgets(proc[p], q, proc[q].tail)
      PROVE  Forgets(new, q, proc[q].tail)
  <2>1. proc[q].tail \in Nat
    BY <1>0, RowOf, Times
  <2>2. QED
    BY <1>1, <1>3, <1>4, <1>8, <2>1, Times DEF Forgets
<1>9. faults' = 0 => late' = {}
  BY <1>0, <1>1 DEF FleetOK, CalmOK
<1>10. faults' \in 0..MaxFaults /\ faults <= faults'
  BY <1>0, <1>1, Times DEF FaultsTyped
<1>11. Left(new) => Left(proc[p]) /\ row'[p] = row[p]
  BY <1>1, <1>3 DEF Left
<1>12. QED
  BY <1>0, <1>1, <1>3, <1>5, <1>6, <1>7, <1>8, <1>9, <1>10, <1>11, RegistryMoves

-----------------------------------------------------------------------------
(* The steps of the jobs *)

\* A step of the jobs: the processes stay as they are.
JobStep ==
  /\ UNCHANGED <<row, proc, late>> /\ faults' \in 0..MaxFaults /\ faults <= faults'

LEMMA JobStepKeeps ==
  ASSUME RouterInv, JobStep, JobsTyped', QueuesOK' PROVE RouterInv'
<1>1. faults \in Nat /\ faults' \in Nat
  BY Times DEF RouterInv, JobStep, FaultsTyped
<1>2. FleetTyped' /\ FleetOK'
  BY <1>1, JobStepKeepsFleet DEF RouterInv, JobStep
<1>3. QED
  BY <1>2 DEF RouterInv, JobStep, FaultsTyped

\* One intent moves and the jobs of the others stay where they are.
OnlyOf(i) ==
  \A x \in Intents : x # i =>
    /\ intent'[x] = intent[x] /\ Of(shared', x) = Of(shared, x)
    /\ \A p \in Processes : Of(own'[p], x) = Of(own[p], x)

LEMMA OneIntentMoves ==
  ASSUME RouterInv, JobStep, JobsTyped', NEW i \in Intents, OnlyOf(i),
         QueueAt(intent'[i], Of(shared', i), OwnOf(own', i), proc, faults')
  PROVE  RouterInv'
<1>0. FleetTyped /\ JobsTyped /\ FaultsTyped /\ QueuesOK /\ faults \in Nat /\ faults' \in Nat
      /\ faults <= faults' /\ proc' = proc
  BY Times DEF RouterInv, JobStep, FaultsTyped
<1>1. ASSUME NEW x \in Intents
      PROVE  QueueAt(intent'[x], Of(shared', x), OwnOf(own', x), proc', faults')
  <2>1. CASE x = i
    BY <1>0, <2>1
  <2>2. CASE x # i
    <3>1. intent'[x] = intent[x] /\ Of(shared', x) = Of(shared, x) /\ OwnOf(own', x) = OwnOf(own, x)
      BY <2>2 DEF OnlyOf, OwnOf
    <3>2. QueueAt(intent[x], Of(shared, x), OwnOf(own, x), proc, faults)
      BY <1>0 DEF QueuesOK
    <3>3. SameFleet(proc, proc)
      BY DEF SameFleet
    <3>4. QueueAt(intent[x], Of(shared, x), OwnOf(own, x), proc, faults')
      BY <1>0, <3>2, <3>3, JobsOf, FleetKeepsQueue
    <3>5. QED
      BY <1>0, <3>1, <3>4
  <2>3. QED
    BY <2>1, <2>2
<1>2. QueuesOK'
  BY <1>1 DEF QueuesOK
<1>3. QED
  BY <1>2, JobStepKeeps

\* A publication pays for one hop.
LEMMA PublishKeeps ==
  ASSUME RouterInv, NEW i \in Intents, Publish(i) PROVE RouterInv'
<1> DEFINE new == Job(i, FALSE, 0)
           it == intent[i]
           S == Of(shared, i)
           O == OwnOf(own, i)
<1>0. FleetTyped /\ JobsTyped /\ FaultsTyped /\ QueuesOK /\ QueueAt(it, S, O, proc, faults)
  BY DEF RouterInv, QueuesOK
<1>z. 0 \in 0..Recovery /\ faults \in Nat
  BY <1>0, Times DEF FaultsTyped
<1>1. /\ new \in JobRow /\ new.intent = i /\ new.direct = FALSE /\ new.at = "none" /\ new.step = "wait"
  BY <1>z DEF Job, JobRow, Nodes
<1>2. /\ intent[i].at \in {"new", "queued"} /\ \A j \in shared : j.intent # i
      /\ shared' = Added(shared, new)
      /\ intent' = [intent EXCEPT ![i].at = "queued", ![i].published = @ + 1]
      /\ UNCHANGED <<row, proc, late, own, faults>>
  BY DEF Publish
<1> HIDE DEF new
<1>3. shared' = shared \cup {new}
  BY <1>1, <1>2 DEF Added, SameId
<1>4. JobsTyped'
  BY <1>0, <1>1, <1>2, <1>3 DEF JobsTyped, IntentRow
<1>5. JobStep /\ OnlyOf(i)
  <2>1. JobStep
    BY <1>0, <1>2, Times DEF JobStep, FaultsTyped
  <2>2. OnlyOf(i)
    BY <1>0, <1>1, <1>2, <1>3 DEF OnlyOf, Of, JobsTyped
  <2>3. QED
    BY <2>1, <2>2
<1>6. S = {} /\ Of(shared', i) = {new} /\ OwnOf(own', i) = O
  BY <1>1, <1>2, <1>3 DEF Of
<1> DEFINE next == intent'[i]
<1>7. /\ next.at = "queued" /\ next.published = it.published + 1 /\ next.forwards = it.forwards
      /\ next.by = it.by /\ next.wait = it.wait /\ it.forwards \in Nat /\ it.published \in Nat
  BY <1>0, <1>2 DEF JobsTyped, IntentRow
<1> HIDE DEF S, O, it, next
<1>8. QueueAt(next, {new}, O, proc, faults)
  <2>1. SharedAt(next, {new}, proc)
    BY <1>1, <1>7 DEF SharedAt, OncePerId, JobAt
  <2>2. OwnAt(next, O, proc)
    BY <1>0, <1>2, <1>7 DEF QueueAt, OwnAt, JobAt, it
  <2>3. HopAt(next, {new}, proc, faults)
    BY <1>0, <1>7, <1>z DEF QueueAt, HopAt
  <2>4. InsuredAt(next, O, proc)
    BY <1>0, <1>2, <1>7 DEF QueueAt, InsuredAt, it
  <2>5. PairAt(next, {new}, O, proc, faults) /\ SingleAt(next, {new}, O, proc, faults)
    BY <1>1 DEF PairAt, SingleAt, CopyAt
  <2>6. QED
    BY <2>1, <2>2, <2>3, <2>4, <2>5 DEF QueueAt
<1>9. QED
  BY <1>2, <1>4, <1>5, <1>6, <1>8, OneIntentMoves DEF next

\* What the proofs of a step on job j of the shared queue need.
LEMMA SharedJob ==
  ASSUME RouterInv, NEW j \in shared
  PROVE  /\ j \in JobRow /\ j.intent \in Intents /\ j \in Of(shared, j.intent) /\ j.at \in Nodes
         /\ JobAt(j, intent[j.intent], proc)
         /\ QueueAt(intent[j.intent], Of(shared, j.intent), OwnOf(own, j.intent), proc, faults)
<1>1. j \in JobRow /\ j.intent \in Intents /\ j.at \in Nodes
  BY DEF RouterInv, JobsTyped, JobRow
<1>2. j \in Of(shared, j.intent)
  BY DEF Of
<1>3. QueueAt(intent[j.intent], Of(shared, j.intent), OwnOf(own, j.intent), proc, faults)
  BY <1>1 DEF RouterInv, QueuesOK
<1>4. QED
  BY <1>1, <1>2, <1>3 DEF QueueAt, SharedAt

\* A job leaves its queue once its intent is no longer queued, or when its submit is over.
LEMMA JobEnds ==
  ASSUME NEW it \in IntentRow, NEW S \in SUBSET JobRow, NEW T \in SUBSET S, NEW O, NEW Q,
         \A p \in Processes : O[p] \in SUBSET JobRow /\ Q[p] \in SUBSET O[p],
         NEW P, NEW f \in Nat, it.at # "queued", QueueAt(it, S, O, P, f)
  PROVE  QueueAt(it, T, Q, P, f)
<1>1. SharedAt(it, T, P) /\ OwnAt(it, Q, P)
  BY DEF QueueAt, SharedAt, OwnAt, OncePerId
<1>2. HopAt(it, T, P, f)
  BY DEF QueueAt, HopAt, Returns
<1>3. InsuredAt(it, Q, P) /\ PairAt(it, T, Q, P, f) /\ SingleAt(it, T, Q, P, f)
  BY DEF QueueAt, InsuredAt, PairAt, SingleAt
<1>4. QED
  BY <1>1, <1>2, <1>3 DEF QueueAt

\* A process takes the intent: its job is at the submit, in the shared queue or in its own.
LEMMA IntentIsTaken ==
  ASSUME NEW it \in IntentRow, NEW S \in SUBSET JobRow, NEW O, NEW P, NEW f \in Nat, NEW g \in Nat, f <= g,
         \A p \in Processes : O[p] \in SUBSET JobRow,
         QueueAt(it, S, O, P, f), NEW next, next = [it EXCEPT !.at = "taken"],
         NEW T, NEW Q, SharedAt(next, T, P), OwnAt(next, Q, P), Returns(T, P) => Returns(S, P)
  PROVE  QueueAt(next, T, Q, P, g)
<1>1. next.at = "taken" /\ next.forwards = it.forwards /\ next.published = it.published
      /\ next.by = it.by /\ it.forwards \in Nat /\ it.published \in Nat
  BY DEF IntentRow
<1>2. HopAt(next, T, P, g)
  BY <1>1 DEF QueueAt, HopAt
<1>3. InsuredAt(next, Q, P) /\ PairAt(next, T, Q, P, g) /\ SingleAt(next, T, Q, P, g)
  BY <1>1 DEF QueueAt, InsuredAt, PairAt, SingleAt
<1>4. QED
  BY <1>2, <1>3 DEF QueueAt

\* add() of a job: the queue holds the id once, and the jobs of other intents are untouched.
LEMMA AddedJobs ==
  ASSUME NEW jobs \in SUBSET JobRow, NEW new \in JobRow
  PROVE  /\ Added(jobs, new) \in SUBSET JobRow /\ jobs \subseteq Added(jobs, new)
         /\ Added(jobs, new) \subseteq jobs \cup {new}
         /\ Of(Added(jobs, new), new.intent) = Added(Of(jobs, new.intent), new)
         /\ \A x : x # new.intent => Of(Added(jobs, new), x) = Of(jobs, x)
         /\ OncePerId(jobs) => OncePerId(Added(jobs, new))
         /\ \E k \in Added(jobs, new) : SameId(k, new)
BY DEF Added, Of, OncePerId, SameId

\* A job taken by p for a step.
Taken(j, p, step) == [j EXCEPT !.at = p, !.step = step]

HeldWell(jobs, j, p, step) ==
  /\ Held(jobs, j, p, step) \in SUBSET JobRow
  /\ Of(Held(jobs, j, p, step), j.intent) = (Of(jobs, j.intent) \ {j}) \cup {Taken(j, p, step)}
  /\ \A x : x # j.intent => Of(Held(jobs, j, p, step), x) = Of(jobs, x)
  /\ Taken(j, p, step) \in JobRow /\ SameId(Taken(j, p, step), j)
  /\ Taken(j, p, step).at = p /\ Taken(j, p, step).step = step
  /\ Taken(j, p, step).intent = j.intent /\ Taken(j, p, step).direct = j.direct

LEMMA HeldJobs ==
  ASSUME NEW jobs \in SUBSET JobRow, NEW j \in jobs, NEW p \in Processes,
         NEW step \in {"insure", "submit"}
  PROVE  HeldWell(jobs, j, p, step)
<1> DEFINE h == Taken(j, p, step)
<1>1. h \in JobRow /\ h.at = p /\ h.step = step /\ h.intent = j.intent /\ h.direct = j.direct
  BY DEF JobRow, Nodes, Taken
<1>2. Held(jobs, j, p, step) = (jobs \ {j}) \cup {h}
  BY DEF Held, Taken
<1> HIDE DEF h
<1>3. /\ Held(jobs, j, p, step) \in SUBSET JobRow
      /\ Of(Held(jobs, j, p, step), j.intent) = (Of(jobs, j.intent) \ {j}) \cup {h}
      /\ \A x : x # j.intent => Of(Held(jobs, j, p, step), x) = Of(jobs, x)
      /\ SameId(h, j)
  BY <1>1, <1>2 DEF Of, SameId
<1>4. QED
  BY <1>1, <1>3 DEF HeldWell, h

LEMMA OwnerIsNamed ==
  ASSUME NEW p, NEW i, OwnerOf(p, i) # "none"
  PROVE  OwnerOf(p, i) \in proc[p].view
BY DEF OwnerOf, LiveView

\* Without a fault, whoever a running process names still keeps its queue.
LEMMA NamedKeeps ==
  ASSUME FleetTyped, FleetOK, faults = 0, NEW p \in Processes, Beating(p),
         NEW q \in proc[p].view, q # p
  PROVE  q \in Processes /\ Keeps(proc[q])
<1>1. /\ q \in Processes /\ Started(q) /\ proc[q] \in ProcRow /\ proc[p] \in ProcRow
      /\ FlightOK(proc[p], row[p], p \in late)
      /\ proc[p].beat \in 0..Heartbeat /\ proc[p].age \in 0..Timeout
  BY RowOf
<1>2. proc[q].at # "dead"
  BY <1>1 DEF FleetOK, CalmOK
<1>3. ASSUME proc[q].at = "gone", ~proc[q].revived PROVE FALSE
  <2>1. proc[q].tail = 0 /\ Forgets(proc[p], q, proc[q].tail)
    BY <1>1, <1>3 DEF FleetOK, CalmOK, Left
  <2>2. Forgets(proc[p], q, 0)
    BY <2>1
  <2>3. QED
    BY <1>1, <2>2, Times DEF Forgets
<1>4. QED
  BY <1>1, <1>2, <1>3 DEF Keeps, Down, Started, ProcRow

\* A running process takes job j of the shared queue to its submit.
LEMMA TakenShared ==
  ASSUME NEW it, NEW next, next.at = "taken", NEW S \in SUBSET JobRow, NEW P, NEW j \in S, NEW h \in JobRow,
         SameId(h, j), h.step = "submit", h.at # "none", P[h.at].at \in {"up", "closing"}, SharedAt(it, S, P)
  PROVE  SharedAt(next, (S \ {j}) \cup {h}, P) /\ (Returns((S \ {j}) \cup {h}, P) => Returns(S, P))
<1> DEFINE T == (S \ {j}) \cup {h}
<1>1. \A k, l \in S : SameId(k, l) => k = l
  BY DEF SharedAt, OncePerId
<1>2. OncePerId(T)
  BY <1>1 DEF OncePerId, SameId
<1>3. \A k \in S : JobAt(k, next, P)
  BY DEF SharedAt, JobAt
<1>4. JobAt(h, next, P)
  BY DEF JobAt
<1>5. Returns(T, P) => Returns(S, P)
  BY DEF Returns
<1>6. QED
  BY <1>2, <1>3, <1>4, <1>5 DEF SharedAt

\* A job is dropped, forwarded to its owner, or taken to its submit.
LEMMA ConsumeKeeps ==
  ASSUME RouterInv, NEW p \in Processes, NEW j \in shared, Consume(p, j) PROVE RouterInv'
<1> DEFINE i == j.intent
           it == intent[i]
           S == Of(shared, i)
           O == OwnOf(own, i)
<1>0. FleetTyped /\ JobsTyped /\ FaultsTyped /\ FleetOK /\ faults \in Nat
  BY Times DEF RouterInv, FaultsTyped
<1>1. /\ j \in JobRow /\ i \in Intents /\ j \in S /\ JobAt(j, it, proc) /\ QueueAt(it, S, O, proc, faults)
      /\ S \in SUBSET JobRow /\ it \in IntentRow /\ \A q \in Processes : O[q] \in SUBSET JobRow
      /\ shared \in SUBSET JobRow /\ own \in [Processes -> SUBSET JobRow]
  BY <1>0, SharedJob, JobsOf DEF JobsTyped
<1>2. /\ proc[p].at = "up" /\ j.at = "none" /\ UNCHANGED <<row, proc, late, faults>>
  BY DEF Consume, Up, Ready
<1>3. JobStep
  BY <1>0, <1>2 DEF JobStep, FaultsTyped
<1>4. CASE it.at # "queued"
  <2>1. shared' = shared \ {j} /\ UNCHANGED <<own, intent>>
    BY <1>4 DEF Consume
  <2>2. JobsTyped' /\ OnlyOf(i)
    BY <1>0, <2>1 DEF JobsTyped, OnlyOf, Of
  <2>3. Of(shared', i) \in SUBSET S /\ OwnOf(own', i) = O /\ intent'[i] = it
    BY <2>1 DEF Of
  <2>4. QueueAt(it, Of(shared', i), O, proc, faults)
    <3> HIDE DEF it, S, O
    <3>1. QED
      BY <1>0, <1>1, <1>4, <2>3, JobEnds
  <2>5. QED
    BY <1>1, <1>2, <1>3, <2>2, <2>3, <2>4, OneIntentMoves
<1>5. CASE it.at = "queued" /\ ~Routed(p, j)
  <2> DEFINE h == Taken(j, p, "submit")
  <2>1. /\ shared' = Held(shared, j, p, "submit") /\ UNCHANGED own
        /\ intent' = [intent EXCEPT ![i].at = "taken"]
    BY <1>5 DEF Consume
  <2> DEFINE T == (S \ {j}) \cup {h}
             next == [it EXCEPT !.at = "taken"]
  <2>h. HeldWell(shared, j, p, "submit")
    <3>1. shared \in SUBSET JobRow
      BY <1>1
    <3>2. QED
      BY <3>1, HeldJobs
  <2>2. /\ shared' \in SUBSET JobRow /\ Of(shared', i) = T
        /\ \A x : x # i => Of(shared', x) = Of(shared, x)
        /\ h \in JobRow /\ SameId(h, j) /\ h.at = p /\ h.step = "submit"
        /\ h.intent = i /\ h.direct = j.direct
    BY <2>1, <2>h DEF HeldWell
  <2> HIDE DEF h
  <2>3. JobsTyped' /\ OnlyOf(i) /\ OwnOf(own', i) = O /\ intent'[i] = next
    BY <1>0, <1>1, <2>1, <2>2 DEF JobsTyped, OnlyOf, IntentRow
  <2>4. QueueAt(next, T, O, proc, faults)
    <3>1. next.at = "taken"
      BY <1>1 DEF IntentRow
    <3>2. next = [it EXCEPT !.at = "taken"]
      OBVIOUS
    <3> HIDE DEF it, S, O, h, next
    <3>3. SharedAt(next, T, proc) /\ (Returns(T, proc) => Returns(S, proc))
      <4>1. p # "none" /\ SharedAt(it, S, proc)
        BY <1>1, Times DEF QueueAt
      <4>2. h.at # "none" /\ proc[h.at].at \in {"up", "closing"}
        BY <1>2, <2>2, <4>1
      <4>3. QED
        BY <1>1, <2>2, <3>1, <4>1, <4>2, TakenShared
    <3>4. OwnAt(next, O, proc)
      BY <1>1, <3>1 DEF QueueAt, OwnAt, JobAt
    <3>5. QED
      BY <1>0, <1>1, <3>2, <3>3, <3>4, IntentIsTaken
  <2>5. QED
    BY <1>1, <1>2, <1>3, <2>2, <2>3, <2>4, OneIntentMoves
<1>6. CASE it.at = "queued" /\ Routed(p, j)
  <2> DEFINE q == OwnerOf(p, i)
             h == Taken(j, p, "insure")
             new == Job(i, FALSE, 0)
  <2>1. /\ shared' = Held(shared, j, p, "insure") /\ own' = [own EXCEPT ![q] = Added(@, new)]
        /\ intent' = [intent EXCEPT ![i].forwards = @ + 1] /\ q # "none" /\ q # p /\ ~j.direct
    BY <1>6 DEF Consume, Routed
  <2> DEFINE T == (S \ {j}) \cup {h}
             next == intent'[i]
             Q == OwnOf(own', i)
  <2>h. HeldWell(shared, j, p, "insure")
    <3>1. shared \in SUBSET JobRow
      BY <1>1
    <3>2. QED
      BY <3>1, HeldJobs
  <2>2. /\ shared' \in SUBSET JobRow /\ Of(shared', i) = T
        /\ \A x : x # i => Of(shared', x) = Of(shared, x)
        /\ h \in JobRow /\ SameId(h, j) /\ h.at = p /\ h.step = "insure" /\ h.direct = j.direct
    BY <2>1, <2>h DEF HeldWell
  <2> HIDE DEF h
  <2>3. q \in proc[p].view /\ q \in Processes
    BY <1>0, <2>1, OwnerIsNamed, RowOf
  <2>4. 0 \in 0..Recovery
    BY Times
  <2>5. /\ new \in JobRow /\ new.intent = i /\ new.direct = FALSE /\ new.at = "none" /\ new.step = "wait"
    BY <1>1, <2>4 DEF Job, JobRow, Nodes
  <2>6. next.at = "queued" /\ next.forwards = it.forwards + 1 /\ next.published = it.published
        /\ next.by = it.by /\ next.wait = it.wait /\ it.forwards \in Nat /\ it.published \in Nat
        /\ intent' \in [Intents -> IntentRow] /\ \A x \in Intents : x # i => intent'[x] = intent[x]
    BY <1>0, <1>1, <1>6, <2>1 DEF JobsTyped, IntentRow
  <2> HIDE DEF q, new
  <2>b. own[q] \in SUBSET JobRow
    BY <1>1, <2>3
  <2>c. /\ Added(own[q], new) \in SUBSET JobRow
        /\ Of(Added(own[q], new), new.intent) = Added(Of(own[q], new.intent), new)
        /\ \A x : x # new.intent => Of(Added(own[q], new), x) = Of(own[q], x)
    BY <2>5, <2>b, AddedJobs
  <2>7. /\ own' \in [Processes -> SUBSET JobRow]
        /\ \A x \in Processes : x # q => own'[x] = own[x]
        /\ own'[q] = Added(own[q], new)
    BY <1>1, <2>1, <2>3, <2>c
  <2>8. JobsTyped'
    BY <2>2, <2>6, <2>7 DEF JobsTyped
  <2>9. OnlyOf(i)
    <3>1. \A x : x # i => Of(Added(own[q], new), x) = Of(own[q], x)
      BY <2>5, <2>c
    <3>2. QED
      BY <2>2, <2>6, <2>7, <3>1 DEF OnlyOf
  <2>10. /\ \A x \in Processes : x # q => Q[x] = O[x]
         /\ Q[q] = Added(O[q], new)
    <3>1. Of(Added(own[q], new), i) = Added(Of(own[q], i), new)
      BY <2>5, <2>c
    <3>2. QED
      BY <2>3, <2>7, <3>1 DEF OwnOf
  <2>11. faults = 0 => Keeps(proc[q])
    <3>1. Beating(p)
      BY <1>2 DEF Beating
    <3>2. QED
      BY <1>0, <2>1, <2>3, <3>1, NamedKeeps
  <2>d. /\ O[q] \subseteq Added(O[q], new) /\ Added(O[q], new) \subseteq O[q] \cup {new}
        /\ Added(O[q], new) # {}
        /\ OncePerId(O[q]) => OncePerId(Added(O[q], new))
    <3> HIDE DEF O
    <3>1. O[q] \in SUBSET JobRow
      BY <1>1, <2>3
    <3>2. QED
      BY <2>5, <3>1, AddedJobs
  <2>12. \A x \in Processes : O[x] \subseteq Q[x]
    BY <2>10, <2>d
  <2>13. OwnAt(next, Q, proc)
    <3> HIDE DEF it, S, O, Q, next
    <3>1. OwnAt(it, O, proc) /\ it.at = "queued"
      BY <1>1, <1>6 DEF QueueAt
    <3>2. ASSUME NEW x \in Processes
          PROVE  /\ OncePerId(Q[x])
                 /\ \A k \in Q[x] : JobAt(k, next, proc) /\ ~k.direct /\ k.at \in {"none", x} /\ k.step # "insure"
      <4>1. \A k \in O[x] : JobAt(k, next, proc) /\ ~k.direct /\ k.at \in {"none", x} /\ k.step # "insure"
        BY <2>6, <3>1 DEF OwnAt, JobAt
      <4>2. OncePerId(O[x])
        BY <3>1 DEF OwnAt
      <4>3. CASE x = q
        <5>1. OncePerId(Q[q]) /\ Q[q] \subseteq O[q] \cup {new}
          BY <2>10, <2>d, <4>2, <4>3
        <5>2. JobAt(new, next, proc)
          BY <2>5, <2>6 DEF JobAt
        <5>3. QED
          BY <2>5, <4>1, <4>3, <5>1, <5>2
      <4>4. CASE x # q
        BY <2>10, <4>1, <4>2, <4>4
      <4>5. QED
        BY <4>3, <4>4
    <3>3. QED
      BY <3>2 DEF OwnAt
  <2>14. SharedAt(next, T, proc)
    <3> HIDE DEF it, S, O, Q, next
    <3>1. \A k, l \in S : SameId(k, l) => k = l
      BY <1>1 DEF QueueAt, SharedAt, OncePerId
    <3>2. OncePerId(T)
      BY <1>1, <2>2, <3>1 DEF OncePerId, SameId
    <3>3. \A k \in S : JobAt(k, next, proc)
      BY <1>1, <1>6, <2>6 DEF QueueAt, SharedAt, JobAt
    <3>4. JobAt(h, next, proc)
      BY <1>1, <1>2, <2>1, <2>2, <2>6, RouterTimes DEF JobAt
    <3>5. QED
      BY <3>2, <3>3, <3>4 DEF SharedAt
  <2>15. HopAt(next, T, proc, faults)
    <3> HIDE DEF it, S, O, Q, next
    <3>1. Returns(S, proc)
      BY <1>1, <1>2, <2>1 DEF Returns
    <3>2. ~Returns(T, proc)
      <4>1. p # "none"
        BY Times
      <4>2. \A k \in S \ {j} : k.direct
        BY <1>1, <2>1 DEF QueueAt, SharedAt, OncePerId, SameId, Of, S, JobRow
      <4>3. QED
        BY <1>2, <2>2, <4>1, <4>2 DEF Returns
    <3>3. QED
      BY <1>0, <1>1, <2>6, <3>1, <3>2 DEF QueueAt, HopAt
  <2>16. InsuredAt(next, Q, proc)
    <3> HIDE DEF S, O, Q, next
    <3>1. it.by # "none" => it.by \in Processes
      BY <1>1 DEF IntentRow, Nodes
    <3> HIDE DEF it
    <3>2. QED
      BY <1>1, <1>6, <2>6, <2>12, <3>1 DEF QueueAt, InsuredAt
  <2>17. PairAt(next, T, Q, proc, faults)
    <3>1. T # {} /\ Q[q] # {}
      <4>1. T # {}
        BY DEF T
      <4> HIDE DEF Q, O, T
      <4>2. Q[q] # {}
        BY <2>10, <2>d
      <4>3. QED
        BY <4>1, <4>2
    <3>2. faults = 0 => KeptBut(Q, proc, p)
      BY <2>1, <2>3, <2>11, <3>1 DEF KeptBut
    <3> HIDE DEF it, S, O, Q, next
    <3>3. \A k \in S : faults = 0 /\ k.step = "insure" =>
            (\E k2 \in S : k2.direct) \/ KeptBut(O, proc, k.at)
      BY <1>1, <1>6 DEF QueueAt, PairAt
    <3>4. \A x : KeptBut(O, proc, x) => KeptBut(Q, proc, x)
      BY <2>12 DEF KeptBut
    <3>5. (\E k2 \in S : k2.direct) => \E k2 \in T : k2.direct
      BY <2>1, <2>2
    <3>6. QED
      BY <2>2, <3>1, <3>2, <3>3, <3>4, <3>5 DEF PairAt
  <2>18. SingleAt(next, T, Q, proc, faults)
    BY <2>2 DEF SingleAt, CopyAt
  <2>19. QueueAt(next, T, Q, proc, faults)
    BY <2>13, <2>14, <2>15, <2>16, <2>17, <2>18 DEF QueueAt
  <2>20. QED
    BY <1>1, <1>2, <1>3, <2>2, <2>8, <2>9, <2>19, OneIntentMoves
<1>7. QED
  BY <1>4, <1>5, <1>6

\* An add to q's own queue: what it does to the queues of one intent.
Gains(O, Q, q, new) ==
  Q[q] = Added(O[q], new) /\ \A x \in Processes : x # q => Q[x] = O[x]

OwnGains(i, q, new) ==
  /\ own' \in [Processes -> SUBSET JobRow]
  /\ \A x \in Processes : \A y : y # i => Of(own'[x], y) = Of(own[x], y)
  /\ Gains(OwnOf(own, i), OwnOf(own', i), q, new)

LEMMA AddsToOwn ==
  ASSUME JobsTyped, NEW q \in Processes, NEW new \in JobRow, own' = [own EXCEPT ![q] = Added(@, new)],
         NEW i, new.intent = i
  PROVE  OwnGains(i, q, new)
<1>1. own \in [Processes -> SUBSET JobRow] /\ own[q] \in SUBSET JobRow
  BY DEF JobsTyped
<1>2. /\ Added(own[q], new) \in SUBSET JobRow
      /\ Of(Added(own[q], new), new.intent) = Added(Of(own[q], new.intent), new)
      /\ \A x : x # new.intent => Of(Added(own[q], new), x) = Of(own[q], x)
  BY <1>1, AddedJobs
<1>3. own'[q] = Added(own[q], new) /\ \A x \in Processes : x # q => own'[x] = own[x]
  BY <1>1
<1>4. own' \in [Processes -> SUBSET JobRow]
  BY <1>1, <1>2
<1>5. QED
  BY <1>2, <1>3, <1>4 DEF OwnOf, Gains, OwnGains

LEMMA AddKeepsOwn ==
  ASSUME NEW it, NEW next, NEW O, NEW Q, NEW P, NEW p \in Processes, NEW new \in JobRow,
         O[p] \in SUBSET JobRow, new.direct = FALSE, new.at = "none", new.step = "wait",
         next.at # "new", it.at = "taken" => next.at = "taken", OwnAt(it, O, P), Gains(O, Q, p, new)
  PROVE  /\ OwnAt(next, Q, P) /\ Q[p] # {} /\ \E k \in Q[p] : SameId(k, new)
         /\ \A x \in Processes : O[x] \subseteq Q[x]
<1>g. Q[p] = Added(O[p], new) /\ \A x \in Processes : x # p => Q[x] = O[x]
  BY DEF Gains
<1>a. /\ O[p] \subseteq Added(O[p], new) /\ Added(O[p], new) \subseteq O[p] \cup {new}
      /\ \E k \in Added(O[p], new) : SameId(k, new)
      /\ OncePerId(O[p]) => OncePerId(Added(O[p], new))
  BY AddedJobs
<1>1. /\ O[p] \subseteq Q[p] /\ Q[p] \subseteq O[p] \cup {new}
      /\ \E k \in Q[p] : SameId(k, new)
      /\ OncePerId(O[p]) => OncePerId(Q[p])
  BY <1>g, <1>a
<1>2. ASSUME NEW x \in Processes
      PROVE  /\ OncePerId(Q[x])
             /\ \A k \in Q[x] : JobAt(k, next, P) /\ ~k.direct /\ k.at \in {"none", x} /\ k.step # "insure"
  <2>1. \A k \in O[x] : JobAt(k, next, P) /\ ~k.direct /\ k.at \in {"none", x} /\ k.step # "insure"
    BY DEF OwnAt, JobAt
  <2>2. OncePerId(O[x])
    BY DEF OwnAt
  <2>3. JobAt(new, next, P)
    BY DEF JobAt
  <2>4. CASE x = p
    BY <1>1, <2>1, <2>2, <2>3, <2>4
  <2>5. CASE x # p
    BY <1>g, <2>1, <2>2, <2>5
  <2>6. QED
    BY <2>4, <2>5
<1>3. OwnAt(next, Q, P)
  BY <1>2 DEF OwnAt
<1>4. QED
  BY <1>g, <1>1, <1>3

\* The insurance lands: from here on the forwarder's own queue answers for the intent.
LEMMA InsureKeeps ==
  ASSUME RouterInv, NEW p \in Processes, NEW j \in shared, Insure(p, j) PROVE RouterInv'
<1> DEFINE i == j.intent
           it == intent[i]
           S == Of(shared, i)
           O == OwnOf(own, i)
           new == Job(i, FALSE, Recovery)
           next == [it EXCEPT !.by = p, !.wait = 0]
           T == S \ {j}
           Q == OwnOf(own', i)
<1>0. FleetTyped /\ JobsTyped /\ FaultsTyped /\ FleetOK /\ faults \in Nat
  BY Times DEF RouterInv, FaultsTyped
<1>1. /\ j \in JobRow /\ i \in Intents /\ j \in S /\ JobAt(j, it, proc) /\ QueueAt(it, S, O, proc, faults)
      /\ S \in SUBSET JobRow /\ it \in IntentRow /\ \A q \in Processes : O[q] \in SUBSET JobRow
      /\ shared \in SUBSET JobRow /\ intent \in [Intents -> IntentRow]
  BY <1>0, SharedJob, JobsOf DEF JobsTyped
<1>2. /\ j.at = p /\ j.step = "insure" /\ proc[p].at # "dead"
      /\ own' = [own EXCEPT ![p] = Added(@, new)] /\ shared' = shared \ {j}
      /\ intent' = [intent EXCEPT ![i].by = p, ![i].wait = 0]
      /\ UNCHANGED <<row, proc, late, faults>>
  BY DEF Insure, Insured
<1>3. p # "none" /\ ~j.direct /\ proc[p].at \in {"up", "closing"} /\ it.at # "new"
  BY <1>1, <1>2, Times DEF JobAt
<1>4. /\ new \in JobRow /\ new.intent = i /\ new.direct = FALSE /\ new.at = "none" /\ new.step = "wait"
  <2>1. Recovery \in 0..Recovery
    BY Times
  <2>2. QED
    BY <1>1, <2>1 DEF Job, JobRow, Nodes
<1> HIDE DEF new
<1>5. JobStep
  BY <1>0, <1>2 DEF JobStep, FaultsTyped
<1>6. /\ next.at = it.at /\ next.by = p /\ next.wait = 0 /\ next.forwards = it.forwards
      /\ next.published = it.published /\ next \in IntentRow
  BY <1>1 DEF IntentRow, Nodes
<1>7. intent' = [intent EXCEPT ![i] = next]
  BY <1>1, <1>2
<1>8. /\ own' \in [Processes -> SUBSET JobRow]
      /\ \A x \in Processes : \A y : y # i => Of(own'[x], y) = Of(own[x], y)
      /\ Gains(O, Q, p, new)
  <2>1. OwnGains(i, p, new)
    BY <1>0, <1>2, <1>4, AddsToOwn
  <2>2. QED
    BY <2>1 DEF OwnGains
<1>9. JobsTyped' /\ OnlyOf(i) /\ Of(shared', i) = T /\ intent'[i] = next
  <2> HIDE DEF next
  <2>1. shared' \in SUBSET JobRow /\ intent' \in [Intents -> IntentRow]
    BY <1>1, <1>2, <1>6, <1>7
  <2>2. \A x \in Intents : x # i => intent'[x] = intent[x] /\ Of(shared', x) = Of(shared, x)
    BY <1>1, <1>2, <1>7 DEF Of
  <2>3. Of(shared', i) = T /\ intent'[i] = next
    BY <1>1, <1>2, <1>7 DEF Of
  <2>4. JobsTyped' /\ OnlyOf(i)
    BY <1>8, <2>1, <2>2 DEF JobsTyped, OnlyOf
  <2>5. QED
    BY <2>3, <2>4
<1> HIDE DEF it, S, O, Q, next
<1>10. /\ OwnAt(next, Q, proc) /\ Q[p] # {} /\ \E k \in Q[p] : SameId(k, new)
       /\ \A x \in Processes : O[x] \subseteq Q[x]
  <2>1. OwnAt(it, O, proc) /\ O[p] \in SUBSET JobRow /\ next.at # "new"
        /\ (it.at = "taken" => next.at = "taken")
    BY <1>1, <1>3, <1>6 DEF QueueAt
  <2>2. QED
    BY <1>4, <1>8, <2>1, AddKeepsOwn
<1>11. SharedAt(next, T, proc)
  BY <1>1, <1>6 DEF QueueAt, SharedAt, OncePerId, JobAt
<1>12. HopAt(next, T, proc, faults)
  BY <1>1, <1>6 DEF QueueAt, HopAt, Returns
<1>13. InsuredAt(next, Q, proc)
  <2>1. PICK k \in Q[p] : SameId(k, new)
    BY <1>10
  <2>2. k \in JobRow
    <3>1. Q[p] \in SUBSET JobRow
      BY <1>8 DEF Q, OwnOf, Of
    <3>2. QED
      BY <3>1
  <2>3. k.due \in 0..Recovery /\ k.step \in {"wait", "insure", "submit"}
    BY <2>2 DEF JobRow
  <2>4. next.at = "queued" => k.at = "none"
    BY <1>10, <2>3 DEF OwnAt, JobAt
  <2>5. k.due + next.wait <= Recovery
    BY <1>6, <2>3, Times
  <2>6. QED
    BY <1>3, <1>6, <2>4, <2>5 DEF InsuredAt
<1>14. PairAt(next, T, Q, proc, faults)
  <2>1. ASSUME NEW k \in T, k.step = "insure" PROVE FALSE
    <3>1. ~k.direct /\ k \in S /\ k # j /\ k.intent = j.intent
      BY <1>1, <2>1 DEF QueueAt, SharedAt, JobAt, S, Of
    <3>2. SameId(k, j)
      BY <1>1, <1>3, <2>1, <3>1 DEF SameId, JobRow
    <3>3. QED
      BY <1>1, <3>1, <3>2 DEF QueueAt, SharedAt, OncePerId
  <2>2. ASSUME faults = 0, next.at = "queued", T = {}
        PROVE  \E x \in Processes : Keeps(proc[x]) /\ Q[x] # {} /\ KeptBut(Q, proc, x)
    <3>1. (\E k \in S : k.direct) \/ KeptBut(O, proc, p)
      BY <1>1, <1>2, <1>6, <2>2 DEF QueueAt, PairAt
    <3>2. ~\E k \in S : k.direct
      BY <1>3, <2>2
    <3>3. KeptBut(Q, proc, p)
      BY <1>10, <3>1, <3>2 DEF KeptBut
    <3>4. Keeps(proc[p])
      BY <1>3 DEF Keeps, Down
    <3>5. QED
      BY <1>10, <3>3, <3>4
  <2>3. QED
    BY <2>1, <2>2 DEF PairAt
<1>15. SingleAt(next, T, Q, proc, faults)
  BY <1>3, <1>10 DEF SingleAt, CopyAt, Down
<1>16. QueueAt(next, T, Q, proc, faults)
  BY <1>10, <1>11, <1>12, <1>13, <1>14, <1>15 DEF QueueAt
<1>17. QED
  BY <1>1, <1>2, <1>5, <1>9, <1>16, OneIntentMoves DEF Q

\* An add fails: the forwarder takes the intent itself.
LEMMA ForwardFailsKeeps ==
  ASSUME RouterInv, NEW p \in Processes, NEW j \in shared, ForwardFails(p, j) PROVE RouterInv'
<1> DEFINE i == j.intent
           it == intent[i]
           S == Of(shared, i)
           O == OwnOf(own, i)
           new == Job(i, FALSE, Recovery)
           next == [it EXCEPT !.at = "taken"]
           T == Of(shared', i)
           Q == OwnOf(own', i)
           h == Taken(j, p, "submit")
<1>0. FleetTyped /\ JobsTyped /\ FaultsTyped /\ FleetOK /\ faults \in Nat
  BY Times DEF RouterInv, FaultsTyped
<1>1. /\ j \in JobRow /\ i \in Intents /\ j \in S /\ JobAt(j, it, proc) /\ QueueAt(it, S, O, proc, faults)
      /\ S \in SUBSET JobRow /\ it \in IntentRow /\ \A q \in Processes : O[q] \in SUBSET JobRow
      /\ shared \in SUBSET JobRow /\ intent \in [Intents -> IntentRow]
      /\ own \in [Processes -> SUBSET JobRow]
  BY <1>0, SharedJob, JobsOf DEF JobsTyped
<1>2. /\ j.at = p /\ j.step = "insure" /\ proc[p].at # "dead" /\ Fault
      /\ own' = own \/ own' = [own EXCEPT ![p] = Added(@, new)]
      /\ UNCHANGED <<row, proc, late>>
  BY DEF ForwardFails, Insured
<1>3. p # "none" /\ ~j.direct /\ proc[p].at \in {"up", "closing"} /\ it.at # "new"
  BY <1>1, <1>2, Times DEF JobAt
<1>4. /\ new \in JobRow /\ new.intent = i /\ new.direct = FALSE /\ new.at = "none" /\ new.step = "wait"
  <2>1. Recovery \in 0..Recovery
    BY Times
  <2>2. QED
    BY <1>1, <2>1 DEF Job, JobRow, Nodes
<1> HIDE DEF new
<1>5. JobStep /\ faults <= faults' /\ faults' \in Nat
  BY <1>0, <1>2, Times DEF JobStep, FaultsTyped, Fault
<1>6. /\ next.at = "taken" /\ next \in IntentRow
  BY <1>1 DEF IntentRow
<1>7. /\ intent' = [intent EXCEPT ![i] = next] /\ intent'[i] = next
      /\ shared' = Held(shared, j, p, "submit") \/ shared' = shared \ {j}
  <2>1. CASE it.at = "queued"
    BY <1>1, <2>1 DEF ForwardFails
  <2>2. CASE it.at # "queued"
    <3>1. it.at = "taken"
      BY <1>1, <1>3, <2>2 DEF IntentRow
    <3>2. next = it
      BY <1>1, <3>1 DEF IntentRow
    <3>3. intent' = intent /\ shared' = shared \ {j}
      BY <2>2 DEF ForwardFails
    <3> HIDE DEF next
    <3>4. QED
      BY <1>1, <3>2, <3>3
  <2>3. QED
    BY <2>1, <2>2
<1>8. /\ own' \in [Processes -> SUBSET JobRow]
      /\ \A x \in Processes : \A y : y # i => Of(own'[x], y) = Of(own[x], y)
      /\ OwnAt(next, Q, proc)
  <2>1. OwnAt(it, O, proc) /\ O[p] \in SUBSET JobRow
    BY <1>1 DEF QueueAt
  <2>2. CASE own' = own
    <3> HIDE DEF next, it, O, Q
    <3>1. ASSUME NEW q \in Processes, NEW k \in O[q], JobAt(k, it, proc), k.step # "insure"
          PROVE  JobAt(k, next, proc)
      BY <1>6, <3>1 DEF JobAt
    <3>2. OwnAt(next, O, proc)
      BY <2>1, <3>1 DEF OwnAt
    <3>3. QED
      BY <1>1, <2>2, <3>2 DEF O, Q
  <2>3. CASE own' = [own EXCEPT ![p] = Added(@, new)]
    <3>1. OwnGains(i, p, new)
      BY <1>0, <1>4, <2>3, AddsToOwn
    <3>2. Gains(O, Q, p, new)
      BY <3>1 DEF OwnGains
    <3> HIDE DEF O, Q, it, next
    <3>3. OwnAt(next, Q, proc)
      BY <1>4, <1>6, <2>1, <3>2, AddKeepsOwn
    <3>4. QED
      BY <3>1, <3>3 DEF OwnGains
  <2>4. QED
    BY <1>2, <2>2, <2>3
<1>9. HeldWell(shared, j, p, "submit")
  BY <1>1, HeldJobs
<1>10. /\ shared' \in SUBSET JobRow /\ \A x : x # i => Of(shared', x) = Of(shared, x)
       /\ T = (S \ {j}) \cup {h} \/ T = S \ {j}
       /\ h \in JobRow /\ SameId(h, j) /\ h.at = p /\ h.step = "submit"
  <2>1. CASE shared' = Held(shared, j, p, "submit")
    BY <1>9, <2>1 DEF HeldWell
  <2>2. CASE shared' = shared \ {j}
    BY <1>1, <1>9, <2>2 DEF HeldWell, Of
  <2>3. QED
    BY <1>7, <2>1, <2>2
<1> HIDE DEF next, h, T, Q, O, S
<1>11. JobsTyped' /\ OnlyOf(i)
  <2>1. intent' \in [Intents -> IntentRow] /\ \A x \in Intents : x # i => intent'[x] = intent[x]
    BY <1>1, <1>6, <1>7
  <2>2. QED
    BY <1>8, <1>10, <2>1 DEF JobsTyped, OnlyOf
<1>12. SharedAt(next, T, proc) /\ (Returns(T, proc) => Returns(S, proc))
  <2>1. SharedAt(it, S, proc)
    BY <1>1 DEF QueueAt
  <2>2. CASE T = S \ {j}
    BY <1>6, <2>1, <2>2 DEF SharedAt, OncePerId, JobAt, Returns
  <2>3. CASE T = (S \ {j}) \cup {h}
    <3>1. h.at # "none" /\ proc[h.at].at \in {"up", "closing"}
      BY <1>3, <1>10
    <3>2. QED
      BY <1>1, <1>6, <1>10, <2>1, <2>3, <3>1, TakenShared
  <2>4. QED
    BY <1>10, <2>2, <2>3
<1>13. next = [it EXCEPT !.at = "taken"]
  BY DEF next
<1> HIDE DEF it
<1>14. QueueAt(next, T, Q, proc, faults')
  BY <1>0, <1>1, <1>5, <1>8, <1>12, <1>13, IntentIsTaken
<1>15. QED
  BY <1>1, <1>5, <1>7, <1>11, <1>14, OneIntentMoves DEF T, Q

\* What the proofs of a step on job j of p's own queue need.
LEMMA OwnJob ==
  ASSUME RouterInv, NEW p \in Processes, NEW j \in own[p]
  PROVE  /\ j \in JobRow /\ j.intent \in Intents /\ j \in OwnOf(own, j.intent)[p]
         /\ JobAt(j, intent[j.intent], proc)
         /\ QueueAt(intent[j.intent], Of(shared, j.intent), OwnOf(own, j.intent), proc, faults)
<1>1. j \in JobRow /\ j.intent \in Intents
  BY DEF RouterInv, JobsTyped, JobRow
<1>2. j \in OwnOf(own, j.intent)[p]
  BY DEF Of, OwnOf
<1>3. QueueAt(intent[j.intent], Of(shared, j.intent), OwnOf(own, j.intent), proc, faults)
  BY <1>1 DEF RouterInv, QueuesOK
<1>4. QED
  BY <1>1, <1>2, <1>3 DEF QueueAt, OwnAt

\* A job of p's own queue is over: only its intent moves.
LEMMA OwnJobEnds ==
  ASSUME RouterInv, NEW p \in Processes, NEW j \in own[p], own' = [own EXCEPT ![p] = @ \ {j}],
         intent[j.intent].at # "queued", UNCHANGED <<row, proc, late, shared, intent, faults>>
  PROVE  RouterInv'
<1> DEFINE i == j.intent
           it == intent[i]
           S == Of(shared, i)
           O == OwnOf(own, i)
           Q == OwnOf(own', i)
<1>0. FleetTyped /\ JobsTyped /\ FaultsTyped /\ faults \in Nat /\ JobStep
  BY Times DEF RouterInv, FaultsTyped, JobStep
<1>1. /\ i \in Intents /\ QueueAt(it, S, O, proc, faults)
      /\ S \in SUBSET JobRow /\ it \in IntentRow /\ \A q \in Processes : O[q] \in SUBSET JobRow
      /\ own \in [Processes -> SUBSET JobRow]
  BY <1>0, OwnJob, JobsOf DEF JobsTyped
<1>2. own'[p] = own[p] \ {j} /\ \A x \in Processes : x # p => own'[x] = own[x]
  BY <1>1
<1>3. own' \in [Processes -> SUBSET JobRow]
  BY <1>1
<1>4. JobsTyped' /\ OnlyOf(i)
  BY <1>0, <1>2, <1>3 DEF JobsTyped, OnlyOf, Of
<1>5. \A q \in Processes : Q[q] \in SUBSET O[q]
  BY <1>2 DEF OwnOf, Of
<1> HIDE DEF it, S, O, Q
<1>6. QueueAt(it, S, Q, proc, faults)
  <2>1. S \in SUBSET S /\ it.at # "queued"
    BY DEF it
  <2>2. QED
    BY <1>0, <1>1, <1>5, <2>1, JobEnds
<1>7. QED
  BY <1>0, <1>1, <1>4, <1>6, OneIntentMoves DEF it, S, Q

\* A job of the own queue is dropped or taken.
LEMMA ConsumeOwnKeeps ==
  ASSUME RouterInv, NEW p \in Processes, NEW j \in own[p], ConsumeOwn(p, j) PROVE RouterInv'
<1> DEFINE i == j.intent
           it == intent[i]
           S == Of(shared, i)
           O == OwnOf(own, i)
           next == [it EXCEPT !.at = "taken"]
           Q == OwnOf(own', i)
           h == Taken(j, p, "submit")
<1>0. FleetTyped /\ JobsTyped /\ FaultsTyped /\ faults \in Nat
  BY Times DEF RouterInv, FaultsTyped
<1>1. /\ j \in JobRow /\ i \in Intents /\ j \in O[p] /\ JobAt(j, it, proc) /\ QueueAt(it, S, O, proc, faults)
      /\ S \in SUBSET JobRow /\ it \in IntentRow /\ \A q \in Processes : O[q] \in SUBSET JobRow
      /\ own \in [Processes -> SUBSET JobRow] /\ intent \in [Intents -> IntentRow]
  BY <1>0, OwnJob, JobsOf DEF JobsTyped
<1>2. proc[p].at = "up" /\ UNCHANGED <<row, proc, late, shared, faults>> /\ p # "none"
  BY Times DEF ConsumeOwn, Up
<1>3. CASE it.at # "queued"
  <2>1. own' = [own EXCEPT ![p] = @ \ {j}] /\ intent' = intent
    BY <1>3 DEF ConsumeOwn
  <2>2. QED
    BY <1>2, <1>3, <2>1, OwnJobEnds
<1>4. CASE it.at = "queued"
  <2>1. own' = [own EXCEPT ![p] = Held(@, j, p, "submit")] /\ intent' = [intent EXCEPT ![i] = next]
    BY <1>1, <1>4 DEF ConsumeOwn
  <2>2. JobStep
    BY <1>0, <1>2 DEF JobStep, FaultsTyped
  <2>3. HeldWell(own[p], j, p, "submit")
    <3>1. own[p] \in SUBSET JobRow
      BY <1>1
    <3>2. QED
      BY <3>1, HeldJobs
  <2>4. /\ own'[p] = Held(own[p], j, p, "submit") /\ \A x \in Processes : x # p => own'[x] = own[x]
        /\ own' \in [Processes -> SUBSET JobRow]
    BY <1>1, <2>1, <2>3 DEF HeldWell
  <2>5. /\ h \in JobRow /\ SameId(h, j) /\ h.at = p /\ h.step = "submit" /\ h.direct = j.direct
        /\ Q[p] = (O[p] \ {j}) \cup {h} /\ \A x \in Processes : x # p => Q[x] = O[x]
        /\ \A x \in Processes : \A y : y # i => Of(own'[x], y) = Of(own[x], y)
    BY <2>3, <2>4 DEF HeldWell, OwnOf
  <2>6. next.at = "taken" /\ next \in IntentRow
    BY <1>1 DEF IntentRow
  <2> HIDE DEF next, h, Q, O, S
  <2>7. JobsTyped' /\ OnlyOf(i) /\ intent'[i] = next
    <3>1. /\ intent' \in [Intents -> IntentRow] /\ \A x \in Intents : x # i => intent'[x] = intent[x]
          /\ intent'[i] = next
      BY <1>1, <2>1, <2>6
    <3>2. QED
      BY <1>0, <1>2, <2>4, <2>5, <3>1 DEF JobsTyped, OnlyOf
  <2>8. OwnAt(next, Q, proc)
    <3>1. OwnAt(it, O, proc)
      BY <1>1 DEF QueueAt
    <3>2. ASSUME NEW x \in Processes
          PROVE  /\ OncePerId(Q[x])
                 /\ \A k \in Q[x] : JobAt(k, next, proc) /\ ~k.direct /\ k.at \in {"none", x} /\ k.step # "insure"
      <4>1. \A k \in O[x] : JobAt(k, next, proc) /\ ~k.direct /\ k.at \in {"none", x} /\ k.step # "insure"
        BY <2>6, <3>1 DEF OwnAt, JobAt
      <4>2. OncePerId(O[x])
        BY <3>1 DEF OwnAt
      <4>3. CASE x = p
        <5>1. OncePerId(Q[x])
          BY <1>1, <2>5, <4>2, <4>3 DEF OncePerId, SameId
        <5>2. JobAt(h, next, proc) /\ ~h.direct
          BY <1>1, <1>2, <2>5, <2>6, <4>1, <4>3 DEF JobAt
        <5>3. QED
          BY <2>5, <4>1, <4>3, <5>1, <5>2
      <4>4. CASE x # p
        BY <2>5, <4>1, <4>2, <4>4
      <4>5. QED
        BY <4>3, <4>4
    <3>3. QED
      BY <3>2 DEF OwnAt
  <2>9. SharedAt(next, S, proc)
    BY <1>1, <2>6 DEF QueueAt, SharedAt, JobAt
  <2>10. next = [it EXCEPT !.at = "taken"]
    BY DEF next
  <2> HIDE DEF it
  <2>11. QueueAt(next, S, Q, proc, faults)
    BY <1>0, <1>1, <2>8, <2>9, <2>10, IntentIsTaken
  <2>12. QED
    BY <1>1, <1>2, <2>2, <2>7, <2>11, OneIntentMoves DEF S, Q
<1>5. QED
  BY <1>3, <1>4

\* A submit is over, in either queue.
LEMMA DoneKeeps ==
  ASSUME RouterInv, NEW p \in Processes, NEW j \in shared \cup own[p], Done(p, j) PROVE RouterInv'
<1>1. j.step = "submit" /\ UNCHANGED <<row, proc, late, intent, faults>>
  BY DEF Done
<1>2. CASE j \in own[p] /\ own' = [own EXCEPT ![p] = @ \ {j}] /\ shared' = shared
  <2>1. intent[j.intent].at # "queued"
    BY <1>1, <1>2, OwnJob DEF JobAt
  <2>2. QED
    BY <1>1, <1>2, <2>1, OwnJobEnds
<1>3. CASE j \in shared /\ shared' = shared \ {j} /\ own' = own
  <2> DEFINE i == j.intent
             it == intent[i]
             S == Of(shared, i)
             O == OwnOf(own, i)
  <2>0. FleetTyped /\ JobsTyped /\ FaultsTyped /\ faults \in Nat /\ JobStep
    BY <1>1, Times DEF RouterInv, FaultsTyped, JobStep
  <2>1. /\ j \in shared /\ i \in Intents /\ JobAt(j, it, proc) /\ QueueAt(it, S, O, proc, faults)
        /\ S \in SUBSET JobRow /\ it \in IntentRow /\ \A q \in Processes : O[q] \in SUBSET JobRow
    BY <1>3, <2>0, SharedJob, JobsOf
  <2>2. it.at # "queued"
    BY <1>1, <2>1 DEF JobAt
  <2>3. /\ JobsTyped' /\ OnlyOf(i) /\ Of(shared', i) \in SUBSET S /\ OwnOf(own', i) = O /\ intent'[i] = it
    BY <1>1, <1>3, <2>0 DEF JobsTyped, OnlyOf, Of
  <2> HIDE DEF it, S, O
  <2>4. QueueAt(it, Of(shared', i), O, proc, faults)
    BY <2>0, <2>1, <2>2, <2>3, JobEnds
  <2>5. QED
    BY <1>1, <2>0, <2>1, <2>3, <2>4, OneIntentMoves
<1>4. QED
  BY <1>2, <1>3 DEF Done

\* A dead process's job comes back: its crash has paid for the hop it may make again.
LEMMA StalledKeeps ==
  ASSUME RouterInv, NEW j \in shared, Stalled(j) PROVE RouterInv'
<1> DEFINE i == j.intent
           it == intent[i]
           S == Of(shared, i)
           O == OwnOf(own, i)
           new == Job(i, j.direct, 0)
           T == (S \ {j}) \cup {new}
<1>0. FleetTyped /\ JobsTyped /\ FaultsTyped /\ FleetOK /\ faults \in Nat
  BY Times DEF RouterInv, FaultsTyped
<1>1. /\ j \in JobRow /\ i \in Intents /\ j \in S /\ JobAt(j, it, proc) /\ QueueAt(it, S, O, proc, faults)
      /\ S \in SUBSET JobRow /\ it \in IntentRow /\ \A q \in Processes : O[q] \in SUBSET JobRow
      /\ shared \in SUBSET JobRow /\ j.at \in Nodes
  BY <1>0, SharedJob, JobsOf DEF JobsTyped
<1>2. /\ j.at # "none" /\ proc[j.at].at = "dead" /\ shared' = (shared \ {j}) \cup {new}
      /\ UNCHANGED <<row, proc, late, own, intent, faults>>
  BY DEF Stalled
<1>3. /\ new \in JobRow /\ new.intent = i /\ new.direct = j.direct /\ new.at = "none" /\ new.step = "wait"
  <2>1. 0 \in 0..Recovery
    BY Times
  <2>2. QED
    BY <1>1, <2>1 DEF Job, JobRow, Nodes
<1> HIDE DEF new
<1>4. JobStep
  BY <1>0, <1>2 DEF JobStep, FaultsTyped
<1>5. JobsTyped' /\ OnlyOf(i) /\ Of(shared', i) = T
  BY <1>0, <1>1, <1>2, <1>3 DEF JobsTyped, OnlyOf, Of
<1> HIDE DEF it, S, O
<1>6. SharedAt(it, T, proc)
  <2>1. \A k, l \in S : SameId(k, l) => k = l
    BY <1>1 DEF QueueAt, SharedAt, OncePerId
  <2>2. OncePerId(T)
    BY <1>1, <1>3, <2>1 DEF OncePerId, SameId
  <2>3. JobAt(new, it, proc)
    BY <1>1, <1>3 DEF JobAt
  <2>4. QED
    BY <1>1, <2>2, <2>3 DEF QueueAt, SharedAt
<1>7. HopAt(it, T, proc, faults)
  <2>1. Returns(T, proc) => Returns(S, proc)
    BY <1>1, <1>2, <1>3 DEF Returns
  <2>2. QED
    BY <1>1, <2>1 DEF QueueAt, HopAt
<1>8. faults # 0
  BY <1>0, <1>1, <1>2 DEF FleetOK, CalmOK, Nodes
<1>9. PairAt(it, T, O, proc, faults) /\ SingleAt(it, T, O, proc, faults)
  BY <1>8 DEF PairAt, SingleAt, CopyAt
<1>10. QueueAt(it, T, O, proc, faults)
  BY <1>1, <1>6, <1>7, <1>9 DEF QueueAt
<1>11. QED
  BY <1>1, <1>2, <1>4, <1>5, <1>10, OneIntentMoves DEF it, O

-----------------------------------------------------------------------------
(* The steps in the life of a process *)

\* Only the row of p changes between P and Q.
OnlyRow(P, Q, p) == \A x \in Processes : x # p => Q[x] = P[x]

\* What a life step of p may do to the jobs that lie in the queues.
LEMMA LifeKeepsQueue ==
  ASSUME NEW it \in IntentRow, NEW S \in SUBSET JobRow, NEW O, \A x \in Processes : O[x] \in SUBSET JobRow,
         NEW P, NEW Q, NEW p \in Processes, OnlyRow(P, Q, p), NEW f \in Nat, NEW g \in Nat, f <= g,
         Q[p].at # "new",
         Q[p].at = "up" => P[p].at = "new",
         \/ P[p].at \notin {"up", "closing", "dead"} \/ Q[p].at \in {"up", "closing", "dead"}
         \/ \A j \in S \cup O[p] : j.at # p,
         Q[p].at = "dead" => f + 1 <= g,
         g = 0 /\ Keeps(P[p]) => Keeps(Q[p]),
         (Q[p].at \notin Down /\ (P[p].revived => Q[p].revived)) \/ f + 1 <= g,
         QueueAt(it, S, O, P, f)
  PROVE  QueueAt(it, S, O, Q, g)
<1>0. p # "none" /\ \A x \in Processes : x # p => Q[x] = P[x]
  BY Times DEF OnlyRow
<1>1. \A j \in JobRow : j.at # "none" /\ j.at # p => j.at \in Processes /\ Q[j.at] = P[j.at]
  BY <1>0 DEF JobRow, Nodes
<1>2. ASSUME NEW j \in JobRow, JobAt(j, it, P), j \in S \cup O[p] \/ j.at # p
      PROVE  JobAt(j, it, Q)
  <2>1. CASE j.at = p
    BY <1>0, <1>2, <2>1 DEF JobAt
  <2>2. CASE j.at # p
    BY <1>1, <1>2, <2>2 DEF JobAt
  <2>3. QED
    BY <2>1, <2>2
<1>3. SharedAt(it, S, Q)
  BY <1>2 DEF QueueAt, SharedAt
<1>4. OwnAt(it, O, Q)
  <2> SUFFICES ASSUME NEW x \in Processes
               PROVE  /\ OncePerId(O[x])
                      /\ \A j \in O[x] : JobAt(j, it, Q) /\ ~j.direct /\ j.at \in {"none", x} /\ j.step # "insure"
    BY DEF OwnAt
  <2>1. /\ OncePerId(O[x]) /\ O[x] \in SUBSET JobRow
        /\ \A j \in O[x] : JobAt(j, it, P) /\ ~j.direct /\ j.at \in {"none", x} /\ j.step # "insure"
    BY DEF QueueAt, OwnAt
  <2>2. \A j \in O[x] : j \in JobRow /\ (j \in S \cup O[p] \/ j.at # p)
    BY <1>0, <2>1
  <2>3. QED
    BY <1>2, <2>1, <2>2
<1>5. HopAt(it, S, Q, g)
  <2>1. it.forwards \in Nat /\ it.published \in Nat
    BY DEF IntentRow
  <2>2. it.forwards <= it.published + f
    BY DEF QueueAt, HopAt
  <2>3. CASE f + 1 <= g
    BY <2>1, <2>2, <2>3 DEF HopAt
  <2>4. CASE ~(f + 1 <= g)
    <3>1. Returns(S, Q) => Returns(S, P)
      BY <1>0, <1>1, <2>4 DEF Returns
    <3>2. QED
      BY <2>1, <3>1 DEF QueueAt, HopAt
  <2>5. QED
    BY <2>3, <2>4
<1>6. InsuredAt(it, O, Q)
  <2>1. it.by \in Processes \cup {"none"}
    BY DEF IntentRow, Nodes
  <2>2. CASE it.by = p
    <3>1. P[p].at # "new"
      BY <1>0, <2>2 DEF QueueAt, InsuredAt
    <3>2. QED
      BY <2>2, <3>1 DEF QueueAt, InsuredAt
  <2>3. CASE it.by # p
    BY <1>0, <2>1, <2>3 DEF QueueAt, InsuredAt
  <2>4. QED
    BY <2>2, <2>3
<1>7. PairAt(it, S, O, Q, g)
  <2> SUFFICES ASSUME g = 0 PROVE PairAt(it, S, O, Q, g)
    BY DEF PairAt
  <2>1. f = 0 /\ PairAt(it, S, O, P, f)
    BY DEF QueueAt
  <2>2. \A x \in Processes : Keeps(P[x]) => Keeps(Q[x])
    BY <1>0
  <2>3. \A x : KeptBut(O, P, x) => KeptBut(O, Q, x)
    BY <2>2 DEF KeptBut
  <2>4. QED
    BY <2>1, <2>2, <2>3 DEF PairAt
<1>8. SingleAt(it, S, O, Q, g)
  <2> SUFFICES ASSUME g <= 1, \A x \in Processes : ~Q[x].revived, it.at = "queued"
               PROVE  CopyAt(S, O, Q)
    BY DEF SingleAt
  <2>1. CASE f + 1 <= g
    <3>1. f = 0 /\ PairAt(it, S, O, P, f)
      BY <2>1 DEF QueueAt
    <3>2. CASE S = {}
      <4>1. PICK x \in Processes : Keeps(P[x]) /\ O[x] # {} /\ KeptBut(O, P, x)
        BY <3>1, <3>2 DEF PairAt
      <4>2. PICK y \in Processes : y # x /\ Keeps(P[y]) /\ O[y] # {}
        BY <4>1 DEF KeptBut
      <4>3. PICK z \in {x, y} : z # p /\ Keeps(P[z]) /\ O[z] # {} /\ z \in Processes
        BY <4>1, <4>2
      <4>4. Q[z] = P[z]
        BY <1>0, <4>3
      <4>5. Q[z].at \notin Down
        BY <4>3, <4>4 DEF Keeps
      <4>6. QED
        BY <4>3, <4>5 DEF CopyAt
    <3>3. QED
      BY <3>2 DEF CopyAt
  <2>2. CASE Q[p].at \notin Down /\ (P[p].revived => Q[p].revived)
    <3>1. \A x \in Processes : ~P[x].revived
      BY <1>0, <2>2
    <3>2. f <= 1
      OBVIOUS
    <3>3. CopyAt(S, O, P)
      BY <3>1, <3>2 DEF QueueAt, SingleAt
    <3>4. QED
      BY <1>0, <2>2, <3>3 DEF CopyAt
  <2>3. QED
    BY <2>1, <2>2
<1>9. QED
  BY <1>3, <1>4, <1>5, <1>6, <1>7, <1>8 DEF QueueAt

LEMMA LifeKeepsQueues ==
  ASSUME FleetTyped, JobsTyped, QueuesOK, NEW p \in Processes, NEW new \in ProcRow,
         proc' = [proc EXCEPT ![p] = new],
         UNCHANGED <<shared, own, intent>>, faults \in Nat, faults' \in Nat, faults <= faults',
         new.at # "new", new.at = "up" => proc[p].at = "new",
         \/ proc[p].at \notin {"up", "closing", "dead"} \/ new.at \in {"up", "closing", "dead"}
         \/ \A j \in shared \cup own[p] : j.at # p,
         new.at = "dead" => faults + 1 <= faults',
         faults' = 0 /\ Keeps(proc[p]) => Keeps(new),
         (new.at \notin Down /\ (proc[p].revived => new.revived)) \/ faults + 1 <= faults'
  PROVE  JobsTyped' /\ QueuesOK'
<1>0. proc'[p] = new /\ OnlyRow(proc, proc', p)
  BY DEF FleetTyped, OnlyRow
<1>1. JobsTyped'
  BY DEF JobsTyped
<1>2. ASSUME NEW i \in Intents
      PROVE  QueueAt(intent'[i], Of(shared', i), OwnOf(own', i), proc', faults')
  <2> DEFINE it == intent[i]
             S == Of(shared, i)
             O == OwnOf(own, i)
  <2>1. QueueAt(it, S, O, proc, faults) /\ intent' = intent /\ shared' = shared /\ own' = own
    BY DEF QueuesOK
  <2>2. S \in SUBSET JobRow /\ it \in IntentRow /\ \A x \in Processes : O[x] \in SUBSET JobRow
    BY JobsOf
  <2>3. \/ proc[p].at \notin {"up", "closing", "dead"} \/ proc'[p].at \in {"up", "closing", "dead"}
        \/ \A j \in S \cup O[p] : j.at # p
    BY <1>0 DEF Of, OwnOf
  <2> HIDE DEF it, S, O
  <2>4. QueueAt(it, S, O, proc', faults')
    <3>1. /\ proc'[p].at # "new" /\ (proc'[p].at = "up" => proc[p].at = "new")
          /\ proc'[p].at = "dead" => faults + 1 <= faults'
      BY <1>0
    <3>2. faults' = 0 /\ Keeps(proc[p]) => Keeps(proc'[p])
      BY <1>0
    <3>3. \/ proc'[p].at \notin Down /\ (proc[p].revived => proc'[p].revived)
          \/ faults + 1 <= faults'
      BY <1>0
    <3>4. QED
      BY <1>0, <2>1, <2>2, <2>3, <3>1, <3>2, <3>3, LifeKeepsQueue
  <2>5. QED
    BY <2>1, <2>4 DEF it, S, O
<1>3. QED
  BY <1>1, <1>2 DEF QueuesOK

\* A process starts: nobody has named it before.
LEMMA StartKeeps ==
  ASSUME RouterInv, NEW p \in Processes, Start(p) PROVE RouterInv'
<1> DEFINE new == [proc[p] EXCEPT !.at = "up", !.flight = "sent"]
<1>0. FleetTyped /\ JobsTyped /\ FaultsTyped /\ FleetOK /\ QueuesOK /\ faults \in Nat
  BY Times DEF RouterInv, FaultsTyped
<1>1. /\ proc' = [proc EXCEPT ![p] = new] /\ proc[p].at = "new"
      /\ UNCHANGED <<row, late, shared, own, intent, faults>>
  BY DEF Start
<1>2. proc[p] \in ProcRow /\ FlightOK(proc[p], row[p], p \in late)
  BY <1>0, RowOf
<1>3. /\ proc[p].view = {} /\ proc[p].fence = 0 /\ proc[p].beat = 0 /\ proc[p].age = 0
      /\ proc[p].answer = {} /\ proc[p].tail = DrainTail /\ proc[p].revived = FALSE
  BY <1>1, <1>2 DEF FlightOK, Fresh
<1>4. /\ new \in ProcRow /\ new.at = "up" /\ new.flight = "sent" /\ new.view = {} /\ new.fence = 0
      /\ new.beat = 0 /\ new.age = 0 /\ new.answer = {} /\ new.tail = DrainTail /\ new.revived = FALSE
  BY <1>2, <1>3 DEF ProcRow
<1> HIDE DEF new
<1>5. Moves(p, new)
  BY <1>0, <1>1, <1>4 DEF Moves, FleetTyped
<1>6. FlightOK(new, row'[p], p \in late')
  BY <1>4 DEF FlightOK
<1>7. \A q \in new.view \cup new.answer : q = p \/ Started(q)
  BY <1>4
<1>8. FleetTyped' /\ FlightsOK' /\ ViewsOK'
  BY <1>0, <1>5, <1>6, <1>7, MovesFlights
<1>9. proc'[p] = new /\ \A q \in Processes : q # p => proc'[q] = proc[q]
  BY <1>0, <1>1 DEF FleetTyped
<1>10. CalmOK'
  <2> SUFFICES ASSUME faults = 0
               PROVE  /\ late = {}
                      /\ \A x \in Processes : proc'[x].at # "dead"
                      /\ \A q \in Processes : Left(proc'[q]) =>
                           /\ row[q] = 0
                           /\ proc'[q].at = "gone" => proc'[q].tail = 0
                           /\ \A x \in Processes : x # q /\ Beating(x)' => Forgets(proc'[x], q, proc'[q].tail)
    BY <1>1 DEF CalmOK
  <2>1. late = {} /\ \A x \in Processes : proc'[x].at # "dead"
    BY <1>0, <1>4, <1>9 DEF FleetOK, CalmOK
  <2>2. ASSUME NEW q \in Processes, Left(proc'[q])
        PROVE  /\ row[q] = 0
               /\ proc'[q].at = "gone" => proc'[q].tail = 0
               /\ \A x \in Processes : x # q /\ Beating(x)' => Forgets(proc'[x], q, proc'[q].tail)
    <3>1. q # p /\ proc'[q] = proc[q] /\ Left(proc[q])
      BY <1>4, <1>9, <2>2 DEF Left
    <3>2. /\ row[q] = 0
          /\ proc[q].at = "gone" => proc[q].tail = 0
          /\ \A x \in Processes : x # q /\ Beating(x) => Forgets(proc[x], q, proc[q].tail)
      BY <1>0, <3>1 DEF FleetOK, CalmOK
    <3>3. \A t : Forgets(new, q, t)
      BY <1>4 DEF Forgets
    <3>4. \A x \in Processes : x # q /\ Beating(x)' => Forgets(proc'[x], q, proc'[q].tail)
      BY <1>9, <3>1, <3>2, <3>3 DEF Beating
    <3>5. QED
      BY <3>1, <3>2, <3>4
  <2>3. QED
    BY <2>1, <2>2
<1>11. JobsTyped' /\ QueuesOK'
  <2>1. new.at \in {"up", "closing", "dead"} /\ new.at \notin Down /\ (proc[p].revived => new.revived)
        /\ Keeps(new) /\ new.at # "dead" /\ new.at # "new"
    BY <1>3, <1>4 DEF Down, Keeps
  <2>2. faults' \in Nat /\ faults <= faults'
    BY <1>0, <1>1
  <2>3. UNCHANGED <<shared, own, intent>> /\ proc' = [proc EXCEPT ![p] = new] /\ proc[p].at = "new"
    BY <1>1
  <2>4. QED
    BY <1>0, <1>4, <2>1, <2>2, <2>3, LifeKeepsQueues
<1>12. QED
  BY <1>0, <1>1, <1>8, <1>10, <1>11 DEF RouterInv, FleetOK, FaultsTyped

\* CalmOK after a life step of p: what is left to the action.
LEMMA LifeCalm ==
  ASSUME FleetTyped, FleetOK, NEW p \in Processes, NEW new, Moves(p, new),
         faults = 0, late' = late, new.at # "dead",
         \/ new.at \in {"up", "closing", "stopping"} /\ proc[p].at \in {"up", "closing", "stopping"}
         \/ new.at \in {"deregistered", "gone"},
         new.view \subseteq proc[p].view, new.answer = proc[p].answer, new.flight = proc[p].flight,
         new.beat = proc[p].beat, new.age = proc[p].age,
         Left(new) =>
           /\ row'[p] = 0 /\ (new.at = "gone" => new.tail = 0)
           /\ \A x \in Processes : x # p /\ Beating(x) => Forgets(proc[x], p, new.tail)
  PROVE  CalmOK'
<1>1. proc'[p] = new /\ \A q \in Processes : q # p => proc'[q] = proc[q] /\ row'[q] = row[q]
  BY DEF FleetTyped, Moves
<1>2. late' = {} /\ \A x \in Processes : proc'[x].at # "dead"
  BY <1>1 DEF FleetOK, CalmOK
<1>3. ASSUME NEW q \in Processes, Left(proc'[q])
      PROVE  /\ row'[q] = 0
             /\ proc'[q].at = "gone" => proc'[q].tail = 0
             /\ \A x \in Processes : x # q /\ Beating(x)' => Forgets(proc'[x], q, proc'[q].tail)
  <2>1. CASE q = p
    BY <1>1, <1>3, <2>1 DEF Beating
  <2>2. CASE q # p
    <3>1. proc'[q] = proc[q] /\ Left(proc[q]) /\ row'[q] = row[q]
      BY <1>1, <1>3, <2>2
    <3>2. /\ row[q] = 0
          /\ proc[q].at = "gone" => proc[q].tail = 0
          /\ \A x \in Processes : x # q /\ Beating(x) => Forgets(proc[x], q, proc[q].tail)
      BY <3>1 DEF FleetOK, CalmOK
    <3>3. ASSUME NEW x \in Processes, x # q, Beating(x)'
          PROVE  Forgets(proc'[x], q, proc'[q].tail)
      <4>1. CASE x = p
        <5>1. Beating(p)
          BY <1>1, <3>3, <4>1 DEF Beating
        <5>2. Forgets(proc[p], q, proc[q].tail)
          BY <2>2, <3>2, <5>1
        <5>3. Forgets(new, q, proc[q].tail)
          BY <5>2 DEF Forgets
        <5>4. QED
          BY <1>1, <3>1, <4>1, <5>3
      <4>2. CASE x # p
        BY <1>1, <3>1, <3>2, <3>3, <4>2 DEF Beating
      <4>3. QED
        BY <4>1, <4>2
    <3>4. QED
      BY <3>1, <3>2, <3>3
  <2>3. QED
    BY <2>1, <2>2
<1>4. QED
  BY <1>2, <1>3 DEF CalmOK

\* The consumers close, and have closed.
LEMMA CloseKeeps ==
  ASSUME RouterInv, NEW p \in Processes, Close(p) \/ Closed(p) PROVE RouterInv'
<1> DEFINE at == proc'[p].at
           new == [proc[p] EXCEPT !.at = at]
<1>0. FleetTyped /\ JobsTyped /\ FaultsTyped /\ FleetOK /\ QueuesOK /\ faults \in Nat
  BY Times DEF RouterInv, FaultsTyped
<1>a. proc \in [Processes -> ProcRow]
  BY <1>0 DEF FleetTyped
<1>1. /\ proc' = [proc EXCEPT ![p].at = at]
      /\ \/ proc[p].at = "up" /\ at = "closing"
         \/ proc[p].at = "closing" /\ at = "stopping" /\ Active(p) = {}
      /\ UNCHANGED <<row, late, shared, own, intent, faults>>
  <2>1. CASE Close(p)
    BY <1>a, <2>1 DEF Close, Up
  <2>2. CASE Closed(p)
    BY <1>a, <2>2 DEF Closed
  <2>3. QED
    BY <2>1, <2>2
<1> HIDE DEF at
<1>b. proc' = [proc EXCEPT ![p] = new]
  BY <1>1
<1>2. proc[p] \in ProcRow /\ FlightOK(proc[p], row[p], p \in late)
  BY <1>0, RowOf
<1>3. /\ new \in ProcRow /\ new.at = at /\ new.flight = proc[p].flight /\ new.view = proc[p].view
      /\ new.fence = proc[p].fence /\ new.beat = proc[p].beat /\ new.age = proc[p].age
      /\ new.answer = proc[p].answer /\ new.tail = proc[p].tail /\ new.revived = proc[p].revived
  BY <1>1, <1>2 DEF ProcRow
<1> HIDE DEF new
<1>4. Moves(p, new)
  BY <1>0, <1>1, <1>b, <1>3 DEF Moves, FleetTyped
<1>5. FlightOK(new, row'[p], p \in late')
  BY <1>1, <1>2, <1>3 DEF FlightOK
<1>6. \A q \in new.view \cup new.answer : q = p \/ Started(q)
  BY <1>0, <1>3, RowOf
<1>7. FleetTyped' /\ FlightsOK' /\ ViewsOK'
  BY <1>0, <1>4, <1>5, <1>6, MovesFlights
<1>8. CalmOK'
  <2>1. CASE faults = 0
    <3>1. ~Left(new) /\ new.at # "dead"
      BY <1>1, <1>3 DEF Left
    <3>2. QED
      BY <1>0, <1>1, <1>3, <1>4, <2>1, <3>1, LifeCalm
  <2>2. QED
    BY <1>1, <2>1 DEF CalmOK
<1>9. JobsTyped' /\ QueuesOK'
  <2>1. new.at \notin Down /\ (proc[p].revived => new.revived) /\ Keeps(new) /\ new.at # "dead"
        /\ new.at # "up" /\ new.at # "new"
    BY <1>1, <1>3 DEF Down, Keeps
  <2>2. new.at \in {"up", "closing", "dead"} \/ \A j \in shared \cup own[p] : j.at # p
    BY <1>1, <1>3 DEF Active
  <2>3. faults' \in Nat /\ faults <= faults' /\ UNCHANGED <<shared, own, intent>>
    BY <1>0, <1>1
  <2>4. QED
    BY <1>0, <1>b, <1>3, <2>1, <2>2, <2>3, LifeKeepsQueues
<1>10. QED
  BY <1>0, <1>1, <1>7, <1>8, <1>9 DEF RouterInv, FleetOK, FaultsTyped

\* The registry stops: the tail that begins is longer than a heartbeat and its timeout.
LEMMA DeregisterKeeps ==
  ASSUME RouterInv, NEW p \in Processes, Deregister(p) PROVE RouterInv'
<1> DEFINE new == [proc[p] EXCEPT !.at = "deregistered", !.fence = 0, !.view = {}]
<1>0. FleetTyped /\ JobsTyped /\ FaultsTyped /\ FleetOK /\ QueuesOK /\ faults \in Nat
  BY Times DEF RouterInv, FaultsTyped
<1>1. /\ proc' = [proc EXCEPT ![p] = new] /\ proc[p].at = "stopping"
      /\ UNCHANGED <<late, shared, own, intent>>
      /\ \/ row' = [row EXCEPT ![p] = 0] /\ faults' = faults
         \/ Fault /\ row' = row
  BY DEF Deregister
<1>2. /\ proc[p] \in ProcRow /\ FlightOK(proc[p], row[p], p \in late) /\ proc[p].tail = DrainTail
  BY <1>0, <1>1, RowOf DEF FlightOK
<1>3. /\ new \in ProcRow /\ new.at = "deregistered" /\ new.flight = proc[p].flight /\ new.view = {}
      /\ new.fence = 0 /\ new.beat = proc[p].beat /\ new.age = proc[p].age
      /\ new.answer = proc[p].answer /\ new.tail = DrainTail /\ new.revived = proc[p].revived
  BY <1>2, Zeros DEF ProcRow
<1> HIDE DEF new
<1>4. /\ Moves(p, new) /\ (faults' = 0 => row'[p] = 0)
      /\ faults' \in 0..MaxFaults /\ faults <= faults'
  <2>1. row \in [Processes -> 0..Ttl] /\ 0 \in 0..Ttl
    BY <1>0, Zeros DEF FleetTyped
  <2>2. row' \in [Processes -> 0..Ttl] /\ \A q \in Processes : q # p => row'[q] = row[q]
    BY <1>1, <2>1
  <2>3. /\ faults' = 0 => row'[p] = 0
        /\ faults' \in 0..MaxFaults /\ faults <= faults'
    <3>1. CASE row' = [row EXCEPT ![p] = 0] /\ faults' = faults
      BY <1>0, <2>1, <3>1 DEF FaultsTyped
    <3>2. CASE Fault
      BY <1>0, <3>2, Times DEF FaultsTyped, Fault
    <3>3. QED
      BY <1>1, <3>1, <3>2
  <2>4. QED
    BY <1>0, <1>1, <1>3, <2>2, <2>3 DEF Moves, FleetTyped
<1>5. FlightOK(new, row'[p], p \in late')
  BY <1>1, <1>2, <1>3 DEF FlightOK
<1>6. \A q \in new.view \cup new.answer : q = p \/ Started(q)
  BY <1>0, <1>3, RowOf
<1>7. FleetTyped' /\ FlightsOK' /\ ViewsOK'
  BY <1>0, <1>4, <1>5, <1>6, MovesFlights
<1>8. CalmOK'
  <2>1. CASE faults' = 0
    <3>1. faults = 0 /\ row'[p] = 0
      BY <1>0, <1>4, <2>1, Times
    <3>2. \A x \in Processes : proc[x].beat \in Nat /\ proc[x].age \in Nat
      BY <1>0, RowOf, Times
    <3>3. \A x \in Processes : Forgets(proc[x], p, new.tail)
      <4> SUFFICES ASSUME NEW x \in Processes PROVE Forgets(proc[x], p, DrainTail)
        BY <1>3
      <4>1. DrainTail + proc[x].beat > Heartbeat + Timeout /\ DrainTail + proc[x].age > Timeout
        BY <3>2, Times
      <4>2. QED
        BY <4>1 DEF Forgets
    <3>4. QED
      BY <1>0, <1>1, <1>3, <1>4, <3>1, <3>3, LifeCalm
  <2>2. QED
    BY <2>1 DEF CalmOK
<1>9. JobsTyped' /\ QueuesOK'
  <2>1. new.at \notin Down /\ (proc[p].revived => new.revived) /\ Keeps(new) /\ new.at # "dead"
        /\ new.at # "up" /\ new.at # "new"
    BY <1>3 DEF Down, Keeps
  <2>2. proc[p].at \notin {"up", "closing", "dead"} /\ faults' \in Nat
    BY <1>1, <1>4, Times
  <2>3. QED
    BY <1>0, <1>1, <1>3, <1>4, <2>1, <2>2, LifeKeepsQueues
<1>10. QED
  BY <1>4, <1>7, <1>8, <1>9 DEF RouterInv, FleetOK, FaultsTyped

\* A crash is a fault, and every queued intent had two jobs or a shared one before the first.
LEMMA CrashKeeps ==
  ASSUME RouterInv, NEW p \in Processes, Crash(p) PROVE RouterInv'
<1> DEFINE new == [Fresh EXCEPT !.at = "dead"]
<1>0. FleetTyped /\ JobsTyped /\ FaultsTyped /\ FleetOK /\ QueuesOK /\ faults \in Nat
  BY Times DEF RouterInv, FaultsTyped
<1>1. /\ proc' = [proc EXCEPT ![p] = new] /\ late' \in {late, late \cup {p}}
      /\ UNCHANGED <<row, shared, own, intent>> /\ Fault
  BY DEF Crash
<1>2. /\ new \in ProcRow /\ new.at = "dead" /\ new.flight = "none" /\ new.view = {}
      /\ new.fence = 0 /\ new.age = 0 /\ new.answer = {}
  <2>1. /\ Fresh \in ProcRow /\ Fresh.at = "new" /\ Fresh.view = {} /\ Fresh.answer = {}
        /\ Fresh.flight = "none" /\ Fresh.age = 0 /\ Fresh.fence = 0
    BY Times DEF Fresh, ProcRow
  <2> HIDE DEF Fresh
  <2>2. QED
    BY <2>1 DEF ProcRow
<1> HIDE DEF new
<1>3. /\ faults' \in 0..MaxFaults /\ faults' = faults + 1
  BY <1>0, <1>1, Times DEF FaultsTyped, Fault
<1>4. Moves(p, new)
  BY <1>0, <1>1, <1>2 DEF Moves, FleetTyped
<1>5. FlightOK(new, row'[p], p \in late')
  BY <1>2 DEF FlightOK
<1>6. \A q \in new.view \cup new.answer : q = p \/ Started(q)
  BY <1>2
<1>7. FleetTyped' /\ FlightsOK' /\ ViewsOK'
  BY <1>0, <1>4, <1>5, <1>6, MovesFlights
<1>8. CalmOK'
  BY <1>0, <1>3 DEF CalmOK
<1>9. JobsTyped' /\ QueuesOK'
  <2>1. faults + 1 <= faults' /\ faults' # 0 /\ faults' \in Nat /\ faults <= faults'
    BY <1>0, <1>3
  <2>2. QED
    BY <1>0, <1>1, <1>2, <2>1, LifeKeepsQueues
<1>10. QED
  BY <1>3, <1>7, <1>8, <1>9 DEF RouterInv, FleetOK, FaultsTyped

\* p's own jobs of an intent move to the shared queue, under ids of their own.
MovesInto(T, S, O, Q, p) ==
  /\ S \subseteq T /\ OncePerId(T)
  /\ \A k \in T : k \in S \/ (O[p] # {} /\ k.direct /\ k.at = "none" /\ k.step = "wait")
  /\ O[p] # {} => \E k \in T : k.direct
  /\ Q[p] = {} /\ \A x \in Processes : x # p => Q[x] = O[x]

LEMMA MoveKeepsQueue ==
  ASSUME NEW it \in IntentRow, NEW S \in SUBSET JobRow, NEW O, \A x \in Processes : O[x] \in SUBSET JobRow,
         NEW P, NEW R, NEW p \in Processes, OnlyRow(P, R, p), NEW f \in Nat, NEW g \in Nat, f <= g,
         P[p].at \in {"stopping", "deregistered"}, R[p].at \in {"stopping", "deregistered", "gone"},
         R[p].revived = P[p].revived,
         NEW T, NEW Q, MovesInto(T, S, O, Q, p), QueueAt(it, S, O, P, f)
  PROVE  QueueAt(it, T, Q, R, g)
<1>0. p # "none" /\ \A x \in Processes : x # p => R[x] = P[x]
  BY Times DEF OnlyRow
<1>1. \A j \in JobRow : j.at # "none" /\ j.at # p => R[j.at] = P[j.at]
  BY <1>0 DEF JobRow, Nodes
<1>2. \A j \in JobRow : JobAt(j, it, P) => JobAt(j, it, R) /\ j.at # p
  BY <1>0, <1>1 DEF JobAt
<1>m. /\ S \subseteq T /\ OncePerId(T)
      /\ \A k \in T : k \in S \/ (O[p] # {} /\ k.direct /\ k.at = "none" /\ k.step = "wait")
      /\ O[p] # {} => \E k \in T : k.direct
      /\ Q[p] = {} /\ \A x \in Processes : x # p => Q[x] = O[x]
  BY DEF MovesInto
<1>q. /\ SharedAt(it, S, P) /\ OwnAt(it, O, P) /\ HopAt(it, S, P, f) /\ InsuredAt(it, O, P)
      /\ PairAt(it, S, O, P, f) /\ SingleAt(it, S, O, P, f)
  BY DEF QueueAt
<1>3. SharedAt(it, T, R)
  <2>1. ASSUME NEW k \in T PROVE JobAt(k, it, R)
    <3>1. CASE k \in S
      BY <1>2, <1>q, <3>1 DEF SharedAt
    <3>2. CASE k \notin S
      <4>1. O[p] # {} /\ k.direct /\ k.at = "none" /\ k.step = "wait"
        BY <1>m, <2>1, <3>2
      <4>2. it.at # "new"
        BY <1>q, <4>1 DEF OwnAt, JobAt
      <4>3. QED
        BY <4>1, <4>2 DEF JobAt
    <3>3. QED
      BY <3>1, <3>2
  <2>2. QED
    BY <1>m, <2>1 DEF SharedAt
<1>4. OwnAt(it, Q, R)
  <2> SUFFICES ASSUME NEW x \in Processes
               PROVE  /\ OncePerId(Q[x])
                      /\ \A j \in Q[x] : JobAt(j, it, R) /\ ~j.direct /\ j.at \in {"none", x} /\ j.step # "insure"
    BY DEF OwnAt
  <2>1. CASE x = p
    BY <1>m, <2>1 DEF OncePerId
  <2>2. CASE x # p
    BY <1>2, <1>m, <1>q, <2>2 DEF OwnAt
  <2>3. QED
    BY <2>1, <2>2
<1>5. HopAt(it, T, R, g)
  <2>1. it.forwards \in Nat /\ it.published \in Nat
    BY DEF IntentRow
  <2>2. Returns(T, R) => Returns(S, P)
    <3> SUFFICES ASSUME NEW k \in T, ~k.direct, k.at = "none" \/ R[k.at].at = "dead"
                 PROVE  Returns(S, P)
      BY DEF Returns
    <3>1. k \in S
      BY <1>m
    <3>2. k.at = "none" \/ P[k.at].at = "dead"
      BY <1>1, <1>2, <1>q, <3>1 DEF SharedAt
    <3>3. QED
      BY <3>1, <3>2 DEF Returns
  <2>3. QED
    BY <1>q, <2>1, <2>2 DEF HopAt
<1>6. InsuredAt(it, Q, R)
  <2>1. it.by \in Processes \cup {"none"}
    BY DEF IntentRow, Nodes
  <2>2. CASE it.by = p
    BY <1>0, <1>q, <2>2 DEF InsuredAt
  <2>3. CASE it.by # p
    BY <1>0, <1>m, <1>q, <2>1, <2>3 DEF InsuredAt
  <2>4. QED
    BY <2>2, <2>3
<1>7. PairAt(it, T, Q, R, g)
  <2> SUFFICES ASSUME g = 0, it.at = "queued"
               PROVE  /\ T = {} => \E x \in Processes : Keeps(R[x]) /\ Q[x] # {} /\ KeptBut(Q, R, x)
                      /\ \A j \in T : j.step = "insure" => (\E k \in T : k.direct) \/ KeptBut(Q, R, j.at)
    BY DEF PairAt
  <2>1. /\ S = {} => \E x \in Processes : Keeps(P[x]) /\ O[x] # {} /\ KeptBut(O, P, x)
        /\ \A j \in S : j.step = "insure" => (\E k \in S : k.direct) \/ KeptBut(O, P, j.at)
    BY <1>q DEF PairAt
  <2>2. CASE O[p] # {}
    BY <1>m, <2>2
  <2>3. CASE O[p] = {}
    <3>1. \A x : KeptBut(O, P, x) => KeptBut(Q, R, x)
      BY <1>0, <1>m, <2>3 DEF KeptBut
    <3>2. \A x \in Processes : Keeps(P[x]) /\ O[x] # {} => Keeps(R[x]) /\ Q[x] # {}
      BY <1>0, <1>m, <2>3
    <3>3. T = S
      BY <1>m, <2>3
    <3>4. QED
      BY <2>1, <3>1, <3>2, <3>3
  <2>4. QED
    BY <2>2, <2>3
<1>8. SingleAt(it, T, Q, R, g)
  <2> SUFFICES ASSUME g <= 1, \A x \in Processes : ~R[x].revived, it.at = "queued"
               PROVE  CopyAt(T, Q, R)
    BY DEF SingleAt
  <2>1. CopyAt(S, O, P)
    <3>1. \A x \in Processes : ~P[x].revived
      BY <1>0
    <3>2. f <= 1
      OBVIOUS
    <3>3. QED
      BY <1>q, <3>1, <3>2 DEF SingleAt
  <2>2. CASE S # {} \/ O[p] # {}
    BY <1>m, <2>2 DEF CopyAt
  <2>3. CASE S = {} /\ O[p] = {}
    BY <1>0, <1>m, <2>1, <2>3 DEF CopyAt
  <2>4. QED
    BY <2>2, <2>3
<1>9. QED
  BY <1>3, <1>4, <1>5, <1>6, <1>7, <1>8 DEF QueueAt

\* A move pass of p.
LEMMA MoveTyped ==
  ASSUME JobsTyped, NEW p \in Processes, shared' = MovedTo(p), own' = [own EXCEPT ![p] = {}], intent' = intent
  PROVE  JobsTyped'
<1>1. /\ shared \in SUBSET JobRow /\ own \in [Processes -> SUBSET JobRow] /\ own[p] \in SUBSET JobRow
  BY DEF JobsTyped
<1>2. \A j \in JobRow : Direct(j) \in JobRow
  BY DEF Direct, Job, JobRow, Nodes
<1>3. shared' \in SUBSET JobRow
  BY <1>1, <1>2 DEF MovedTo
<1>4. own' \in [Processes -> SUBSET JobRow]
  BY <1>1
<1>5. QED
  BY <1>3, <1>4 DEF JobsTyped

\* What a pass does to the queues of one intent.
LEMMA MovesIntents ==
  ASSUME JobsTyped, NEW p \in Processes, shared' = MovedTo(p), own' = [own EXCEPT ![p] = {}],
         NEW i \in Intents, OncePerId(Of(shared, i)), OncePerId(Of(own[p], i)),
         \A j \in Of(own[p], i) : ~j.direct
  PROVE  MovesInto(Of(shared', i), Of(shared, i), OwnOf(own, i), OwnOf(own', i), p)
<1> DEFINE S == Of(shared, i)
           T == Of(shared', i)
           J == Of(own[p], i)
<1>1. own \in [Processes -> SUBSET JobRow] /\ own[p] \in SUBSET JobRow /\ J \in SUBSET JobRow
  BY DEF JobsTyped, Of
<1>2. own'[p] = {} /\ \A x \in Processes : x # p => own'[x] = own[x]
  BY <1>1
<1>3. \A j : /\ Direct(j).intent = j.intent /\ Direct(j).direct = TRUE /\ Direct(j).due = j.due
             /\ Direct(j).at = "none" /\ Direct(j).step = "wait"
  BY DEF Direct, Job
<1>4. T = S \cup {k \in {Direct(j) : j \in J} : \A j \in S : ~SameId(j, k)}
  BY <1>3 DEF MovedTo, Of, SameId
<1> HIDE DEF S, T
<1>5. S \subseteq T
  BY <1>4
<1>6. \A k, l \in J : k = l
  BY <1>1 DEF Of, OncePerId, SameId, JobRow
<1>7. OncePerId(T)
  <2> SUFFICES ASSUME NEW k \in T, NEW l \in T, SameId(k, l) PROVE k = l
    BY DEF OncePerId
  <2>1. \A a, b \in S : SameId(a, b) => a = b
    BY DEF OncePerId, S
  <2>2. \A a \in T : a \in S \/ ((\E j \in J : a = Direct(j)) /\ \A b \in S : ~SameId(b, a))
    BY <1>4
  <2>3. SameId(l, k)
    BY DEF SameId
  <2>4. QED
    BY <1>6, <2>1, <2>2, <2>3
<1>8. ASSUME NEW k \in T, k \notin S
      PROVE  J # {} /\ k.direct /\ k.at = "none" /\ k.step = "wait"
  BY <1>3, <1>4, <1>8
<1>9. ASSUME NEW j \in J PROVE \E k \in T : k.direct
  <2>1. CASE \A b \in S : ~SameId(b, Direct(j))
    BY <1>3, <1>4, <2>1
  <2>2. CASE \E b \in S : SameId(b, Direct(j))
    BY <1>3, <1>5, <2>2 DEF SameId
  <2>3. QED
    BY <2>1, <2>2
<1>10. OwnOf(own, i)[p] = J /\ OwnOf(own', i)[p] = {}
       /\ \A x \in Processes : x # p => OwnOf(own', i)[x] = OwnOf(own, i)[x]
  BY <1>2 DEF OwnOf, Of
<1> HIDE DEF J
<1>11. QED
  BY <1>5, <1>7, <1>8, <1>9, <1>10 DEF MovesInto, S, T

LEMMA MoveKeepsQueues ==
  ASSUME FleetTyped, JobsTyped, QueuesOK, NEW p \in Processes, NEW new \in ProcRow,
         proc' = [proc EXCEPT ![p] = new], faults \in Nat, faults' \in Nat, faults <= faults',
         proc[p].at \in {"stopping", "deregistered"}, new.at \in {"stopping", "deregistered", "gone"},
         new.revived = proc[p].revived,
         shared' = MovedTo(p), own' = [own EXCEPT ![p] = {}], intent' = intent
  PROVE  JobsTyped' /\ QueuesOK'
<1>0. proc'[p] = new /\ OnlyRow(proc, proc', p)
  BY DEF FleetTyped, OnlyRow
<1>1. JobsTyped'
  BY MoveTyped
<1>2. ASSUME NEW i \in Intents
      PROVE  QueueAt(intent'[i], Of(shared', i), OwnOf(own', i), proc', faults')
  <2> DEFINE it == intent[i]
             S == Of(shared, i)
             O == OwnOf(own, i)
             T == Of(shared', i)
             Q == OwnOf(own', i)
  <2>1. QueueAt(it, S, O, proc, faults)
    BY DEF QueuesOK
  <2>2. S \in SUBSET JobRow /\ it \in IntentRow /\ \A x \in Processes : O[x] \in SUBSET JobRow
    BY JobsOf
  <2>3. MovesInto(T, S, O, Q, p)
    <3>1. O[p] = Of(own[p], i)
      BY DEF OwnOf
    <3>2. OncePerId(S) /\ OncePerId(Of(own[p], i)) /\ \A j \in Of(own[p], i) : ~j.direct
      BY <2>1, <3>1 DEF QueueAt, SharedAt, OwnAt
    <3>3. QED
      BY <3>2, MovesIntents
  <2> HIDE DEF it, S, O, T, Q
  <2>4. QueueAt(it, T, Q, proc', faults')
    BY <1>0, <2>1, <2>2, <2>3, MoveKeepsQueue
  <2>5. QED
    BY <2>4 DEF it, T, Q
<1>3. QED
  BY <1>1, <1>2 DEF QueuesOK

\* A pass of the drain.
LEMMA MovePassKeeps ==
  ASSUME RouterInv, NEW p \in Processes, MovePass(p) PROVE RouterInv'
<1>0. FleetTyped /\ JobsTyped /\ FaultsTyped /\ FleetOK /\ QueuesOK /\ faults \in Nat /\ proc[p] \in ProcRow
  BY RowOf, Times DEF RouterInv, FaultsTyped
<1>1. /\ proc[p].at \in {"stopping", "deregistered"} /\ shared' = MovedTo(p)
      /\ own' = [own EXCEPT ![p] = {}] /\ UNCHANGED <<row, proc, late, intent, faults>>
  BY DEF MovePass, Draining
<1>2. proc' = [proc EXCEPT ![p] = proc[p]] /\ faults' \in Nat /\ faults <= faults'
  BY <1>0, <1>1 DEF FleetTyped
<1>3. JobsTyped' /\ QueuesOK'
  BY <1>0, <1>1, <1>2, MoveKeepsQueues
<1>4. JobStep
  BY <1>0, <1>1 DEF JobStep, FaultsTyped
<1>5. QED
  BY <1>3, <1>4, JobStepKeeps

\* The last pass: without a fault the tail is over, so nobody names the process any more.
LEMMA GoneKeeps ==
  ASSUME RouterInv, NEW p \in Processes, Gone(p) PROVE RouterInv'
<1> DEFINE new == [proc[p] EXCEPT !.at = "gone"]
<1>0. FleetTyped /\ JobsTyped /\ FaultsTyped /\ FleetOK /\ QueuesOK /\ faults \in Nat
  BY Times DEF RouterInv, FaultsTyped
<1>1. /\ proc[p].at \in {"stopping", "deregistered"} /\ shared' = MovedTo(p)
      /\ own' = [own EXCEPT ![p] = {}] /\ UNCHANGED <<row, late, intent>>
      /\ proc' = [proc EXCEPT ![p] = new]
      /\ \/ proc[p].at = "deregistered" /\ proc[p].tail = 0 /\ faults' = faults
         \/ Fault
  BY <1>0 DEF Gone, Draining, TailOver, FleetTyped
<1>2. proc[p] \in ProcRow /\ FlightOK(proc[p], row[p], p \in late)
  BY <1>0, RowOf
<1>3. /\ new \in ProcRow /\ new.at = "gone" /\ new.flight = proc[p].flight /\ new.view = proc[p].view
      /\ new.fence = proc[p].fence /\ new.beat = proc[p].beat /\ new.age = proc[p].age
      /\ new.answer = proc[p].answer /\ new.tail = proc[p].tail /\ new.revived = proc[p].revived
  BY <1>1, <1>2 DEF ProcRow
<1> HIDE DEF new
<1>4. /\ faults' \in 0..MaxFaults /\ faults <= faults' /\ faults' \in Nat
      /\ faults' = 0 => faults = 0 /\ proc[p].at = "deregistered" /\ proc[p].tail = 0
  <2>1. CASE faults' = faults /\ proc[p].at = "deregistered" /\ proc[p].tail = 0
    BY <1>0, <2>1 DEF FaultsTyped
  <2>2. CASE Fault
    BY <1>0, <2>2, Times DEF FaultsTyped, Fault
  <2>3. QED
    BY <1>1, <2>1, <2>2
<1>5. Moves(p, new)
  BY <1>0, <1>1, <1>3 DEF Moves, FleetTyped
<1>6. FlightOK(new, row'[p], p \in late')
  BY <1>1, <1>2, <1>3 DEF FlightOK
<1>7. \A q \in new.view \cup new.answer : q = p \/ Started(q)
  BY <1>0, <1>3, RowOf
<1>8. FleetTyped' /\ FlightsOK' /\ ViewsOK'
  BY <1>0, <1>5, <1>6, <1>7, MovesFlights
<1>9. CalmOK'
  <2>1. CASE faults' = 0
    <3>1. faults = 0 /\ proc[p].at = "deregistered" /\ new.tail = 0 /\ new.at # "dead"
      BY <1>3, <1>4, <2>1
    <3>2. Left(new) => Left(proc[p])
      BY <1>3, <3>1 DEF Left
    <3>3. Left(proc[p]) => row[p] = 0
            /\ \A x \in Processes : x # p /\ Beating(x) => Forgets(proc[x], p, proc[p].tail)
      BY <1>0, <3>1 DEF FleetOK, CalmOK
    <3>4. QED
      BY <1>0, <1>1, <1>3, <1>5, <3>1, <3>2, <3>3, LifeCalm
  <2>2. QED
    BY <2>1 DEF CalmOK
<1>10. JobsTyped' /\ QueuesOK'
  <2>1. new.at \in {"stopping", "deregistered", "gone"} /\ proc[p].at \in {"stopping", "deregistered"}
        /\ new.revived = proc[p].revived /\ new \in ProcRow /\ proc' = [proc EXCEPT ![p] = new]
    BY <1>1, <1>3
  <2>2. shared' = MovedTo(p) /\ own' = [own EXCEPT ![p] = {}] /\ intent' = intent
    BY <1>1
  <2>3. QED
    BY <1>0, <1>4, <2>1, <2>2, MoveKeepsQueues
<1>11. QED
  BY <1>4, <1>8, <1>9, <1>10 DEF RouterInv, FleetOK, FaultsTyped

-----------------------------------------------------------------------------
(* Time *)

LEMMA PredIs ==
  /\ Pred(0) = 0 /\ \A n \in Nat : Pred(n) \in Nat /\ Pred(n) <= n
  /\ \A n \in Nat : n # 0 => Pred(n) = n - 1
  /\ \A m \in Nat : \A n \in 0..m : Pred(n) \in 0..m
BY DEF Pred

\* The row of a process a step later.
Aged(q) ==
  [q EXCEPT !.fence = Pred(@),
            !.beat = IF q.at \in {"up", "closing", "stopping"} /\ @ < Heartbeat THEN @ + 1 ELSE @,
            !.age = IF q.flight # "none" THEN @ + 1 ELSE @,
            !.tail = IF q.at = "deregistered" THEN Pred(@) ELSE @]

\* Nothing of q is due.
AtRest(q) ==
  /\ q.at \in {"up", "closing", "stopping"} /\ q.flight = "none" => q.beat # Heartbeat
  /\ q.flight # "none" => q.age # Timeout
  /\ q.at = "deregistered" => q.tail # 0

LEMMA AgedIs ==
  ASSUME NEW q \in ProcRow, AtRest(q)
  PROVE  /\ Aged(q) \in ProcRow /\ Aged(q).at = q.at /\ Aged(q).flight = q.flight
         /\ Aged(q).view = q.view /\ Aged(q).answer = q.answer /\ Aged(q).revived = q.revived
         /\ Aged(q).fence = Pred(q.fence)
         /\ Aged(q).beat = (IF q.at \in {"up", "closing", "stopping"} /\ q.beat < Heartbeat
                              THEN q.beat + 1 ELSE q.beat)
         /\ Aged(q).age = IF q.flight # "none" THEN q.age + 1 ELSE q.age
         /\ Aged(q).tail = IF q.at = "deregistered" THEN Pred(q.tail) ELSE q.tail
<1>1. q.fence \in 0..Fence /\ q.beat \in 0..Heartbeat /\ q.age \in 0..Timeout /\ q.tail \in 0..DrainTail
  BY DEF ProcRow
<1>2. Pred(q.fence) \in 0..Fence /\ Pred(q.tail) \in 0..DrainTail
  BY <1>1, PredIs, Times
<1>3. (IF q.at \in {"up", "closing", "stopping"} /\ q.beat < Heartbeat THEN q.beat + 1 ELSE q.beat) \in 0..Heartbeat
  BY <1>1, Times
<1>4. (IF q.flight # "none" THEN q.age + 1 ELSE q.age) \in 0..Timeout
  BY <1>1, Times DEF AtRest
<1>5. QED
  BY <1>2, <1>3, <1>4 DEF Aged, ProcRow

\* The row and the fence lapse together.
LEMMA AgedFlight ==
  ASSUME NEW q \in ProcRow, AtRest(q), NEW r \in 0..Ttl, NEW isLate, FlightOK(q, r, isLate)
  PROVE  FlightOK(Aged(q), Pred(r), isLate)
<1> DEFINE b == Aged(q)
<1>1. q.fence \in 0..Fence /\ q.beat \in 0..Heartbeat /\ q.age \in 0..Timeout /\ q.tail \in 0..DrainTail
  BY DEF ProcRow
<1>2. /\ b \in ProcRow /\ b.at = q.at /\ b.flight = q.flight
      /\ b.view = q.view /\ b.answer = q.answer /\ b.revived = q.revived
      /\ b.fence = Pred(q.fence)
      /\ b.beat = (IF q.at \in {"up", "closing", "stopping"} /\ q.beat < Heartbeat
                     THEN q.beat + 1 ELSE q.beat)
      /\ b.age = (IF q.flight # "none" THEN q.age + 1 ELSE q.age)
      /\ b.tail = (IF q.at = "deregistered" THEN Pred(q.tail) ELSE q.tail)
  BY AgedIs
<1> HIDE DEF b
<1>3. b.at = "new" => b = Fresh /\ Pred(r) = 0 /\ ~isLate
  <2> SUFFICES ASSUME q.at = "new" PROVE b = Fresh /\ Pred(r) = 0 /\ ~isLate
    BY <1>2
  <2>1. q = Fresh /\ r = 0 /\ ~isLate
    BY DEF FlightOK
  <2>2. /\ q.fence = 0 /\ q.flight = "none" /\ q.view = {} /\ q.answer = {} /\ q.revived = FALSE
        /\ q.beat = 0 /\ q.age = 0 /\ q.tail = DrainTail
    BY <2>1 DEF Fresh
  <2>3. /\ b.at = "new" /\ b.fence = 0 /\ b.flight = "none" /\ b.view = {} /\ b.answer = {}
        /\ b.revived = FALSE /\ b.beat = 0 /\ b.age = 0 /\ b.tail = DrainTail
    BY <1>2, <2>2, PredIs
  <2>4. b = Fresh
    BY <1>2, <2>3 DEF ProcRow, Fresh
  <2>5. QED
    BY <2>1, <2>4, PredIs
<1>4. b.fence # 0 => Pred(r) > b.fence
  <2>1. CASE q.fence = 0
    BY <1>2, <2>1, PredIs
  <2>2. CASE q.fence # 0
    <3>1. r > q.fence /\ q.fence \in Nat /\ r \in Nat
      BY <1>1, <2>2, Times DEF FlightOK
    <3>2. Pred(r) = r - 1 /\ b.fence = q.fence - 1
      BY <1>2, <2>2, <3>1, PredIs
    <3>3. QED
      BY <3>1, <3>2
  <2>3. QED
    BY <2>1, <2>2
<1>5. b.at \in {"up", "closing", "stopping"} /\ b.flight = "answered" => Pred(r) + b.age >= Ttl
  <2> SUFFICES ASSUME q.at \in {"up", "closing", "stopping"}, q.flight = "answered"
               PROVE  Pred(r) + b.age >= Ttl
    BY <1>2
  <2>1. r + q.age >= Ttl /\ b.age = q.age + 1
    BY <1>2 DEF FlightOK
  <2>2. r # 0 /\ r \in Nat
    BY <1>1, <2>1, Times
  <2>3. Pred(r) = r - 1
    BY <2>2, PredIs
  <2>4. QED
    BY <1>1, <2>1, <2>2, <2>3, Times
<1>6. b.at \in {"up", "closing", "stopping"} /\ b.flight # "none" => b.beat = b.age
  BY <1>1, <1>2, Times DEF FlightOK, AtRest
<1>7. /\ b.flight = "none" => b.age = 0
      /\ b.flight # "answered" => b.answer = {}
      /\ b.at \in {"new", "up", "closing", "stopping"} => b.tail = DrainTail
  BY <1>2 DEF FlightOK
<1>8. QED
  BY <1>3, <1>4, <1>5, <1>6, <1>7 DEF FlightOK, b

\* The tail shortens by what the beat comes nearer.
LEMMA AgedForgets ==
  ASSUME NEW b \in ProcRow, AtRest(b), b.at \in {"up", "closing", "stopping"},
         b.flight # "none" => b.beat = b.age,
         NEW q, NEW t \in Nat, NEW u \in Nat, (t = 0 /\ u = 0) \/ (t # 0 /\ u = t - 1),
         Forgets(b, q, t)
  PROVE  Forgets(Aged(b), q, u)
<1> DEFINE c == Aged(b)
<1>1. b.beat \in 0..Heartbeat /\ b.age \in 0..Timeout
  BY DEF ProcRow
<1>2. /\ c.flight = b.flight /\ c.view = b.view /\ c.answer = b.answer
      /\ c.beat = (IF b.beat < Heartbeat THEN b.beat + 1 ELSE b.beat)
      /\ c.age = (IF b.flight # "none" THEN b.age + 1 ELSE b.age)
  BY AgedIs
<1> HIDE DEF c
<1>3. b.beat < Heartbeat /\ c.beat = b.beat + 1
  <2>1. b.beat < Heartbeat
    BY <1>1, Times DEF AtRest
  <2>2. QED
    BY <1>2, <2>1
<1>4. u + c.beat >= t + b.beat /\ (b.flight # "none" => u + c.age >= t + b.age)
  <2>1. u >= t - 1
    OBVIOUS
  <2>2. u + c.beat >= t + b.beat
    BY <1>1, <1>3, <2>1, Times
  <2>3. b.flight # "none" => u + c.age >= t + b.age
    BY <1>1, <1>2, <2>1, Times
  <2>4. QED
    BY <2>2, <2>3
<1>5. \A x, y, z \in Int : x >= y /\ y > z => x > z
  OBVIOUS
<1>6. /\ t + b.beat \in Int /\ u + c.beat \in Int /\ Heartbeat + Timeout \in Int /\ Timeout \in Int
      /\ t + b.age \in Int /\ (b.flight # "none" => u + c.age \in Int)
  BY <1>1, <1>2, <1>3, Times
<1>7. q \in c.view /\ c.flight = "none" => u + c.beat > Heartbeat + Timeout
  BY <1>2, <1>4, <1>6 DEF Forgets
<1>8. q \in c.view /\ c.flight # "none" /\ q \notin c.answer => u + c.age > Timeout
  BY <1>2, <1>4, <1>6 DEF Forgets
<1>9. q \in c.answer => u + c.beat > Heartbeat + Timeout
  BY <1>2, <1>4, <1>6 DEF Forgets
<1>10. QED
  BY <1>7, <1>8, <1>9 DEF Forgets, c

\* The jobs of an intent a step later.
LEMMA OlderJobs ==
  ASSUME NEW jobs \in SUBSET JobRow
  PROVE  /\ Older(jobs) \in SUBSET JobRow /\ (Older(jobs) = {} => jobs = {}) /\ (jobs = {} => Older(jobs) = {})
         /\ \A i : Of(Older(jobs), i) = Older(Of(jobs, i))
         /\ \A k \in Older(jobs) : \E j \in jobs : k = [j EXCEPT !.due = Pred(@)]
         /\ \A j \in jobs : [j EXCEPT !.due = Pred(@)] \in Older(jobs)
<1>1. \A j \in JobRow : [j EXCEPT !.due = Pred(@)].intent = j.intent
  BY DEF JobRow
<1>2. \A j \in JobRow : [j EXCEPT !.due = Pred(@)] \in JobRow
  <2> SUFFICES ASSUME NEW j \in JobRow PROVE [j EXCEPT !.due = Pred(@)] \in JobRow
    OBVIOUS
  <2>1. Pred(j.due) \in 0..Recovery
    BY PredIs, Times DEF JobRow
  <2>2. QED
    BY <2>1 DEF JobRow
<1>3. QED
  BY <1>1, <1>2 DEF Older, Of

Later(j) == [j EXCEPT !.due = Pred(@)]

\* A step of time on the queues of one intent: the insurance comes due as the wait grows.
LEMMA OlderQueue ==
  ASSUME NEW it \in IntentRow, NEW S \in SUBSET JobRow, NEW O, \A x \in Processes : O[x] \in SUBSET JobRow,
         NEW P, NEW f \in Nat, QueueAt(it, S, O, P, f),
         NEW next, next = it \/ (it.wait <= Recovery /\ next = [it EXCEPT !.wait = @ + 1]),
         next # it => it.at = "queued" /\ it.by # "none" /\ P[it.by].at = "up",
         it.at = "queued" /\ it.by # "none" /\ P[it.by].at = "up" =>
           (\A j \in O[it.by] : ~Ready(j)),
         NEW Q, \A x \in Processes : Q[x] = Older(O[x])
  PROVE  QueueAt(next, Older(S), Q, P, f)
<1> DEFINE T == Older(S)
<1>q. /\ SharedAt(it, S, P) /\ OwnAt(it, O, P) /\ HopAt(it, S, P, f) /\ InsuredAt(it, O, P)
      /\ PairAt(it, S, O, P, f) /\ SingleAt(it, S, O, P, f)
  BY DEF QueueAt
<1>i. /\ next.at = it.at /\ next.by = it.by /\ next.forwards = it.forwards /\ next.published = it.published
      /\ it.by \in Processes \cup {"none"} /\ it.wait \in Nat
      /\ next.wait = it.wait \/ next.wait = it.wait + 1
  BY DEF IntentRow, Nodes
<1>j. \A j \in JobRow : /\ Later(j).intent = j.intent /\ Later(j).direct = j.direct /\ Later(j).at = j.at
                        /\ Later(j).step = j.step /\ Later(j).due = Pred(j.due)
  BY DEF Later, JobRow
<1>a. \A j \in JobRow : JobAt(j, it, P) => JobAt(Later(j), next, P)
  BY <1>i, <1>j DEF JobAt
<1>t. /\ \A k \in T : \E j \in S : k = Later(j)
      /\ \A j \in S : Later(j) \in T
      /\ T = {} => S = {}
  BY OlderJobs DEF Later
<1>u. \A x \in Processes : /\ \A k \in Q[x] : \E j \in O[x] : k = Later(j)
                           /\ \A j \in O[x] : Later(j) \in Q[x]
                           /\ Q[x] = {} <=> O[x] = {}
  <2> SUFFICES ASSUME NEW x \in Processes
               PROVE  /\ \A k \in Q[x] : \E j \in O[x] : k = Later(j)
                      /\ \A j \in O[x] : Later(j) \in Q[x]
                      /\ Q[x] = {} <=> O[x] = {}
    OBVIOUS
  <2>1. O[x] \in SUBSET JobRow /\ Q[x] = Older(O[x])
    OBVIOUS
  <2>2. /\ Older(O[x]) = {} <=> O[x] = {}
        /\ \A k \in Older(O[x]) : \E j \in O[x] : k = Later(j)
        /\ \A j \in O[x] : Later(j) \in Older(O[x])
    BY <2>1, OlderJobs DEF Later
  <2>3. QED
    BY <2>1, <2>2
<1> HIDE DEF T
<1>1. SharedAt(next, T, P)
  <2>1. OncePerId(T)
    <3> SUFFICES ASSUME NEW k \in T, NEW l \in T, SameId(k, l) PROVE k = l
      BY DEF OncePerId
    <3>1. PICK a \in S : k = Later(a)
      BY <1>t
    <3>2. PICK b \in S : l = Later(b)
      BY <1>t
    <3>3. SameId(a, b)
      BY <1>j, <3>1, <3>2 DEF SameId
    <3>4. QED
      BY <1>q, <3>1, <3>2, <3>3 DEF SharedAt, OncePerId
  <2>2. \A k \in T : JobAt(k, next, P)
    BY <1>a, <1>q, <1>t DEF SharedAt
  <2>3. QED
    BY <2>1, <2>2 DEF SharedAt
<1>2. OwnAt(next, Q, P)
  <2> SUFFICES ASSUME NEW x \in Processes
               PROVE  /\ OncePerId(Q[x])
                      /\ \A j \in Q[x] : JobAt(j, next, P) /\ ~j.direct /\ j.at \in {"none", x} /\ j.step # "insure"
    BY DEF OwnAt
  <2>0. /\ OncePerId(O[x]) /\ O[x] \in SUBSET JobRow
        /\ \A j \in O[x] : JobAt(j, it, P) /\ ~j.direct /\ j.at \in {"none", x} /\ j.step # "insure"
    BY <1>q DEF OwnAt
  <2>1. OncePerId(Q[x])
    <3> SUFFICES ASSUME NEW k \in Q[x], NEW l \in Q[x], SameId(k, l) PROVE k = l
      BY DEF OncePerId
    <3>1. PICK a \in O[x] : k = Later(a)
      BY <1>u
    <3>2. PICK b \in O[x] : l = Later(b)
      BY <1>u
    <3>3. SameId(a, b)
      BY <1>j, <2>0, <3>1, <3>2 DEF SameId
    <3>4. QED
      BY <2>0, <3>1, <3>2, <3>3 DEF OncePerId
  <2>2. ASSUME NEW k \in Q[x]
        PROVE  JobAt(k, next, P) /\ ~k.direct /\ k.at \in {"none", x} /\ k.step # "insure"
    <3>1. PICK a \in O[x] : k = Later(a)
      BY <1>u
    <3>2. QED
      BY <1>a, <1>j, <2>0, <3>1
  <2>3. QED
    BY <2>1, <2>2
<1>3. HopAt(next, T, P, f)
  <2>1. Returns(T, P) => Returns(S, P)
    <3> SUFFICES ASSUME NEW k \in T, ~k.direct, k.at = "none" \/ P[k.at].at = "dead"
                 PROVE  Returns(S, P)
      BY DEF Returns
    <3>1. PICK a \in S : k = Later(a)
      BY <1>t
    <3>2. ~a.direct /\ (a.at = "none" \/ P[a.at].at = "dead")
      BY <1>j, <3>1
    <3>3. QED
      BY <3>2 DEF Returns
  <2>2. QED
    BY <1>i, <1>q, <2>1 DEF HopAt
<1>4. InsuredAt(next, Q, P)
  <2> SUFFICES ASSUME it.by # "none", it.at = "queued", P[it.by].at = "up"
               PROVE  \E k \in Q[it.by] : k.at = "none" /\ k.due + next.wait <= Recovery
    BY <1>i, <1>q DEF InsuredAt
  <2>1. PICK j \in O[it.by] : j.at = "none" /\ j.due + it.wait <= Recovery
    BY <1>q DEF InsuredAt
  <2>2. it.by \in Processes /\ j \in JobRow /\ j.due # 0
    BY <1>i, <2>1 DEF Ready
  <2>3. j.due \in Nat /\ Later(j).due = j.due - 1 /\ Later(j).at = "none" /\ Later(j) \in Q[it.by]
    <3>1. j.due \in Nat
      BY <2>2, Times DEF JobRow
    <3>2. QED
      BY <1>j, <1>u, <2>1, <2>2, <3>1, PredIs
  <2>4. Later(j).due + next.wait <= Recovery
    BY <1>i, <2>1, <2>3, Times
  <2>5. QED
    BY <2>3, <2>4
<1>5. PairAt(next, T, Q, P, f)
  <2>1. \A x : KeptBut(O, P, x) => KeptBut(Q, P, x)
    BY <1>u DEF KeptBut
  <2> SUFFICES ASSUME f = 0, it.at = "queued"
               PROVE  /\ T = {} => \E x \in Processes : Keeps(P[x]) /\ Q[x] # {} /\ KeptBut(Q, P, x)
                      /\ \A j \in T : j.step = "insure" => (\E k \in T : k.direct) \/ KeptBut(Q, P, j.at)
    BY <1>i DEF PairAt
  <2>2. T = {} => \E x \in Processes : Keeps(P[x]) /\ Q[x] # {} /\ KeptBut(Q, P, x)
    BY <1>q, <1>t, <1>u, <2>1 DEF PairAt
  <2>3. ASSUME NEW j \in T, j.step = "insure" PROVE (\E k \in T : k.direct) \/ KeptBut(Q, P, j.at)
    <3>1. PICK a \in S : j = Later(a)
      BY <1>t
    <3>2. a.step = "insure" /\ a.at = j.at
      BY <1>j, <2>3, <3>1
    <3>3. (\E k \in S : k.direct) \/ KeptBut(O, P, a.at)
      BY <1>q, <3>2 DEF PairAt
    <3>4. (\E k \in S : k.direct) => \E k \in T : k.direct
      BY <1>j, <1>t
    <3>5. QED
      BY <2>1, <3>2, <3>3, <3>4
  <2>4. QED
    BY <2>2, <2>3
<1>6. SingleAt(next, T, Q, P, f)
  BY <1>i, <1>q, <1>t, <1>u DEF SingleAt, CopyAt
<1>7. QED
  BY <1>1, <1>2, <1>3, <1>4, <1>5, <1>6 DEF QueueAt, T

\* A step of time: nothing is due, so every sum the invariant bounds stays where it was.
LEMMA ClockKeeps == ASSUME RouterInv, Clock PROVE RouterInv'
<1>0. FleetTyped /\ JobsTyped /\ FaultsTyped /\ FleetOK /\ QueuesOK /\ faults \in Nat
  BY Times DEF RouterInv, FaultsTyped
<1>1. /\ row' = [p \in Processes |-> Pred(row[p])] /\ UNCHANGED <<late, faults>>
      /\ shared' = Older(shared) /\ own' = [p \in Processes |-> Older(own[p])]
  BY DEF Clock
<1>2. \A p \in Processes : proc'[p] = Aged(proc[p])
  BY DEF Clock, Aged, Beating
<1>a. ASSUME NEW p \in Processes
      PROVE  /\ proc[p] \in ProcRow /\ AtRest(proc[p]) /\ row[p] \in 0..Ttl
             /\ FlightOK(proc[p], row[p], p \in late)
  <2>1. proc[p] \in ProcRow /\ row[p] \in 0..Ttl /\ FlightOK(proc[p], row[p], p \in late)
    BY <1>0, RowOf
  <2>2. AtRest(proc[p])
    BY DEF Clock, Urgent, AtRest, Beating, TailOver
  <2>3. QED
    BY <2>1, <2>2
<1>b. ASSUME NEW p \in Processes
      PROVE  /\ proc'[p].at = proc[p].at /\ proc'[p].view = proc[p].view /\ proc'[p].answer = proc[p].answer
             /\ proc'[p].revived = proc[p].revived /\ proc'[p] \in ProcRow
             /\ proc'[p].tail = (IF proc[p].at = "deregistered" THEN Pred(proc[p].tail) ELSE proc[p].tail)
  BY <1>2, <1>a, AgedIs
<1>3. FleetTyped'
  <2>1. row' \in [Processes -> 0..Ttl]
    BY <1>1, <1>a, PredIs, Times
  <2>2. proc' \in [Processes -> ProcRow]
    BY <1>b DEF Clock
  <2>3. QED
    BY <1>0, <1>1, <2>1, <2>2 DEF FleetTyped
<1>4. FlightsOK'
  <2> SUFFICES ASSUME NEW p \in Processes PROVE FlightOK(Aged(proc[p]), Pred(row[p]), p \in late)
    BY <1>1, <1>2 DEF FlightsOK
  <2>1. QED
    BY <1>a, AgedFlight
<1>5. ViewsOK'
  BY <1>0, <1>b DEF FleetOK, ViewsOK, Started
<1>6. CalmOK'
  <2> SUFFICES ASSUME faults = 0
               PROVE  /\ late = {}
                      /\ \A p \in Processes : proc'[p].at # "dead"
                      /\ \A q \in Processes : Left(proc'[q]) =>
                           /\ row'[q] = 0
                           /\ proc'[q].at = "gone" => proc'[q].tail = 0
                           /\ \A p \in Processes : p # q /\ Beating(p)' => Forgets(proc'[p], q, proc'[q].tail)
    BY <1>1 DEF CalmOK
  <2>1. late = {} /\ \A p \in Processes : proc'[p].at # "dead"
    BY <1>0, <1>b DEF FleetOK, CalmOK
  <2>2. ASSUME NEW q \in Processes, Left(proc'[q])
        PROVE  /\ row'[q] = 0
               /\ proc'[q].at = "gone" => proc'[q].tail = 0
               /\ \A p \in Processes : p # q /\ Beating(p)' => Forgets(proc'[p], q, proc'[q].tail)
    <3> DEFINE t == proc[q].tail
               u == proc'[q].tail
    <3>1. Left(proc[q])
      BY <1>b, <2>2 DEF Left
    <3>2. /\ row[q] = 0
          /\ proc[q].at = "gone" => t = 0
          /\ \A p \in Processes : p # q /\ Beating(p) => Forgets(proc[p], q, t)
      BY <1>0, <3>1 DEF FleetOK, CalmOK
    <3>3. t \in Nat /\ (proc[q].at = "deregistered" => t # 0) /\ proc[q].at \in {"deregistered", "gone"}
      <4>1. t \in Nat
        BY <1>a, Times DEF ProcRow
      <4>2. proc[q].at = "deregistered" => t # 0
        BY <1>a DEF AtRest
      <4>3. QED
        BY <3>1, <4>1, <4>2 DEF Left
    <3>4. u = IF proc[q].at = "deregistered" THEN Pred(t) ELSE t
      BY <1>b
    <3> HIDE DEF t, u
    <3>5. u \in Nat /\ ((t = 0 /\ u = 0) \/ (t # 0 /\ u = t - 1))
      BY <3>2, <3>3, <3>4, PredIs
    <3>6. ASSUME NEW p \in Processes, p # q, Beating(p)'
          PROVE  Forgets(proc'[p], q, u)
      <4>1. proc[p].at \in {"up", "closing", "stopping"}
        BY <1>b, <3>6 DEF Beating
      <4>2. Forgets(proc[p], q, t)
        BY <3>2, <3>6, <4>1 DEF Beating
      <4>3. proc[p].flight # "none" => proc[p].beat = proc[p].age
        BY <1>a, <4>1 DEF FlightOK
      <4>4. Forgets(Aged(proc[p]), q, u)
        BY <1>a, <3>3, <3>5, <4>1, <4>2, <4>3, AgedForgets
      <4>5. QED
        BY <1>2, <4>4
    <3>7. row'[q] = 0
      BY <1>1, <3>2, PredIs
    <3>8. proc'[q].at = "gone" => u = 0
      BY <1>b, <3>2, <3>4
    <3>9. QED
      BY <3>6, <3>7, <3>8 DEF u
  <2>3. QED
    BY <2>1, <2>2
<1>7. ASSUME NEW i \in Intents
      PROVE  /\ intent'[i] \in IntentRow
             /\ QueueAt(intent'[i], Of(shared', i), OwnOf(own', i), proc', faults')
  <2> DEFINE it == intent[i]
             next == intent'[i]
             S == Of(shared, i)
             O == OwnOf(own, i)
             Q == OwnOf(own', i)
  <2>1. QueueAt(it, S, O, proc, faults)
    BY <1>0 DEF QueuesOK
  <2>2. S \in SUBSET JobRow /\ it \in IntentRow /\ \A x \in Processes : O[x] \in SUBSET JobRow
    BY <1>0, JobsOf
  <2>3. SameFleet(proc, proc')
    BY <1>b DEF SameFleet
  <2>4. QueueAt(it, S, O, proc', faults)
    <3> HIDE DEF it, S, O
    <3>1. QED
      BY <1>0, <2>1, <2>2, <2>3, FleetKeepsQueue
  <2>5. next = IF it.at = "queued" /\ it.by # "none" /\ Up(it.by) /\ it.wait <= Recovery
                 THEN [it EXCEPT !.wait = @ + 1] ELSE it
    BY DEF Clock
  <2>6. it.by # "none" => it.by \in Processes
    BY <2>2 DEF IntentRow, Nodes
  <2>7. /\ next = it \/ (it.wait <= Recovery /\ next = [it EXCEPT !.wait = @ + 1])
        /\ next # it => it.at = "queued" /\ it.by # "none" /\ proc'[it.by].at = "up"
    BY <1>b, <2>5, <2>6 DEF Up
  <2>8. it.at = "queued" /\ it.by # "none" /\ proc'[it.by].at = "up" => \A j \in O[it.by] : ~Ready(j)
    <3>1. \A p \in Processes : Up(p) => \A j \in own[p] : ~Ready(j)
      BY DEF Clock, Urgent
    <3>2. QED
      BY <1>b, <2>6, <3>1 DEF Up, OwnOf, Of
  <2>9. Of(shared', i) = Older(S) /\ \A x \in Processes : Q[x] = Older(O[x])
    <3>1. shared \in SUBSET JobRow /\ \A x \in Processes : own[x] \in SUBSET JobRow
      BY <1>0 DEF JobsTyped
    <3>2. QED
      BY <1>1, <3>1, OlderJobs DEF OwnOf
  <2>10. next \in IntentRow
    BY <2>2, <2>7 DEF IntentRow
  <2> HIDE DEF it, next, S, O, Q
  <2>11. QueueAt(next, Older(S), Q, proc', faults)
    BY <1>0, <2>2, <2>4, <2>7, <2>8, <2>9, OlderQueue
  <2>12. QED
    BY <1>1, <2>9, <2>10, <2>11 DEF next, Q
<1>8. JobsTyped'
  <2>1. shared' \in SUBSET JobRow /\ \A p \in Processes : Older(own[p]) \in SUBSET JobRow
    BY <1>0, <1>1, OlderJobs DEF JobsTyped
  <2>2. own' \in [Processes -> SUBSET JobRow]
    BY <1>1, <2>1
  <2>3. intent' \in [Intents -> IntentRow]
    BY <1>7 DEF Clock
  <2>4. QED
    BY <2>1, <2>2, <2>3 DEF JobsTyped
<1>9. QueuesOK'
  BY <1>7 DEF QueuesOK
<1>10. QED
  BY <1>0, <1>1, <1>3, <1>4, <1>5, <1>6, <1>8, <1>9 DEF RouterInv, FleetOK, FaultsTyped

LEMMA RouterSteps == ASSUME RouterInv, [Next]_vars PROVE RouterInv'
<1>1. CASE \E p \in Processes : Start(p) \/ Close(p) \/ Closed(p) \/ Deregister(p) \/ Gone(p) \/ Crash(p)
  BY <1>1, StartKeeps, CloseKeeps, DeregisterKeeps, GoneKeeps, CrashKeeps
<1>2. CASE \E p \in Processes : Beat(p) \/ BeatAnswers(p) \/ BeatFails(p) \/ LateBeat(p) \/ BeatStarts(p)
  BY <1>2, BeatKeeps, BeatAnswersKeeps, BeatFailsKeeps, LateBeatKeeps, BeatStartsKeeps
<1>3. CASE \E p \in Processes : MovePass(p)
  BY <1>3, MovePassKeeps
<1>4. CASE \E p \in Processes : \E j \in shared : Consume(p, j) \/ Insure(p, j) \/ ForwardFails(p, j)
  BY <1>4, ConsumeKeeps, InsureKeeps, ForwardFailsKeeps
<1>5. CASE \E p \in Processes : \E j \in own[p] : ConsumeOwn(p, j)
  BY <1>5, ConsumeOwnKeeps
<1>6. CASE \E p \in Processes : \E j \in shared \cup own[p] : Done(p, j)
  BY <1>6, DoneKeeps
<1>7. CASE \E i \in Intents : Publish(i)
  BY <1>7, PublishKeeps
<1>8. CASE \E j \in shared : Stalled(j)
  BY <1>8, StalledKeeps
<1>9. CASE Clock
  BY <1>9, ClockKeeps
<1>10. CASE UNCHANGED vars
  <2>1. UNCHANGED <<row, proc, late, shared, own, intent, faults>>
    BY <1>10 DEF vars
  <2>2. JobsTyped' /\ QueuesOK'
    BY <2>1 DEF RouterInv, JobsTyped, QueuesOK
  <2>3. JobStep
    BY <2>1, Times DEF RouterInv, JobStep, FaultsTyped
  <2>4. QED
    BY <2>2, <2>3, JobStepKeeps
<1>11. QED
  BY <1>1, <1>2, <1>3, <1>4, <1>5, <1>6, <1>7, <1>8, <1>9, <1>10 DEF Next

-----------------------------------------------------------------------------
LEMMA OwnerLeads ==
  ASSUME NEW p, NEW i, OwnerOf(p, i) # "none"
  PROVE  proc[p].fence # 0
BY DEF OwnerOf, LiveView, Fenced

\* The invariant says what RoutingHolds says.
LEMMA RouterIsSafe == ASSUME RouterInv PROVE RoutingHolds
<1>0. FleetTyped /\ JobsTyped /\ FaultsTyped /\ FleetOK /\ QueuesOK /\ faults \in Nat
  BY Times DEF RouterInv, FaultsTyped
<1>q. ASSUME NEW i \in Intents
      PROVE  QueueAt(intent[i], Of(shared, i), OwnOf(own, i), proc, faults)
  BY <1>0 DEF QueuesOK
<1>j. /\ \A j \in shared : j.intent \in Intents
      /\ \A p \in Processes : \A j \in own[p] : j.intent \in Intents
  BY <1>0 DEF JobsTyped, JobRow
<1>1. RouterTypeOK
  <2>1. OncePerId(shared)
    <3> SUFFICES ASSUME NEW j \in shared, NEW k \in shared, SameId(j, k) PROVE j = k
      BY DEF OncePerId
    <3>1. j \in Of(shared, j.intent) /\ k \in Of(shared, j.intent) /\ OncePerId(Of(shared, j.intent))
      BY <1>j, <1>q DEF Of, SameId, QueueAt, SharedAt
    <3>2. QED
      BY <3>1 DEF OncePerId
  <2>2. ASSUME NEW p \in Processes PROVE OncePerId(own[p])
    <3> SUFFICES ASSUME NEW j \in own[p], NEW k \in own[p], SameId(j, k) PROVE j = k
      BY DEF OncePerId
    <3>1. j \in Of(own[p], j.intent) /\ k \in Of(own[p], j.intent)
      BY <1>j DEF Of, SameId
    <3>2. OncePerId(OwnOf(own, j.intent)[p]) /\ OwnOf(own, j.intent)[p] = Of(own[p], j.intent)
      BY <1>j, <1>q DEF QueueAt, OwnAt, OwnOf
    <3>3. QED
      BY <3>1, <3>2 DEF OncePerId
  <2>3. QED
    BY <1>0, <2>1, <2>2 DEF RouterTypeOK, FleetTyped, FaultsTyped, ProcRow, Down
<1>2. FencedFirst
  <2> SUFFICES ASSUME NEW p \in Processes, NEW i \in Intents, OwnerOf(p, i) = p PROVE row[p] > 0
    BY DEF FencedFirst
  <2>1. proc[p].fence # 0
    BY Times, OwnerLeads
  <2>2. row[p] > proc[p].fence /\ row[p] \in 0..Ttl /\ proc[p].fence \in 0..Fence
    BY <1>0, <2>1, RowOf DEF FlightOK
  <2>3. QED
    BY <2>2, Times
<1>3. OneHop
  BY <1>q DEF OneHop, QueueAt, HopAt
<1>4. TakenInTime
  <2> SUFFICES ASSUME NEW i \in Intents, intent[i].at = "queued", intent[i].by # "none", Up(intent[i].by)
               PROVE  intent[i].wait <= Recovery
    BY DEF TakenInTime
  <2>1. intent[i].by \in Processes /\ intent[i].wait \in Nat
    BY <1>0 DEF JobsTyped, IntentRow, Nodes
  <2>2. PICK j \in OwnOf(own, i)[intent[i].by] : j.at = "none" /\ j.due + intent[i].wait <= Recovery
    BY <1>q DEF QueueAt, InsuredAt, Up
  <2>3. j.due \in Nat
    <3>1. j \in JobRow
      BY <1>0, <2>1, <2>2, JobsOf
    <3>2. QED
      BY <3>1, Times DEF JobRow
  <2>4. QED
    BY <2>1, <2>2, <2>3, Times
<1>5. OneFaultLosesNothing
  <2> SUFFICES ASSUME faults <= 1, \A p \in Processes : ~proc[p].revived /\ p \notin late,
                      NEW i \in Intents, intent[i].at = "queued"
               PROVE  HasCopy(i)
    BY DEF OneFaultLosesNothing
  <2>1. CopyAt(Of(shared, i), OwnOf(own, i), proc)
    BY <1>q DEF QueueAt, SingleAt
  <2>2. QED
    BY <2>1 DEF CopyAt, HasCopy, Of, OwnOf
<1>6. QED
  BY <1>1, <1>2, <1>3, <1>4, <1>5 DEF RoutingHolds

\* In every fleet and under any faults: a queue holds a job id once, no single fault leaves a
\* queued intent without a job some process takes (forward, drain), a process that claims an
\* account still has its row, an intent hops once a publication and once a fault, and a running
\* forwarder takes its intent back by recoveryDelayMs.
THEOREM IntentsAreRouted == Spec => []RoutingHolds
<1>1. Spec => []RouterInv
  <2>1. Init => RouterInv
    BY Inited
  <2>2. RouterInv /\ [Next]_vars => RouterInv'
    BY RouterSteps
  <2>3. QED
    BY <2>1, <2>2, PTL DEF Spec
<1>2. RouterInv => RoutingHolds
  BY RouterIsSafe
<1>3. QED
  BY <1>1, <1>2, PTL

-----------------------------------------------------------------------------
(* The cache of access tokens *)

ReqRow == [pc : {"idle", "sent", "handled", "done"}, refused : Nat, generation : Nat, sent : Nat,
           answer : Nat, got : Nat, hit : BOOLEAN]

CacheTyped ==
  /\ now \in Nat /\ current \in Nat /\ generation \in Nat /\ reported \in SUBSET Nat
  /\ entry \in [token : Nat, until : Nat, refused : Nat]
  /\ req \in [Requests -> ReqRow]

IsOut(q) == q.pc \in {"sent", "handled"}

\* Every number comes from the backend: none is ahead of the token it stores.
NoneAhead ==
  /\ entry.token <= current /\ entry.refused <= current
  /\ \A n \in reported : n # 0 /\ n <= current
  /\ \A r \in Requests : req[r].got <= current /\ req[r].answer <= current

\* A request carries a generation of the past or the present one, and an answer of the present one
\* was taken from the store after the last report.
AnswerOK(q, g, n) ==
  /\ IsOut(q) => q.generation <= g
  /\ q.pc = "handled" /\ q.generation = g /\ q.answer # NoToken => q.answer >= n

StoredIsNewer == entry.token # NoToken => entry.token > entry.refused

CacheInv ==
  /\ CacheTyped /\ NoneAhead /\ StoredIsNewer
  /\ \A r \in Requests : AnswerOK(req[r], generation, entry.refused)

LEMMA CacheInitHolds == CacheAssumption /\ CacheInit => CacheInv
BY DEF CacheAssumption, CacheInit, CacheInv, CacheTyped, NoneAhead, StoredIsNewer, AnswerOK, IsOut, ReqRow,
       NoReq, NoEntry, NoToken

LEMMA CacheNextKeeps == CacheAssumption /\ CacheInv /\ [CacheNext]_cacheVars => CacheInv'
<1> SUFFICES ASSUME CacheAssumption, CacheInv, [CacheNext]_cacheVars PROVE CacheInv'
  OBVIOUS
<1> USE DEF NoToken, IsOut
<1>t. TokenTtl \in Nat
  BY DEF CacheAssumption
<1>0. CacheTyped /\ NoneAhead /\ StoredIsNewer
      /\ \A r \in Requests : AnswerOK(req[r], generation, entry.refused)
  BY DEF CacheInv
<1>1. ASSUME NEW r \in Requests, Hit(r) PROVE CacheInv'
  <2> DEFINE new == [NoReq EXCEPT !.pc = "done", !.got = entry.token, !.hit = TRUE]
  <2>1. req' = [req EXCEPT ![r] = new]
        /\ UNCHANGED <<now, current, entry, generation, reported>>
    BY <1>1 DEF Hit
  <2>2. new \in ReqRow /\ new.got <= current /\ new.answer = 0 /\ new.pc = "done"
    BY <1>0 DEF NoReq, ReqRow, CacheTyped, NoneAhead
  <2>3. AnswerOK(new, generation, entry.refused)
    BY <2>2 DEF AnswerOK
  <2> HIDE DEF new
  <2>4. QED
    BY <1>0, <2>1, <2>2, <2>3 DEF CacheInv, CacheTyped, NoneAhead, StoredIsNewer
<1>2. ASSUME NEW r \in Requests, Ask(r) PROVE CacheInv'
  <2> DEFINE new == [NoReq EXCEPT !.pc = "sent", !.generation = generation, !.sent = now]
  <2>1. req' = [req EXCEPT ![r] = new]
        /\ UNCHANGED <<now, current, entry, generation, reported>>
    BY <1>2 DEF Ask
  <2>2. new \in ReqRow /\ new.got = 0 /\ new.answer = 0 /\ new.pc = "sent"
        /\ new.generation = generation
    BY <1>0 DEF NoReq, ReqRow, CacheTyped
  <2>3. AnswerOK(new, generation, entry.refused)
    BY <1>0, <2>2 DEF AnswerOK, CacheTyped
  <2> HIDE DEF new
  <2>4. QED
    BY <1>0, <2>1, <2>2, <2>3 DEF CacheInv, CacheTyped, NoneAhead, StoredIsNewer
<1>3. ASSUME NEW r \in Requests, Report(r) PROVE CacheInv'
  <2>1. PICK n \in {req[q].got : q \in Requests} \ {NoToken} :
          /\ entry' = [NoEntry EXCEPT !.refused = n]
          /\ reported' = reported \cup {n}
          /\ generation' = generation + 1
          /\ req' = [req EXCEPT ![r] = [NoReq EXCEPT !.pc = "sent", !.refused = n,
                                          !.generation = generation + 1, !.sent = now]]
    BY <1>3 DEF Report
  <2> DEFINE new == [NoReq EXCEPT !.pc = "sent", !.refused = n,
                                  !.generation = generation + 1, !.sent = now]
  <2>2. n \in Nat /\ n # 0 /\ n <= current /\ UNCHANGED <<now, current>>
    BY <1>0, <1>3 DEF Report, CacheTyped, NoneAhead, ReqRow
  <2>3. entry' = [token |-> 0, until |-> 0, refused |-> n]
    BY <2>1 DEF NoEntry
  <2>g. generation \in Nat /\ generation + 1 \in Nat /\ now \in Nat
    BY <1>0 DEF CacheTyped
  <2>4. new \in ReqRow /\ new.got = 0 /\ new.answer = 0 /\ new.pc = "sent"
        /\ new.generation = generation + 1
    BY <2>2, <2>g DEF NoReq, ReqRow
  <2>5. req' = [req EXCEPT ![r] = new]
    BY <2>1
  <2> HIDE DEF new
  <2>d. reported' \in SUBSET Nat /\ entry' \in [token : Nat, until : Nat, refused : Nat]
        /\ entry'.token = 0
    <3>1. reported \in SUBSET Nat
      BY <1>0 DEF CacheTyped
    <3>2. reported' = reported \cup {n}
      BY <2>1
    <3>3. reported' \in SUBSET Nat
      BY <2>2, <3>1, <3>2
    <3>4. QED
      BY <2>2, <2>3, <3>3
  <2>a. CacheTyped' /\ StoredIsNewer'
    BY <1>0, <2>1, <2>2, <2>4, <2>5, <2>d, <2>g DEF CacheTyped, StoredIsNewer
  <2>b. entry'.token = 0 /\ entry'.refused = n /\ 0 <= current
    BY <1>0, <2>3 DEF CacheTyped
  <2>c. \A q \in Requests : req'[q].got <= current /\ req'[q].answer <= current
    BY <1>0, <2>4, <2>5, <2>b DEF CacheTyped, NoneAhead
  <2>6. CacheTyped' /\ NoneAhead' /\ StoredIsNewer'
    BY <1>0, <2>1, <2>2, <2>a, <2>b, <2>c DEF NoneAhead
  <2>7. AnswerOK(new, generation + 1, n)
    BY <1>0, <2>4 DEF AnswerOK, CacheTyped
  <2>8. \A q \in Requests : AnswerOK(req[q], generation + 1, n) \/ ~IsOut(req[q])
    BY <1>0 DEF AnswerOK, CacheTyped, ReqRow
  <2>9. \A q \in Requests : AnswerOK(req'[q], generation', n)
    BY <1>0, <2>1, <2>5, <2>7, <2>8 DEF AnswerOK, CacheTyped
  <2>10. QED
    BY <2>3, <2>6, <2>9 DEF CacheInv
<1>4. ASSUME NEW r \in Requests, Handle(r) PROVE CacheInv'
  <2> DEFINE n == req'[r].answer
  <2>1. /\ req' = [req EXCEPT ![r].pc = "handled", ![r].answer = n]
        /\ n \in Nat /\ n <= current' /\ (n # 0 => n >= current)
        /\ current' \in Nat /\ current <= current'
    <3>1. current \in Nat /\ req \in [Requests -> ReqRow]
      BY <1>0 DEF CacheTyped
    <3>2. CASE current' = current /\ req' = [req EXCEPT ![r].pc = "handled", ![r].answer = current]
      BY <3>1, <3>2 DEF ReqRow
    <3>3. CASE current' = current + 1
               /\ req' = [req EXCEPT ![r].pc = "handled", ![r].answer = current + 1]
      BY <3>1, <3>3 DEF ReqRow
    <3>4. CASE current' = current /\ req' = [req EXCEPT ![r].pc = "handled", ![r].answer = NoToken]
      BY <3>1, <3>4 DEF ReqRow
    <3>5. QED
      BY <1>4, <3>2, <3>3, <3>4 DEF Handle
  <2> HIDE DEF n
  <2>2. UNCHANGED <<now, entry, generation, reported>> /\ req[r].pc = "sent"
    BY <1>4 DEF Handle
  <2> DEFINE new == [req[r] EXCEPT !.pc = "handled", !.answer = n]
  <2>3. req' = [req EXCEPT ![r] = new]
    BY <2>1
  <2>4. new \in ReqRow /\ new.pc = "handled" /\ new.answer = n /\ new.got = req[r].got
        /\ new.generation = req[r].generation
    BY <1>0, <2>1 DEF CacheTyped, ReqRow
  <2> HIDE DEF new
  <2>5. CacheTyped' /\ StoredIsNewer'
    BY <1>0, <2>1, <2>2, <2>3, <2>4 DEF CacheTyped, StoredIsNewer
  <2>a. \A q \in Requests : req[q].got \in Nat /\ req[q].answer \in Nat
    BY <1>0 DEF CacheTyped, ReqRow
  <2>b. \A q \in Requests : req'[q].got <= current' /\ req'[q].answer <= current'
    <3> TAKE q \in Requests
    <3>1. req[q].got <= current' /\ req[q].answer <= current'
      BY <1>0, <2>1, <2>a DEF NoneAhead, CacheTyped
    <3>2. CASE q = r
      BY <1>0, <2>1, <2>3, <2>4, <3>1, <3>2 DEF CacheTyped
    <3>3. CASE q # r
      BY <1>0, <2>3, <3>1, <3>3 DEF CacheTyped
    <3>4. QED
      BY <3>2, <3>3
  <2>c. NoneAhead'
    BY <1>0, <2>1, <2>2, <2>b DEF CacheTyped, NoneAhead
  <2>6. AnswerOK(new, generation, entry.refused)
    BY <1>0, <2>1, <2>2, <2>4 DEF AnswerOK, CacheTyped, NoneAhead
  <2>7. \A q \in Requests : AnswerOK(req'[q], generation, entry.refused)
    BY <1>0, <2>3, <2>6 DEF CacheTyped
  <2>8. QED
    BY <2>2, <2>5, <2>7, <2>c DEF CacheInv
<1>5. ASSUME NEW r \in Requests, req[r].pc \in {"sent", "handled"},
             Answer(r) \/ GiveUp(r) PROVE CacheInv'
  <2>1. /\ req' = [req EXCEPT ![r].pc = "done", ![r].got = req'[r].got]
        /\ req'[r].got \in Nat /\ req'[r].got <= current
        /\ generation' = IF Out = {r} THEN 0 ELSE generation
        /\ UNCHANGED <<now, current, reported>>
    BY <1>0, <1>5 DEF Answer, GiveUp, CacheTyped, NoneAhead, ReqRow
  <2>2. entry'.refused = entry.refused /\ entry' \in [token : Nat, until : Nat, refused : Nat]
        /\ entry'.token <= current /\ StoredIsNewer'
    <3>1. CASE entry' = entry
      BY <1>0, <3>1 DEF CacheTyped, NoneAhead, StoredIsNewer
    <3>2. CASE entry' # entry
      <4> DEFINE n == req[r].answer
      <4>1. FreshFlight(r) /\ Stores(n) /\ req[r].pc = "handled"
            /\ entry' = [entry EXCEPT !.token = n, !.until = now + TokenTtl]
        BY <1>5, <3>2 DEF Answer, GiveUp
      <4>2. n \in Nat /\ n <= current /\ now + TokenTtl \in Nat /\ entry.refused \in Nat
        BY <1>0, <1>t DEF CacheTyped, NoneAhead, ReqRow
      <4>3. n > entry.refused
        BY <1>0, <4>1, <4>2 DEF FreshFlight, Stores, AnswerOK
      <4> HIDE DEF n
      <4>4. QED
        BY <1>0, <4>1, <4>2, <4>3 DEF CacheTyped, StoredIsNewer
    <3>3. QED
      BY <3>1, <3>2
  <2>3. CacheTyped' /\ NoneAhead'
    BY <1>0, <2>1, <2>2 DEF CacheTyped, NoneAhead, ReqRow
  <2>4. \A q \in Requests : AnswerOK(req'[q], generation', entry.refused)
    BY <1>0, <2>1 DEF AnswerOK, CacheTyped, ReqRow, Out
  <2>5. QED
    BY <2>2, <2>3, <2>4 DEF CacheInv
<1>6. CASE Evict
  BY <1>0, <1>6 DEF Evict, CacheInv, CacheTyped, NoneAhead, StoredIsNewer, AnswerOK, ReqRow, NoEntry
<1>7. CASE Tick
  BY <1>0, <1>7 DEF Tick, CacheInv, CacheTyped, NoneAhead, StoredIsNewer, AnswerOK
<1>8. CASE UNCHANGED cacheVars
  BY <1>0, <1>8 DEF cacheVars, CacheInv, CacheTyped, NoneAhead, StoredIsNewer, AnswerOK
<1>9. ASSUME NEW r \in Requests, Answer(r) \/ GiveUp(r) PROVE req[r].pc \in {"sent", "handled"}
  BY <1>9 DEF Answer, GiveUp, Out
<1>10. QED
  BY <1>1, <1>2, <1>3, <1>4, <1>5, <1>6, <1>7, <1>8, <1>9 DEF CacheNext

\* While the entry keeps the newest refused token's fingerprint, no token this worker reported is in
\* the cache: neither a late answer nor another backend process's brings it back (access-token.ts).
THEOREM TokensStayForgotten == CacheAssumption /\ CacheSpec => []CacheForgets
<1> SUFFICES ASSUME CacheAssumption PROVE CacheSpec => []CacheForgets
  OBVIOUS
<1>1. CacheInit => CacheInv
  BY CacheInitHolds
<1>2. CacheInv /\ [CacheNext]_cacheVars => CacheInv'
  BY CacheNextKeeps
<1>3. CacheInv => CacheForgets
  BY DEF CacheInv, CacheTyped, NoneAhead, StoredIsNewer, CacheForgets, NoToken
<1>4. QED
  BY <1>1, <1>2, <1>3, PTL DEF CacheSpec

-----------------------------------------------------------------------------
(* The breaker's windows *)

LastRows == [failed : BOOLEAN, at : Nat, set : BOOLEAN]

\* A window holds one event a key, in the order of time.
Ordered(w) ==
  /\ w \in Seq(Heard)
  /\ \A i, j \in 1..Len(w) : w[i].key = w[j].key => i = j
  /\ \A i, j \in 1..Len(w) : i < j => w[i].at <= w[j].at
  /\ \A i \in 1..Len(w) : w[i].at <= breakerNow

\* It holds the newest event of each key heard of in the window's time, and nothing else.
Remembers(w, l) ==
  /\ \A i \in 1..Len(w) : l[w[i].key] = [failed |-> w[i].failed, at |-> w[i].at, set |-> TRUE]
  /\ \A k \in Keys : l[k].set /\ l[k].at + WindowMs > breakerNow => \E i \in 1..Len(w) : w[i].key = k

BreakerInv ==
  /\ BreakerTypeOK
  /\ \A s \in Signals : Ordered(latest[s]) /\ Remembers(latest[s], last[s])

-----------------------------------------------------------------------------
\* A suffix and a removal keep one event a key and the order.
LEMMA LeastOf ==
  ASSUME NEW S, S \subseteq Nat, S # {}
  PROVE  \E n \in S : \A p \in S : n <= p
<1>1. PICK n \in S : \A p \in S : ~(<<p, n>> \in OpToRel(<, Nat))
  BY NatLessThanWellFounded, WFMin
<1>2. \A p \in S : ~(p < n)
  BY <1>1 DEF OpToRel
<1> QED
  BY <1>2

LEMMA PruneIs ==
  ASSUME NEW w, Ordered(w), breakerNow \in Nat
  PROVE  \E c \in 1..(Len(w) + 1) :
           /\ Prune(w) = SubSeq(w, c, Len(w))
           /\ \A i \in 1..Len(w) : Old(w[i]) <=> i < c
<1> DEFINE n == Len(w)
           kept == {i \in 1..n : ~Old(w[i])}
<1>1. w \in Seq(Heard) /\ n \in Nat
  BY LenProperties DEF Ordered
<1>2. \A i \in 1..n : w[i] \in Heard /\ w[i].at \in Nat
  <2>1. \A i \in 1..n : w[i] \in Heard
    BY <1>1, ElementOfSeq
  <2>2. \A e \in Heard : e.at \in Nat
    BY DEF Heard
  <2> QED
    BY <2>1, <2>2
<1>3. CASE kept = {}
  <2>1. Prune(w) = <<>>
    BY <1>3 DEF Prune
  <2>2. SubSeq(w, n + 1, n) = <<>>
    BY <1>1, SubSeqEmpty
  <2>3. n + 1 \in 1..(n + 1) /\ \A i \in 1..n : i < n + 1 /\ Old(w[i])
    BY <1>1, <1>3
  <2> QED
    BY <2>1, <2>2, <2>3
<1>4. CASE kept # {}
  <2> DEFINE c == CHOOSE i \in kept : \A j \in kept : i <= j
  <2>1. kept \subseteq Nat
    BY <1>1
  <2>2. c \in kept /\ \A j \in kept : c <= j
    <3>1. \E i \in kept : \A j \in kept : i <= j
      BY <1>4, <2>1, LeastOf
    <3> QED
      BY <3>1
  <2>3. Prune(w) = SubSeq(w, c, n)
    BY <1>4 DEF Prune
  <2> HIDE DEF c
  <2>4. ASSUME NEW i \in 1..n PROVE Old(w[i]) <=> i < c
    <3>1. CASE i < c
      BY <1>1, <2>2, <3>1
    <3>2. CASE i = c
      BY <1>1, <2>2, <3>2
    <3>3. CASE i > c
      <4>1. w[c].at <= w[i].at /\ w[c].at \in Nat /\ w[i].at \in Nat
        BY <1>1, <1>2, <2>2, <3>3 DEF Ordered
      <4>2. ~(w[c].at + WindowMs <= breakerNow)
        BY <2>2 DEF Old
      <4>3. ~(w[i].at + WindowMs <= breakerNow)
        <5>1. WindowMs \in Nat
          BY BreakerAssumption
        <5>2. \A a, b \in Nat : a <= b /\ ~(a + WindowMs <= breakerNow) => ~(b + WindowMs <= breakerNow)
          BY <5>1
        <5> QED
          BY <4>1, <4>2, <5>2
      <4> QED
        BY <1>1, <2>2, <3>3, <4>3 DEF Old
    <3> QED
      BY <1>1, <2>2, <3>1, <3>2, <3>3
  <2>5. c \in 1..(n + 1)
    BY <1>1, <2>2
  <2> QED
    BY <2>3, <2>4, <2>5
<1> QED
  BY <1>3, <1>4

\* What is pruned is old; the rest keeps its order.
LEMMA PruneKeeps ==
  ASSUME NEW w, Ordered(w), breakerNow \in Nat
  PROVE  /\ Ordered(Prune(w))
         /\ Len(Prune(w)) <= Len(w)
         /\ \A i \in 1..Len(Prune(w)) : ~Old(Prune(w)[i]) /\ \E j \in 1..Len(w) : Prune(w)[i] = w[j]
         /\ \A j \in 1..Len(w) : ~Old(w[j]) => \E i \in 1..Len(Prune(w)) : Prune(w)[i] = w[j]
<1> DEFINE n == Len(w)
           p == Prune(w)
<1>1. PICK c \in 1..(n + 1) : p = SubSeq(w, c, n) /\ \A i \in 1..n : Old(w[i]) <=> i < c
  BY PruneIs
<1>2. w \in Seq(Heard) /\ n \in Nat
  BY LenProperties DEF Ordered
<1>3. \A i \in c..n : w[i] \in Heard
  BY <1>2, ElementOfSeq
<1>4. /\ p \in Seq(Heard) /\ Len(p) = n - c + 1 /\ \A i \in 1..(n - c + 1) : p[i] = w[c + i - 1]
  <2>1. c \in Int /\ n \in Int /\ c <= n + 1
    BY <1>2
  <2> HIDE DEF p, n
  <2>2. /\ SubSeq(w, c, n) \in Seq(Heard)
        /\ Len(SubSeq(w, c, n)) = IF c <= n THEN n - c + 1 ELSE 0
        /\ \A i \in 1..(n - c + 1) : SubSeq(w, c, n)[i] = w[c + i - 1]
    BY <1>3, <2>1, SubSeqProperties
  <2> QED
    BY <1>1, <2>1, <2>2
<1> HIDE DEF p
<1>5. \A i \in 1..Len(p) : c + i - 1 \in c..n /\ c + i - 1 \in 1..n /\ p[i] = w[c + i - 1]
  BY <1>2, <1>4
<1>6. Ordered(p)
  <2>1. ASSUME NEW i \in 1..Len(p), NEW j \in 1..Len(p)
        PROVE  /\ p[i].key = p[j].key => i = j
               /\ i < j => p[i].at <= p[j].at
               /\ p[i].at <= breakerNow
    <3>1. c + i - 1 \in 1..n /\ c + j - 1 \in 1..n /\ (i < j => c + i - 1 < c + j - 1)
          /\ (c + i - 1 = c + j - 1 => i = j)
      BY <1>2, <1>4, <1>5
    <3>2. p[i] = w[c + i - 1] /\ p[j] = w[c + j - 1]
      BY <1>5
    <3> QED
      BY <3>1, <3>2 DEF Ordered
  <2> QED
    BY <1>4, <2>1 DEF Ordered
<1>7. \A i \in 1..Len(p) : ~Old(p[i]) /\ \E j \in 1..n : p[i] = w[j]
  <2>1. ASSUME NEW i \in 1..Len(p) PROVE ~Old(p[i]) /\ \E j \in 1..n : p[i] = w[j]
    <3>1. c + i - 1 \in 1..n /\ p[i] = w[c + i - 1] /\ ~(c + i - 1 < c)
      BY <1>2, <1>4, <1>5
    <3> QED
      BY <1>1, <3>1
  <2> QED
    BY <2>1
<1>8. \A j \in 1..n : ~Old(w[j]) => \E i \in 1..Len(p) : p[i] = w[j]
  <2>1. ASSUME NEW j \in 1..n, ~Old(w[j]) PROVE \E i \in 1..Len(p) : p[i] = w[j]
    <3>1. ~(j < c)
      BY <1>1, <2>1
    <3>2. j - c + 1 \in 1..Len(p) /\ c + (j - c + 1) - 1 = j
      BY <1>2, <1>4, <3>1
    <3> QED
      BY <1>5, <3>2
  <2> QED
    BY <2>1
<1> QED
  BY <1>2, <1>4, <1>6, <1>7, <1>8 DEF p

LEMMA WithoutIs ==
  ASSUME NEW w, Ordered(w), NEW k \in Keys
  PROVE  /\ Ordered(Without(w, k))
         /\ \A i \in 1..Len(Without(w, k)) :
              Without(w, k)[i].key # k /\ \E j \in 1..Len(w) : Without(w, k)[i] = w[j]
         /\ \A j \in 1..Len(w) : w[j].key # k => \E i \in 1..Len(Without(w, k)) : Without(w, k)[i] = w[j]
<1> DEFINE n == Len(w)
           at == {i \in 1..n : w[i].key = k}
           v == Without(w, k)
<1>1. w \in Seq(Heard) /\ n \in Nat
  BY LenProperties DEF Ordered
<1>2. CASE at = {}
  <2>1. v = w
    BY <1>2 DEF Without
  <2> QED
    BY <1>2, <2>1
<1>3. CASE at # {}
  <2>1. PICK c \in at : v = RemoveAt(w, c)
    BY <1>3 DEF Without
  <2>2. c \in 1..n /\ w[c].key = k
    BY <2>1
  <2> DEFINE f == SubSeq(w, 1, c - 1)
             g == SubSeq(w, c + 1, n)
  <2>3. v = f \o g
    BY <2>1 DEF RemoveAt
  <2>4. \A i \in 1..n : w[i] \in Heard
    BY <1>1, ElementOfSeq
  <2> HIDE DEF v, at, n
  <2>5. f \in Seq(Heard) /\ Len(f) = c - 1 /\ \A i \in 1..(c - 1) : f[i] = w[i]
    <3>1. 1 \in Int /\ c - 1 \in Int /\ \A i \in 1..(c - 1) : w[i] \in Heard
      BY <1>1, <2>2, <2>4
    <3> HIDE DEF f
    <3>2. /\ f \in Seq(Heard) /\ Len(f) = IF 1 <= c - 1 THEN c - 1 - 1 + 1 ELSE 0
          /\ \A i \in 1..(c - 1 - 1 + 1) : f[i] = w[1 + i - 1]
      BY <3>1, SubSeqProperties DEF f
    <3> QED
      BY <1>1, <2>2, <3>2
  <2>6. g \in Seq(Heard) /\ Len(g) = n - c /\ \A i \in 1..(n - c) : g[i] = w[c + i]
    <3>1. c + 1 \in Int /\ n \in Int /\ \A i \in (c + 1)..n : w[i] \in Heard
      BY <1>1, <2>2, <2>4
    <3> HIDE DEF g
    <3>2. /\ g \in Seq(Heard) /\ Len(g) = IF c + 1 <= n THEN n - (c + 1) + 1 ELSE 0
          /\ \A i \in 1..(n - (c + 1) + 1) : g[i] = w[c + 1 + i - 1]
      BY <3>1, SubSeqProperties DEF g
    <3> QED
      BY <1>1, <2>2, <3>2
  <2> HIDE DEF f, g
  <2>7. /\ v \in Seq(Heard) /\ Len(v) = n - 1
        /\ \A i \in 1..(n - 1) : v[i] = IF i < c THEN w[i] ELSE w[i + 1]
    <3>1. /\ v \in Seq(Heard) /\ Len(v) = Len(f) + Len(g)
          /\ \A i \in 1..(Len(f) + Len(g)) : v[i] = IF i <= Len(f) THEN f[i] ELSE g[i - Len(f)]
      BY <2>3, <2>5, <2>6, ConcatProperties
    <3>2. Len(v) = n - 1
      BY <1>1, <2>2, <2>5, <2>6, <3>1
    <3>3. ASSUME NEW i \in 1..(n - 1) PROVE v[i] = IF i < c THEN w[i] ELSE w[i + 1]
      <4>1. v[i] = IF i <= c - 1 THEN f[i] ELSE g[i - (c - 1)]
        BY <1>1, <2>2, <2>5, <2>6, <3>1
      <4>2. CASE i < c
        BY <1>1, <2>2, <2>5, <4>1, <4>2
      <4>3. CASE i >= c
        <5>1. i - (c - 1) \in 1..(n - c) /\ c + (i - (c - 1)) = i + 1 /\ ~(i <= c - 1)
          BY <1>1, <2>2, <4>3
        <5>2. g[i - (c - 1)] = w[c + (i - (c - 1))]
          BY <2>6, <5>1
        <5>3. ~(i < c)
          BY <1>1, <2>2, <4>3
        <5> QED
          BY <4>1, <5>1, <5>2, <5>3
      <4> QED
        BY <1>1, <2>2, <4>2, <4>3
    <3> QED
      BY <3>1, <3>2, <3>3
  <2> DEFINE from(i) == IF i < c THEN i ELSE i + 1
  <2>8. \A i \in 1..Len(v) : from(i) \in 1..n /\ from(i) # c /\ v[i] = w[from(i)]
    BY <1>1, <2>2, <2>7
  <2>9. \A i, j \in 1..Len(v) : /\ from(i) = from(j) => i = j
                                /\ i < j => from(i) < from(j)
    BY <1>1, <2>2, <2>7
  <2>10. \A i \in 1..n : i # c => w[i].key # k
    BY <2>2 DEF Ordered, n
  <2>11. \A j \in 1..n : j # c => \E i \in 1..Len(v) : from(i) = j
    <3>1. ASSUME NEW j \in 1..n, j # c PROVE \E i \in 1..Len(v) : from(i) = j
      <4>1. CASE j < c
        <5>1. j \in 1..Len(v) /\ from(j) = j
          BY <1>1, <2>2, <2>7, <4>1
        <5> QED
          BY <5>1
      <4>2. CASE j > c
        <5>1. j - 1 \in 1..Len(v) /\ from(j - 1) = j
          BY <1>1, <2>2, <2>7, <4>2
        <5> QED
          BY <5>1
      <4> QED
        BY <1>1, <2>2, <3>1, <4>1, <4>2
    <3> QED
      BY <3>1
  <2> HIDE DEF from
  <2>12. Ordered(v)
    <3>1. ASSUME NEW i \in 1..Len(v), NEW j \in 1..Len(v)
          PROVE  /\ v[i].key = v[j].key => i = j
                 /\ i < j => v[i].at <= v[j].at
                 /\ v[i].at <= breakerNow
      BY <2>8, <2>9 DEF Ordered, n
    <3> QED
      BY <2>7, <3>1 DEF Ordered
  <2>13. \A i \in 1..Len(v) : v[i].key # k /\ \E j \in 1..n : v[i] = w[j]
    BY <2>8, <2>10
  <2>14. \A j \in 1..n : w[j].key # k => \E i \in 1..Len(v) : v[i] = w[j]
    <3>1. ASSUME NEW j \in 1..n, w[j].key # k PROVE \E i \in 1..Len(v) : v[i] = w[j]
      <4>1. PICK i \in 1..Len(v) : from(i) = j
        BY <2>2, <2>11, <3>1
      <4> QED
        BY <2>8, <4>1
    <3> QED
      BY <3>1
  <2> QED
    BY <2>12, <2>13, <2>14 DEF v, n
<1> QED
  BY <1>2, <1>3

-----------------------------------------------------------------------------
\* A pruned window remembers what the window did.
LEMMA PruneRemembers ==
  ASSUME NEW w, Ordered(w), breakerNow \in Nat, NEW l \in [Keys -> LastRows], Remembers(w, l)
  PROVE  Remembers(Prune(w), l)
<1> DEFINE p == Prune(w)
<1>1. /\ \A i \in 1..Len(p) : \E j \in 1..Len(w) : p[i] = w[j]
      /\ \A j \in 1..Len(w) : ~Old(w[j]) => \E i \in 1..Len(p) : p[i] = w[j]
  BY PruneKeeps
<1> HIDE DEF p
<1>2. \A i \in 1..Len(p) : l[p[i].key] = [failed |-> p[i].failed, at |-> p[i].at, set |-> TRUE]
  BY <1>1 DEF Remembers
<1>3. ASSUME NEW k \in Keys, l[k].set, l[k].at + WindowMs > breakerNow
      PROVE  \E i \in 1..Len(p) : p[i].key = k
  <2>1. PICK j \in 1..Len(w) : w[j].key = k
    BY <1>3 DEF Remembers
  <2>2. l[k] = [failed |-> w[j].failed, at |-> w[j].at, set |-> TRUE]
    BY <2>1 DEF Remembers
  <2>3. l[k].at = w[j].at /\ l[k].at \in Nat
    BY <2>2 DEF LastRows
  <2>4. ~(l[k].at + WindowMs <= breakerNow)
    BY <1>3, <2>3, BreakerAssumption
  <2>5. ~Old(w[j])
    BY <2>3, <2>4 DEF Old
  <2> QED
    BY <1>1, <2>1, <2>5
<1> QED
  BY <1>2, <1>3 DEF Remembers, p

\* The new event goes last: the window holds one event a key, the newest.
LEMMA RecordKeeps ==
  ASSUME NEW w, Ordered(w), breakerNow \in Nat, NEW l \in [Keys -> LastRows], Remembers(w, l),
         NEW k \in Keys, NEW failed \in BOOLEAN
  PROVE  /\ Ordered(Record(w, k, failed))
         /\ Remembers(Record(w, k, failed),
                      [l EXCEPT ![k] = [failed |-> failed, at |-> breakerNow, set |-> TRUE]])
<1> DEFINE e == [key |-> k, failed |-> failed, at |-> breakerNow]
           v == Without(w, k)
           a == Append(v, e)
           said == [failed |-> failed, at |-> breakerNow, set |-> TRUE]
           m == [l EXCEPT ![k] = said]
<1>1. /\ Ordered(v)
      /\ \A i \in 1..Len(v) : v[i].key # k /\ \E j \in 1..Len(w) : v[i] = w[j]
      /\ \A j \in 1..Len(w) : w[j].key # k => \E i \in 1..Len(v) : v[i] = w[j]
  BY WithoutIs
<1>2. e \in Heard /\ e.key = k /\ e.failed = failed /\ e.at = breakerNow
  BY DEF Heard
<1>3. /\ said \in LastRows
      /\ m \in [Keys -> LastRows] /\ m[k] = said /\ \A x \in Keys : x # k => m[x] = l[x]
  <2>1. said \in LastRows
    BY DEF LastRows
  <2> HIDE DEF said
  <2> QED
    BY <2>1
<1>4. v \in Seq(Heard) /\ Len(v) \in Nat
  BY <1>1, LenProperties DEF Ordered
<1>5. \A i \in 1..Len(v) : v[i] \in Heard /\ v[i].key \in Keys
  <2>1. \A i \in 1..Len(v) : v[i] \in Heard
    BY <1>4, ElementOfSeq
  <2>2. \A x \in Heard : x.key \in Keys
    BY DEF Heard
  <2> QED
    BY <2>1, <2>2
<1> HIDE DEF v, e
<1>6. /\ a \in Seq(Heard) /\ Len(a) = Len(v) + 1
      /\ \A i \in 1..Len(v) : a[i] = v[i]
      /\ a[Len(v) + 1] = e
  BY <1>2, <1>4, AppendProperties
<1> HIDE DEF a, m
<1>7. \A i \in 1..Len(a) : i \in 1..Len(v) \/ i = Len(v) + 1
  BY <1>4, <1>6
<1>8. Ordered(a)
  <2>1. ASSUME NEW i \in 1..Len(a), NEW j \in 1..Len(a)
        PROVE  /\ a[i].key = a[j].key => i = j
               /\ i < j => a[i].at <= a[j].at
               /\ a[i].at <= breakerNow
    <3>1. CASE i \in 1..Len(v) /\ j \in 1..Len(v)
      BY <1>1, <1>6, <3>1 DEF Ordered
    <3>2. CASE i \in 1..Len(v) /\ j = Len(v) + 1
      BY <1>1, <1>2, <1>6, <3>2 DEF Ordered
    <3>3. CASE i = Len(v) + 1 /\ j \in 1..Len(v)
      <4>1. ~(i < j)
        BY <1>4, <3>3
      <4>2. a[j].key # k /\ a[i] = e
        BY <1>1, <1>6, <3>3
      <4> QED
        BY <1>2, <4>1, <4>2
    <3>4. CASE i = Len(v) + 1 /\ j = Len(v) + 1
      BY <1>2, <1>4, <1>6, <3>4
    <3> QED
      BY <1>7, <3>1, <3>2, <3>3, <3>4
  <2> QED
    BY <1>6, <2>1 DEF Ordered
<1>9. Remembers(a, m)
  <2>1. ASSUME NEW i \in 1..Len(a)
        PROVE  m[a[i].key] = [failed |-> a[i].failed, at |-> a[i].at, set |-> TRUE]
    <3>1. CASE i \in 1..Len(v)
      <4>1. PICK j \in 1..Len(w) : v[i] = w[j]
        BY <1>1, <3>1
      <4>2. l[w[j].key] = [failed |-> w[j].failed, at |-> w[j].at, set |-> TRUE]
        BY DEF Remembers
      <4>3. m[v[i].key] = l[v[i].key]
        BY <1>1, <1>3, <1>5, <3>1
      <4> QED
        BY <1>6, <3>1, <4>1, <4>2, <4>3
    <3>2. CASE i = Len(v) + 1
      BY <1>2, <1>3, <1>6, <3>2
    <3> QED
      BY <1>7, <3>1, <3>2
  <2>2. ASSUME NEW x \in Keys, m[x].set, m[x].at + WindowMs > breakerNow
        PROVE  \E i \in 1..Len(a) : a[i].key = x
    <3>1. CASE x = k
      <4>1. Len(v) + 1 \in 1..Len(a)
        BY <1>4, <1>6
      <4> QED
        BY <1>2, <1>6, <3>1, <4>1
    <3>2. CASE x # k
      <4>1. PICK j \in 1..Len(w) : w[j].key = x
        BY <1>3, <2>2, <3>2 DEF Remembers
      <4>2. PICK i \in 1..Len(v) : v[i] = w[j]
        BY <1>1, <3>2, <4>1
      <4>3. i \in 1..Len(a) /\ a[i] = v[i]
        BY <1>4, <1>6
      <4> QED
        BY <4>1, <4>2, <4>3
    <3> QED
      BY <3>1, <3>2
  <2> QED
    BY <2>1, <2>2 DEF Remembers
<1>10. Record(w, k, failed) = Prune(a)
  BY DEF Record, a, v, e
<1>11. Ordered(Prune(a)) /\ Remembers(Prune(a), m)
  BY <1>3, <1>8, <1>9, PruneKeeps, PruneRemembers
<1> QED
  BY <1>10, <1>11 DEF m, said

-----------------------------------------------------------------------------
\* Two sets with a one-to-one function of one onto the other are of a size.
LEMMA SameCount ==
  ASSUME NEW S, NEW T, IsFiniteSet(S), NEW f \in [S -> T],
         \A a, b \in S : f[a] = f[b] => a = b,
         \A t \in T : \E x \in S : f[x] = t
  PROVE  Cardinality(T) = Cardinality(S)
<1>1. f \in Injection(S, T)
  BY DEF Injection, IsInjective
<1>2. f \in Surjection(S, T)
  BY DEF Surjection
<1>3. ExistsBijection(S, T)
  BY <1>1, <1>2 DEF ExistsBijection, Bijection
<1> QED
  BY <1>3, FS_Bijection

KeysIn(l) == {k \in Keys : l[k].set /\ l[k].at + WindowMs > breakerNow}

\* What a pruned window counts is what the keys' newest events say.
LEMMA CountsAre ==
  ASSUME NEW w, Ordered(w), breakerNow \in Nat, NEW l \in [Keys -> LastRows], Remembers(w, l),
         \A i \in 1..Len(w) : ~Old(w[i])
  PROVE  /\ Cardinality(KeysIn(l)) = Len(w)
         /\ Cardinality({k \in KeysIn(l) : l[k].failed}) = Failures(w)
<1> DEFINE n == Len(w)
           D == 1..n
           F == {i \in D : w[i].failed}
           S == KeysIn(l)
           B == {k \in S : l[k].failed}
           f == [i \in D |-> w[i].key]
           g == [i \in F |-> w[i].key]
<1>1. w \in Seq(Heard) /\ n \in Nat
  BY LenProperties DEF Ordered
<1>2. \A i \in D : w[i] \in Heard
  BY <1>1, ElementOfSeq
<1>3. \A x \in Heard : x.key \in Keys /\ x.at \in Nat /\ x.failed \in BOOLEAN
  BY DEF Heard
<1>4. IsFiniteSet(D) /\ Cardinality(D) = n
  <2>1. 1 \in Int /\ n \in Int
    BY <1>1
  <2>2. IsFiniteSet(D) /\ Cardinality(D) = IF 1 > n THEN 0 ELSE n - 1 + 1
    BY <2>1, FS_Interval
  <2> QED
    BY <1>1, <2>2
<1>5. ASSUME NEW i \in D
      PROVE  /\ w[i].key \in Keys
             /\ l[w[i].key].set /\ l[w[i].key].at = w[i].at /\ l[w[i].key].failed = w[i].failed
             /\ w[i].key \in S
  <2>1. l[w[i].key] = [failed |-> w[i].failed, at |-> w[i].at, set |-> TRUE]
    BY DEF Remembers
  <2>2. w[i].key \in Keys /\ w[i].at \in Nat
    BY <1>2, <1>3
  <2>3. ~(w[i].at + WindowMs <= breakerNow)
    BY DEF Old
  <2>4. w[i].at + WindowMs > breakerNow
    BY <2>2, <2>3, BreakerAssumption
  <2>5. l[w[i].key].set /\ l[w[i].key].at = w[i].at /\ l[w[i].key].failed = w[i].failed
    BY <2>1
  <2> QED
    BY <2>2, <2>4, <2>5 DEF KeysIn
<1>6. \A i, j \in D : w[i].key = w[j].key => i = j
  BY DEF Ordered
<1>7. \A k \in S : \E i \in D : w[i].key = k
  BY DEF Remembers, KeysIn
<1> HIDE DEF S, D
<1>8. Cardinality(S) = Cardinality(D)
  <2>1. f \in [D -> S]
    BY <1>5
  <2>2. (\A a, b \in D : f[a] = f[b] => a = b) /\ \A k \in S : \E i \in D : f[i] = k
    BY <1>6, <1>7
  <2> HIDE DEF f
  <2> QED
    BY <1>4, <2>1, <2>2, SameCount
<1>9. Cardinality(B) = Cardinality(F)
  <2>1. g \in [F -> B]
    BY <1>5
  <2>2. \A a, b \in F : g[a] = g[b] => a = b
    BY <1>6
  <2>3. \A k \in B : \E i \in F : g[i] = k
    BY <1>5, <1>7
  <2>4. IsFiniteSet(F)
    BY <1>4, FS_Subset
  <2> HIDE DEF g, F, B
  <2> QED
    BY <2>1, <2>2, <2>3, <2>4, SameCount
<1> QED
  BY <1>4, <1>8, <1>9 DEF Failures, D, S

-----------------------------------------------------------------------------
\* What the trip is decided on is the outage itself.
LEMMA DecisionIs ==
  ASSUME NEW w, Ordered(w), breakerNow \in Nat, NEW l \in [Keys -> LastRows], Remembers(w, l)
  PROVE  /\ Len(Prune(w)) = Cardinality(KeysIn(l))
         /\ Failures(Prune(w)) = Cardinality({k \in KeysIn(l) : l[k].failed})
<1>1. /\ Ordered(Prune(w))
      /\ \A i \in 1..Len(Prune(w)) : ~Old(Prune(w)[i])
  BY PruneKeeps
<1>2. Remembers(Prune(w), l)
  BY PruneRemembers
<1> QED
  BY <1>1, <1>2, CountsAre

\* What an event of the signal s and the key k does, in one place.
LEMMA EventDoes ==
  ASSUME BreakerInv, NEW s \in Signals, NEW k \in Keys, NEW failed \in BOOLEAN,
         NEW evaluates \in BOOLEAN, Event(s, k, failed, evaluates)
  PROVE  /\ BreakerInv'
         /\ \A t \in Signals : tripping = "none" /\ tripping' = t => CallsForTrip(t)'
         /\ evaluates /\ tripping = "none" /\ ~stopped /\ CallsForTrip(s)' => tripping' = s
         /\ \A t \in Signals, x \in Keys : t # s \/ x # k => last'[t][x] = last[t][x]
         /\ stopped => tripping' = tripping
         /\ last'[s][k].failed = failed /\ open' = open
<1> DEFINE w == Record(latest[s], k, failed)
           said == [failed |-> failed, at |-> breakerNow, set |-> TRUE]
           m == [last[s] EXCEPT ![k] = said]
<1>1. /\ latest' = [latest EXCEPT ![s] = w]
      /\ last' = [last EXCEPT ![s][k] = said]
      /\ IF evaluates THEN Evaluate(s, w) ELSE tripping' = tripping
      /\ breakerNow' = breakerNow /\ stopped' = stopped /\ open' = open /\ breakerFaults' = breakerFaults
  BY DEF Event
<1>2. BreakerTypeOK /\ Ordered(latest[s]) /\ Remembers(latest[s], last[s])
  BY DEF BreakerInv
<1>3. breakerNow \in Nat /\ last[s] \in [Keys -> LastRows] /\ last \in [Signals -> [Keys -> LastRows]]
      /\ latest \in [Signals -> Seq(Heard)]
  BY <1>2 DEF BreakerTypeOK, LastRows
<1>4. said \in LastRows
  BY <1>3 DEF LastRows
<1>5. Ordered(w) /\ Remembers(w, m)
  BY <1>2, <1>3, RecordKeeps
<1> HIDE DEF w
<1>6. said.failed = failed
  OBVIOUS
<1> HIDE DEF said
<1>7. m \in [Keys -> LastRows] /\ m[k] = said /\ \A x \in Keys : x # k => m[x] = last[s][x]
  BY <1>3, <1>4
<1>8. /\ last' \in [Signals -> [Keys -> LastRows]] /\ last'[s] = m
      /\ \A t \in Signals : t # s => last'[t] = last[t]
  BY <1>1, <1>3, <1>7
<1> HIDE DEF m
<1>9. /\ latest' \in [Signals -> Seq(Heard)] /\ latest'[s] = w
      /\ \A t \in Signals : t # s => latest'[t] = latest[t]
  BY <1>1, <1>3, <1>5 DEF Ordered
<1>10. /\ Len(Prune(w)) = Cardinality(KeysIn(m))
       /\ Failures(Prune(w)) = Cardinality({x \in KeysIn(m) : m[x].failed})
  BY <1>3, <1>5, <1>7, DecisionIs
<1>11. CallsForTrip(s)' <=> TripsAt(Failures(Prune(w)), Len(Prune(w)))
  <2>1. Recent(s)' = KeysIn(m)
    BY <1>1, <1>8 DEF Recent, KeysIn
  <2>2. Failing(s)' = {x \in KeysIn(m) : m[x].failed}
    BY <1>8, <2>1 DEF Failing
  <2>3. CallsForTrip(s)' <=>
          /\ Cardinality(Failing(s)') >= MinFailures
          /\ Cardinality(Failing(s)') * 100 >= FailurePercent * Cardinality(Recent(s)')
    BY DEF CallsForTrip
  <2> QED
    BY <1>10, <2>1, <2>2, <2>3 DEF TripsAt
<1>12. tripping \in Signals \cup {"none"} /\ stopped \in BOOLEAN /\ open \in BOOLEAN /\ breakerFaults \in 0..MaxTripFaults
  BY <1>2 DEF BreakerTypeOK, LastRows
<1>13. tripping' = tripping \/ (evaluates /\ MayTrip /\ CallsForTrip(s)' /\ tripping' = s)
  BY <1>1, <1>11 DEF Evaluate
<1>14. s # "none"
  BY BreakerAssumption
<1>15. BreakerInv'
  <2>1. BreakerTypeOK'
    BY <1>1, <1>3, <1>8, <1>9, <1>12, <1>13 DEF BreakerTypeOK, LastRows
  <2>2. ASSUME NEW t \in Signals PROVE Ordered(latest[t])' /\ Remembers(latest[t], last[t])'
    <3>1. CASE t = s
      <4>1. latest'[t] = w /\ last'[t] = m /\ breakerNow' = breakerNow
        BY <1>1, <1>8, <1>9, <3>1
      <4>2. Ordered(latest[t])'
        BY <1>5, <4>1 DEF Ordered
      <4>3. Remembers(latest[t], last[t])'
        BY <1>5, <4>1 DEF Remembers
      <4> QED
        BY <4>2, <4>3
    <3>2. CASE t # s
      <4>1. Ordered(latest[t]) /\ Remembers(latest[t], last[t])
        BY DEF BreakerInv
      <4> QED
        BY <1>1, <1>8, <1>9, <3>2, <4>1 DEF Ordered, Remembers
    <3> QED
      BY <3>1, <3>2
  <2> QED
    BY <2>1, <2>2 DEF BreakerInv
<1>16. \A t \in Signals : tripping = "none" /\ tripping' = t => CallsForTrip(t)'
  <2>1. ASSUME NEW t \in Signals, tripping = "none", tripping' = t PROVE CallsForTrip(t)'
    <3>1. t # "none"
      BY BreakerAssumption
    <3>2. CallsForTrip(s)' /\ t = s
      BY <1>13, <2>1, <3>1
    <3> QED
      BY <3>2
  <2> QED
    BY <2>1
<1>17. evaluates /\ tripping = "none" /\ ~stopped /\ CallsForTrip(s)' => tripping' = s
  BY <1>1, <1>11 DEF Evaluate, MayTrip
<1>18. \A t \in Signals, x \in Keys : t # s \/ x # k => last'[t][x] = last[t][x]
  BY <1>7, <1>8
<1>19. stopped => tripping' = tripping
  BY <1>13 DEF MayTrip
<1> QED
  BY <1>1, <1>6, <1>7, <1>8, <1>15, <1>16, <1>17, <1>18, <1>19

\* Every event of the code evaluates when it is a failure.
LEMMA HeardIs ==
  ASSUME NEW k \in Keys,
         SocketLost(k) \/ SocketReady(k) \/ \E answer \in DOMAIN Answers : ObserveExecutor(k, answer)
  PROVE  \E s \in Signals, failed \in BOOLEAN : Event(s, k, failed, failed)
<1>1. CASE SocketLost(k)
  <2>1. Event("socket", k, TRUE, TRUE)
    BY <1>1 DEF SocketLost
  <2>2. "socket" \in Signals
    BY <2>1 DEF Event
  <2> QED
    BY <2>1, <2>2
<1>2. CASE SocketReady(k)
  <2>1. Event("socket", k, FALSE, FALSE)
    BY <1>2 DEF SocketReady
  <2>2. "socket" \in Signals
    BY <2>1 DEF Event
  <2> QED
    BY <2>1, <2>2
<1>3. ASSUME NEW answer \in DOMAIN Answers, ObserveExecutor(k, answer)
      PROVE  \E s \in Signals, failed \in BOOLEAN : Event(s, k, failed, failed)
  <2>1. Answers[answer] \subseteq BOOLEAN
    <3>1. answer \in {"accepted", "rejected", "unavailable", "cut"}
      BY DEF Answers
    <3>2. /\ Answers["accepted"] = {FALSE} /\ Answers["rejected"] = {FALSE}
          /\ Answers["unavailable"] = {TRUE} /\ Answers["cut"] = {}
      BY DEF Answers
    <3> QED
      BY <3>1, <3>2
  <2>2. PICK failed \in Answers[answer] : Event("rest", k, failed, failed)
    BY <1>3 DEF ObserveExecutor
  <2>3. "rest" \in Signals
    BY <2>2 DEF Event
  <2> QED
    BY <2>1, <2>2, <2>3
<1> QED
  BY <1>1, <1>2, <1>3

BreakerStep ==
  /\ BreakerInv'
  /\ \A s \in Signals : tripping = "none" /\ tripping' = s => CallsForTrip(s)'
  /\ \A s \in Signals, k \in Keys :
       (/\ last'[s] # last[s] /\ last'[s][k].failed /\ last'[s][k].at = breakerNow
        /\ last'[s][k] # last[s][k] /\ tripping = "none" /\ ~stopped
        /\ CallsForTrip(s)')
       => tripping' = s
  /\ stopped /\ tripping = "none" => tripping' = "none" /\ (open => open')

LEMMA EventSteps ==
  ASSUME BreakerInv, NEW s \in Signals, NEW k \in Keys, NEW failed \in BOOLEAN, Event(s, k, failed, failed)
  PROVE  BreakerStep
<1>1. /\ BreakerInv'
      /\ \A t \in Signals : tripping = "none" /\ tripping' = t => CallsForTrip(t)'
      /\ failed /\ tripping = "none" /\ ~stopped /\ CallsForTrip(s)' => tripping' = s
      /\ \A t \in Signals, x \in Keys : t # s \/ x # k => last'[t][x] = last[t][x]
      /\ stopped => tripping' = tripping
      /\ last'[s][k].failed = failed /\ open' = open
  BY EventDoes
<1>2. ASSUME NEW t \in Signals, NEW x \in Keys, last'[t][x].failed, last'[t][x] # last[t][x],
             tripping = "none", ~stopped, CallsForTrip(t)'
      PROVE  tripping' = t
  <2>1. t = s /\ x = k
    BY <1>1, <1>2
  <2> QED
    BY <1>1, <1>2, <2>1
<1> QED
  BY <1>1, <1>2 DEF BreakerStep

\* A trip in flight ends, with the window emptied or kept.
LEMMA TripSucceedsSteps ==
  ASSUME BreakerInv, TripSucceeds
  PROVE  BreakerStep
<1>1. /\ tripping # "none" /\ tripping' = "none" /\ open' = FALSE
      /\ latest' = [latest EXCEPT ![tripping] = << >>]
      /\ last' = [last EXCEPT ![tripping] = [k \in Keys |-> Never]]
      /\ breakerNow' = breakerNow /\ stopped' = stopped /\ breakerFaults' = breakerFaults
  BY DEF TripSucceeds, SwitchOff
<1>2. /\ breakerNow \in Nat /\ breakerFaults \in 0..MaxTripFaults
      /\ latest \in [Signals -> Seq(Heard)] /\ last \in [Signals -> [Keys -> LastRows]]
      /\ tripping \in Signals \cup {"none"} /\ stopped \in BOOLEAN
  BY DEF BreakerInv, BreakerTypeOK, LastRows
<1>3. Never \in LastRows /\ Never.set = FALSE
  BY DEF Never, LastRows
<1>4. tripping \in Signals
  BY <1>1, <1>2
<1> DEFINE none == [k \in Keys |-> Never]
<1>5. none \in [Keys -> LastRows] /\ \A k \in Keys : none[k].set = FALSE
  BY <1>3
<1> HIDE DEF none
<1>6. /\ last' \in [Signals -> [Keys -> LastRows]] /\ last'[tripping] = none
      /\ \A t \in Signals : t # tripping => last'[t] = last[t]
  BY <1>1, <1>2, <1>4, <1>5 DEF none
<1>7. /\ latest' \in [Signals -> Seq(Heard)] /\ latest'[tripping] = << >>
      /\ \A t \in Signals : t # tripping => latest'[t] = latest[t]
  BY <1>1, <1>2, <1>4
<1>8. BreakerTypeOK'
  BY <1>1, <1>2, <1>6, <1>7 DEF BreakerTypeOK, LastRows
<1>9. ASSUME NEW t \in Signals PROVE Ordered(latest[t])' /\ Remembers(latest[t], last[t])'
  <2>1. CASE t = tripping
    <3>1. latest'[t] = << >> /\ Len(<< >>) = 0 /\ << >> \in Seq(Heard)
      BY <1>7, <2>1
    <3>2. \A k \in Keys : ~last'[t][k].set
      BY <1>5, <1>6, <2>1
    <3>3. Ordered(latest[t])'
      BY <3>1 DEF Ordered
    <3>4. Remembers(latest[t], last[t])'
      BY <3>1, <3>2 DEF Remembers
    <3> QED
      BY <3>3, <3>4
  <2>2. CASE t # tripping
    <3>1. Ordered(latest[t]) /\ Remembers(latest[t], last[t])
      BY DEF BreakerInv
    <3>2. latest'[t] = latest[t] /\ last'[t] = last[t] /\ breakerNow' = breakerNow
      BY <1>1, <1>6, <1>7, <2>2
    <3>3. Ordered(latest[t])'
      BY <3>1, <3>2 DEF Ordered
    <3>4. Remembers(latest[t], last[t])'
      BY <3>1, <3>2 DEF Remembers
    <3> QED
      BY <3>3, <3>4
  <2> QED
    BY <2>1, <2>2
<1>10. BreakerInv'
  BY <1>8, <1>9 DEF BreakerInv
<1> QED
  BY <1>1, <1>10 DEF BreakerStep

\* The steps that leave the windows and what they stand for alone.
LEMMA WindowsStay ==
  ASSUME BreakerInv, latest' = latest, last' = last, breakerNow' = breakerNow
  PROVE  \A s \in Signals : (Ordered(latest[s]) /\ Remembers(latest[s], last[s]))'
<1>1. ASSUME NEW s \in Signals PROVE Ordered(latest[s])' /\ Remembers(latest[s], last[s])'
  <2>1. Ordered(latest[s]) /\ Remembers(latest[s], last[s])
    BY DEF BreakerInv
  <2>2. latest'[s] = latest[s] /\ last'[s] = last[s]
    OBVIOUS
  <2>3. Ordered(latest[s])'
    BY <2>1, <2>2 DEF Ordered
  <2>4. Remembers(latest[s], last[s])'
    BY <2>1, <2>2 DEF Remembers
  <2> QED
    BY <2>3, <2>4
<1> QED
  BY <1>1

LEMMA TripFailsSteps ==
  ASSUME BreakerInv, TripFails
  PROVE  BreakerStep
<1>1. /\ tripping # "none" /\ tripping' = "none" /\ open' \in {open, FALSE}
      /\ latest' = latest /\ last' = last /\ breakerNow' = breakerNow /\ stopped' = stopped
      /\ breakerFaults' = breakerFaults + 1 /\ breakerFaults < MaxTripFaults
  BY DEF TripFails, SwitchOff, WindowAfterFailure
<1>2. BreakerTypeOK
  BY DEF BreakerInv
<1>3. open' \in BOOLEAN
  BY <1>1, <1>2 DEF BreakerTypeOK, LastRows
<1>4. BreakerTypeOK'
  <2>1. breakerFaults' \in 0..MaxTripFaults
    BY <1>1, <1>2, BreakerAssumption DEF BreakerTypeOK
  <2> QED
    BY <1>1, <1>2, <1>3, <2>1 DEF BreakerTypeOK
<1>5. BreakerInv'
  BY <1>1, <1>4, WindowsStay DEF BreakerInv
<1> QED
  BY <1>1, <1>5 DEF BreakerStep

LEMMA StopSteps ==
  ASSUME BreakerInv, Stop \/ OpenTrading
  PROVE  BreakerStep
<1>1. /\ stopped' \in BOOLEAN /\ open' \in BOOLEAN /\ tripping' = tripping
      /\ latest' = latest /\ last' = last /\ breakerNow' = breakerNow /\ breakerFaults' = breakerFaults
      /\ open => open'
  BY DEF Stop, OpenTrading, BreakerInv, BreakerTypeOK
<1>2. BreakerTypeOK'
  BY <1>1 DEF BreakerInv, BreakerTypeOK
<1>3. BreakerInv'
  BY <1>1, <1>2, WindowsStay DEF BreakerInv
<1>4. \A s \in Signals : s # "none"
  BY BreakerAssumption
<1> QED
  BY <1>1, <1>3, <1>4 DEF BreakerStep

\* The clock ages the windows: less is recent, nothing else changes.
LEMMA TimePassesSteps ==
  ASSUME BreakerInv, TimePasses
  PROVE  BreakerStep
<1>1. /\ breakerNow' = breakerNow + 1 /\ UNCHANGED <<latest, last, tripping, stopped, open, breakerFaults>>
  BY DEF TimePasses
<1>2. BreakerTypeOK /\ breakerNow \in Nat /\ latest \in [Signals -> Seq(Heard)]
      /\ last \in [Signals -> [Keys -> LastRows]]
  BY DEF BreakerInv, BreakerTypeOK, LastRows
<1>3. BreakerTypeOK'
  BY <1>1, <1>2 DEF BreakerTypeOK, LastRows
<1>4. ASSUME NEW s \in Signals PROVE Ordered(latest[s])' /\ Remembers(latest[s], last[s])'
  <2>1. Ordered(latest[s]) /\ Remembers(latest[s], last[s])
    BY DEF BreakerInv
  <2>2. \A i \in 1..Len(latest[s]) : latest[s][i].at \in Nat
    <3>1. latest[s] \in Seq(Heard)
      BY <1>2
    <3>2. \A i \in 1..Len(latest[s]) : latest[s][i] \in Heard
      BY <3>1, ElementOfSeq
    <3>3. \A e \in Heard : e.at \in Nat
      BY DEF Heard
    <3> QED
      BY <3>2, <3>3
  <2>3. \A i \in 1..Len(latest[s]) : latest[s][i].at <= breakerNow + 1
    <3>1. \A i \in 1..Len(latest[s]) : latest[s][i].at <= breakerNow
      BY <2>1 DEF Ordered
    <3> QED
      BY <1>2, <2>2, <3>1
  <2>4. Ordered(latest[s])'
    BY <1>1, <2>1, <2>3 DEF Ordered
  <2>5. \A k \in Keys : last[s][k].at \in Nat
    BY <1>2 DEF LastRows
  <2>6. \A k \in Keys : last[s][k].at + WindowMs > breakerNow + 1 => last[s][k].at + WindowMs > breakerNow
    BY <1>2, <2>5, BreakerAssumption
  <2>7. Remembers(latest[s], last[s])'
    BY <1>1, <2>1, <2>6 DEF Remembers
  <2> QED
    BY <2>4, <2>7
<1>5. BreakerInv'
  BY <1>3, <1>4 DEF BreakerInv
<1>6. \A s \in Signals : s # "none"
  BY BreakerAssumption
<1> QED
  BY <1>1, <1>5, <1>6 DEF BreakerStep

LEMMA BreakerSteps ==
  BreakerInv /\ [BreakerNext]_breakerVars => BreakerStep
<1> SUFFICES ASSUME BreakerInv, [BreakerNext]_breakerVars PROVE BreakerStep
  OBVIOUS
<1>1. ASSUME NEW k \in Keys,
             SocketLost(k) \/ SocketReady(k) \/ \E answer \in DOMAIN Answers : ObserveExecutor(k, answer)
      PROVE  BreakerStep
  <2>1. PICK s \in Signals, failed \in BOOLEAN : Event(s, k, failed, failed)
    BY <1>1, HeardIs
  <2> QED
    BY <2>1, EventSteps
<1>2. CASE UNCHANGED breakerVars
  <2>1. /\ latest' = latest /\ last' = last /\ breakerNow' = breakerNow /\ tripping' = tripping
        /\ stopped' = stopped /\ open' = open /\ breakerFaults' = breakerFaults
    BY <1>2 DEF breakerVars
  <2>2. BreakerTypeOK'
    BY <2>1 DEF BreakerInv, BreakerTypeOK
  <2>3. BreakerInv'
    BY <2>1, <2>2, WindowsStay DEF BreakerInv
  <2>4. \A s \in Signals : s # "none"
    BY BreakerAssumption
  <2> QED
    BY <2>1, <2>3, <2>4 DEF BreakerStep
<1> QED
  BY <1>1, <1>2, TripSucceedsSteps, TripFailsSteps, StopSteps, TimePassesSteps DEF BreakerNext

LEMMA BreakerStarts ==
  BreakerInit => BreakerInv
<1> SUFFICES ASSUME BreakerInit PROVE BreakerInv
  OBVIOUS
<1>1. Never \in LastRows /\ Never.set = FALSE
  BY DEF Never, LastRows
<1>2. /\ latest = [s \in Signals |-> << >>] /\ last = [s \in Signals |-> [k \in Keys |-> Never]]
      /\ breakerNow = 1 /\ tripping = "none" /\ stopped = FALSE /\ open = TRUE /\ breakerFaults = 0
  BY DEF BreakerInit
<1>3. latest \in [Signals -> Seq(Heard)] /\ last \in [Signals -> [Keys -> LastRows]]
  <2>1. << >> \in Seq(Heard)
    OBVIOUS
  <2> QED
    BY <1>1, <1>2, <2>1
<1>4. BreakerTypeOK
  <2>1. 0 \in 0..MaxTripFaults /\ 1 \in Nat
    BY BreakerAssumption
  <2>2. last \in [Signals -> [Keys -> [failed : BOOLEAN, at : Nat, set : BOOLEAN]]]
    BY <1>3 DEF LastRows
  <2> QED
    BY <1>2, <1>3, <2>1, <2>2 DEF BreakerTypeOK
<1>5. ASSUME NEW s \in Signals PROVE Ordered(latest[s]) /\ Remembers(latest[s], last[s])
  <2>1. latest[s] = << >> /\ Len(<< >>) = 0 /\ << >> \in Seq(Heard)
    BY <1>2
  <2>2. \A k \in Keys : ~last[s][k].set
    BY <1>1, <1>2
  <2> QED
    BY <2>1, <2>2 DEF Ordered, Remembers
<1> QED
  BY <1>4, <1>5 DEF BreakerInv

\* One event a key: no more events than keys.
LEMMA WindowBound ==
  BreakerInv => WindowIsBounded
<1> SUFFICES ASSUME BreakerInv, NEW s \in Signals
    PROVE  /\ Len(latest[s]) <= Cardinality(Keys)
           /\ \A i, j \in 1..Len(latest[s]) : i < j => latest[s][i].at <= latest[s][j].at
  BY DEF WindowIsBounded
<1> DEFINE w == latest[s]
           D == 1..Len(w)
           f == [i \in D |-> w[i].key]
<1>1. Ordered(w)
  BY DEF BreakerInv
<1>2. w \in Seq(Heard) /\ Len(w) \in Nat
  BY <1>1, LenProperties DEF Ordered
<1>3. \A i \in D : w[i].key \in Keys
  <2>1. \A i \in D : w[i] \in Heard
    BY <1>2, ElementOfSeq
  <2>2. \A x \in Heard : x.key \in Keys
    BY DEF Heard
  <2> QED
    BY <2>1, <2>2
<1>4. \A i, j \in D : w[i].key = w[j].key => i = j
  BY <1>1 DEF Ordered
<1>5. Cardinality(D) = Len(w)
  <2>1. 1 \in Int /\ Len(w) \in Int
    BY <1>2
  <2>2. Cardinality(D) = IF 1 > Len(w) THEN 0 ELSE Len(w) - 1 + 1
    BY <2>1, FS_Interval
  <2> QED
    BY <1>2, <2>2
<1>6. IsFiniteSet(Keys)
  BY BreakerAssumption
<1> HIDE DEF D
<1>7. f \in Injection(D, Keys)
  <2>1. f \in [D -> Keys] /\ \A i, j \in D : f[i] = f[j] => i = j
    BY <1>3, <1>4
  <2> HIDE DEF f
  <2> QED
    BY <2>1 DEF Injection, IsInjective
<1>8. Cardinality(D) <= Cardinality(Keys)
  BY <1>6, <1>7, FS_Injection
<1> QED
  BY <1>1, <1>5, <1>8 DEF Ordered

\* A trip starts on an outage, on every outage, and none after the stop; the window never outgrows
\* the keys (breaker.ts:57, window.ts:1).
THEOREM BreakerTripsOnOutages ==
  BreakerSpec => BreakerTrips
<1>1. BreakerSpec => []BreakerInv
  <2>1. BreakerInv /\ [BreakerNext]_breakerVars => BreakerInv'
    BY BreakerSteps DEF BreakerStep
  <2> QED
    BY <2>1, BreakerStarts, PTL DEF BreakerSpec
<1>2. BreakerInv /\ [BreakerNext]_breakerVars =>
        \A s \in Signals : (tripping = "none" /\ tripping' = s) => CallsForTrip(s)'
  BY BreakerSteps DEF BreakerStep
<1>3. BreakerInv /\ [BreakerNext]_breakerVars =>
        \A s \in Signals, k \in Keys :
          (/\ last'[s] # last[s] /\ last'[s][k].failed /\ last'[s][k].at = breakerNow
           /\ last'[s][k] # last[s][k] /\ tripping = "none" /\ ~stopped
           /\ CallsForTrip(s)')
          => tripping' = s
  BY BreakerSteps DEF BreakerStep
<1>4. BreakerInv /\ [BreakerNext]_breakerVars =>
        (stopped /\ tripping = "none" => tripping' = "none" /\ (open => open'))
  BY BreakerSteps DEF BreakerStep
<1>5. BreakerSpec => TripIsJustified
  BY <1>1, <1>2, PTL DEF BreakerSpec, TripIsJustified
<1>6. BreakerSpec => OutageIsSeen
  BY <1>1, <1>3, PTL DEF BreakerSpec, OutageIsSeen
<1>7. BreakerSpec => NoTripAfterStop
  BY <1>1, <1>4, PTL DEF BreakerSpec, NoTripAfterStop
<1>8. BreakerSpec => [](BreakerTypeOK /\ WindowIsBounded)
  <2>1. BreakerInv => BreakerTypeOK /\ WindowIsBounded
    BY WindowBound DEF BreakerInv
  <2> QED
    BY <1>1, <2>1, PTL
<1> QED
  BY <1>5, <1>6, <1>7, <1>8 DEF BreakerTrips

=============================================================================
