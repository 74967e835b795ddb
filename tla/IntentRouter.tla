---------------------------- MODULE IntentRouter ----------------------------
(***************************************************************************)
(* The worker fleet and the routing of intents to the owner of their       *)
(* account (apps/trading-worker/src/fleet/registry.ts, intents/router.ts,  *)
(* the stop of worker.ts).                                                 *)
(*                                                                         *)
(* A process beats its row in worker_processes and keeps the live set the  *)
(* beat answered; the first live process of an intent's rank owns it.  A   *)
(* job of the shared queue goes once to the owner's own queue, with an     *)
(* insurance in the forwarder's.  A clean stop moves the own queue to the  *)
(* shared one until the peers have forgotten the process.  Time runs in    *)
(* steps; Redis and a take answer within a step, a consumer takes a due    *)
(* job within a step, and a submit keeps its job for any number of steps.  *)
(***************************************************************************)
EXTENDS Integers, Sequences

CONSTANTS Processes, Intents,
          Rank,                  \* the processes by the weight of an intent's account
          Heartbeat, Timeout, Fence, Ttl, \* the fleet's times, in steps
          DrainTail, Recovery,   \* drainTailMs, recoveryDelayMs
          MaxPublished,          \* bound: publications of an intent
          MaxFaults              \* bound: faults of every kind

ASSUME RouterTimes ==
  /\ {Heartbeat, Timeout, Fence, Ttl, DrainTail, Recovery, MaxPublished, MaxFaults} \subseteq Nat
  /\ "none" \notin Processes
  /\ Timeout < Heartbeat
  /\ 2 * Heartbeat + 2 * Timeout < Fence /\ Fence < Ttl
  /\ Heartbeat + Timeout < DrainTail

VARIABLES
  row,       \* worker_processes: the steps until each row lapses, 0 without one
  proc,      \* what each process keeps
  late,      \* heartbeats given up whose statement may still run
  shared,    \* the shared queue's jobs, an active one included
  own,       \* the jobs of each process's own queue
  intent,    \* "new", "queued" or "taken", with its publications and its forwards
  faults     \* faults so far

vars == <<row, proc, late, shared, own, intent, faults>>

\* at: who works on a job, "none" while it waits; due: the steps of its delay
Job(i, direct, due) == [intent |-> i, direct |-> direct, due |-> due, at |-> "none", step |-> "wait"]

Down == {"new", "dead", "gone"}

\* nothing of a dead process is read again but its end
Fresh == [at |-> "new", view |-> {}, fence |-> 0, beat |-> 0, flight |-> "none",
          age |-> 0, answer |-> {}, tail |-> DrainTail, revived |-> FALSE]

Init ==
  /\ row = [p \in Processes |-> 0]
  /\ proc = [p \in Processes |-> Fresh]
  /\ late = {}
  /\ shared = {}
  /\ own = [p \in Processes |-> {}]
  /\ intent = [i \in Intents |-> [at |-> "new", published |-> 0, forwards |-> 0, by |-> "none", wait |-> 0]]
  /\ faults = 0

Up(p) == proc[p].at = "up"

\* the registry beats from the start until its own stop
Beating(p) == proc[p].at \in {"up", "closing", "stopping"}

Fault == faults < MaxFaults /\ faults' = faults + 1

-----------------------------------------------------------------------------
(* The registry *)

\* before the first answer, past the fence and after stop() nothing is trusted
Fenced(p) == proc[p].fence = 0

LiveView(p) == IF Fenced(p) THEN {} ELSE proc[p].view

\* q weighs most in a view: none of those ranked above it is there
Leads(q, i, view) ==
  \E n \in DOMAIN Rank[i] : Rank[i][n] = q /\ \A m \in 1..(n - 1) : Rank[i][m] \notin view

\* ownerOf: rendezvous over the view
OwnerOf(p, i) ==
  LET leading == {q \in LiveView(p) : Leads(q, i, LiveView(p))}
  IN IF leading = {} THEN "none" ELSE CHOOSE q \in leading : TRUE

\* a fresh process: its consumers take jobs, its first beat is out
Start(p) ==
  /\ proc[p].at = "new"
  /\ proc' = [proc EXCEPT ![p].at = "up", ![p].flight = "sent"]
  /\ UNCHANGED <<row, late, shared, own, intent, faults>>

Rows(p) == [row EXCEPT ![p] = Ttl]
Live(p) == {q \in Processes : row[q] > 0} \cup {p}

\* the statement: the row moved, the live set answered
Beat(p) ==
  /\ proc[p].flight = "sent" /\ proc[p].at # "dead"
  /\ row' = Rows(p)
  /\ proc' = [proc EXCEPT ![p].flight = "answered", ![p].answer = Live(p),
                          ![p].revived = @ \/ ~Beating(p)]
  /\ UNCHANGED <<late, shared, own, intent, faults>>

\* the answer comes within the timeout; a stopped registry ignores it
BeatAnswers(p) ==
  /\ proc[p].flight = "answered" /\ proc[p].at # "dead"
  /\ proc' = [proc EXCEPT
       ![p].flight = "none", ![p].age = 0, ![p].answer = {},
       ![p].view = IF Beating(p) THEN proc[p].answer ELSE @,
       ![p].fence = IF Beating(p) THEN Fence - proc[p].age ELSE @]
  /\ UNCHANGED <<row, late, shared, own, intent, faults>>

\* a beat that fails or times out keeps the view; its statement may run later
BeatFails(p) ==
  /\ proc[p].flight \in {"sent", "answered"} /\ proc[p].at # "dead" /\ Fault
  /\ proc' = [proc EXCEPT ![p].flight = "none", ![p].age = 0, ![p].answer = {}]
  /\ late' \in {late, IF proc[p].flight = "sent" THEN late \cup {p} ELSE late}
  /\ UNCHANGED <<row, shared, own, intent>>

LateBeat(p) ==
  /\ p \in late
  /\ late' = late \ {p}
  /\ row' = Rows(p)
  /\ UNCHANGED <<proc, shared, own, intent, faults>>

\* the next beat, every Heartbeat steps
BeatStarts(p) ==
  /\ Beating(p) /\ proc[p].flight = "none" /\ proc[p].beat = Heartbeat
  /\ proc' = [proc EXCEPT ![p].flight = "sent", ![p].beat = 0]
  /\ UNCHANGED <<row, late, shared, own, intent, faults>>

-----------------------------------------------------------------------------
(* The jobs *)

\* add(): a job whose id the queue holds already adds nothing
SameId(j, k) == j.intent = k.intent /\ j.direct = k.direct
Added(jobs, job) == IF \E j \in jobs : SameId(j, job) THEN jobs ELSE jobs \cup {job}

\* the outbox publishes an intent, and again one that lost its job
Publish(i) ==
  /\ intent[i].at \in {"new", "queued"}
  /\ intent[i].published < MaxPublished
  /\ \A j \in shared : j.intent # i
  /\ shared' = Added(shared, Job(i, FALSE, 0))
  /\ intent' = [intent EXCEPT ![i].at = "queued", ![i].published = @ + 1]
  /\ UNCHANGED <<row, proc, late, own, faults>>

Ready(j) == j.at = "none" /\ j.due = 0
Held(jobs, j, p, step) == (jobs \ {j}) \cup {[j EXCEPT !.at = p, !.step = step]}

\* a job of the shared queue whose account another live process owns
Routed(p, j) == ~j.direct /\ OwnerOf(p, j.intent) \notin {"none", p}

\* an intent no longer queued: the job is a no-op
Consume(p, j) ==
  /\ Up(p) /\ j \in shared /\ Ready(j)
  /\ IF intent[j.intent].at # "queued"
       THEN shared' = shared \ {j} /\ UNCHANGED <<own, intent>>
     ELSE IF Routed(p, j)
       THEN \* the first half of forward(): the owner's queue
            LET q == OwnerOf(p, j.intent) IN
            /\ own' = [own EXCEPT ![q] = Added(@, Job(j.intent, FALSE, 0))]
            /\ shared' = Held(shared, j, p, "insure")
            /\ intent' = [intent EXCEPT ![j.intent].forwards = @ + 1]
     ELSE /\ shared' = Held(shared, j, p, "submit")
          /\ intent' = [intent EXCEPT ![j.intent].at = "taken"]
          /\ UNCHANGED own
  /\ UNCHANGED <<row, proc, late, faults>>

Insured(p, i) == [own EXCEPT ![p] = Added(@, Job(i, FALSE, Recovery))]

\* the second half: the insurance in the forwarder's own queue, the job is done
Insure(p, j) ==
  /\ j \in shared /\ j.at = p /\ j.step = "insure" /\ proc[p].at # "dead"
  /\ own' = Insured(p, j.intent)
  /\ shared' = shared \ {j}
  /\ intent' = [intent EXCEPT ![j.intent].by = p, ![j.intent].wait = 0]
  /\ UNCHANGED <<row, proc, late, faults>>

\* an add that fails, landed or not: the intent is processed here
ForwardFails(p, j) ==
  /\ j \in shared /\ j.at = p /\ j.step = "insure" /\ proc[p].at # "dead" /\ Fault
  /\ IF intent[j.intent].at = "queued"
       THEN shared' = Held(shared, j, p, "submit") /\ intent' = [intent EXCEPT ![j.intent].at = "taken"]
       ELSE shared' = shared \ {j} /\ UNCHANGED intent
  /\ own' \in {own, Insured(p, j.intent)}
  /\ UNCHANGED <<row, proc, late>>

\* a job of the own queue is never forwarded
ConsumeOwn(p, j) ==
  /\ Up(p) /\ j \in own[p] /\ Ready(j)
  /\ IF intent[j.intent].at # "queued"
       THEN own' = [own EXCEPT ![p] = @ \ {j}] /\ UNCHANGED intent
       ELSE /\ own' = [own EXCEPT ![p] = Held(@, j, p, "submit")]
            /\ intent' = [intent EXCEPT ![j.intent].at = "taken"]
  /\ UNCHANGED <<row, proc, late, shared, faults>>

\* the submit and its outcome
Done(p, j) ==
  /\ j.at = p /\ j.step = "submit" /\ proc[p].at # "dead"
  /\ \/ j \in shared /\ shared' = shared \ {j} /\ UNCHANGED own
     \/ j \in own[p] /\ own' = [own EXCEPT ![p] = @ \ {j}] /\ UNCHANGED shared
  /\ UNCHANGED <<row, proc, late, intent, faults>>

\* a dead process's job of the shared queue comes back when its lock lapses
Stalled(j) ==
  /\ j \in shared /\ j.at # "none" /\ proc[j.at].at = "dead"
  /\ shared' = (shared \ {j}) \cup {Job(j.intent, j.direct, 0)}
  /\ UNCHANGED <<row, proc, late, own, intent, faults>>

-----------------------------------------------------------------------------
(* The end of a process *)

Active(p) == {j \in shared \cup own[p] : j.at = p}

\* both consumers close: no new jobs, the active ones finish
Close(p) ==
  /\ Up(p)
  /\ proc' = [proc EXCEPT ![p].at = "closing"]
  /\ UNCHANGED <<row, late, shared, own, intent, faults>>

\* closed; the sessions stop and the router drains meanwhile
Closed(p) ==
  /\ proc[p].at = "closing" /\ Active(p) = {}
  /\ proc' = [proc EXCEPT ![p].at = "stopping"]
  /\ UNCHANGED <<row, late, shared, own, intent, faults>>

\* Mutant: a moved job keeps the id of the intent
Direct_SameId(j) == Job(j.intent, FALSE, j.due)

\* the id of its own: the forwarder's job of this intent may still be active
Direct(j) == Job(j.intent, TRUE, j.due)

MovedTo(p) ==
  shared \cup {k \in {Direct(j) : j \in own[p]} : \A j \in shared : ~SameId(j, k)}

Draining(p) == proc[p].at \in {"stopping", "deregistered"}

\* one pass moves every job of the own queue
MovePass(p) ==
  /\ Draining(p) /\ own[p] # {}
  /\ shared' = MovedTo(p)
  /\ own' = [own EXCEPT ![p] = {}]
  /\ UNCHANGED <<row, proc, late, intent, faults>>

\* The registry's stop, after the leases: nothing is trusted any more, the row is
\* deleted or its delete fails.  A beat in flight is not awaited.
Deregister(p) ==
  /\ proc[p].at = "stopping"
  /\ \/ row' = [row EXCEPT ![p] = 0] /\ UNCHANGED faults
     \/ Fault /\ UNCHANGED row
  /\ proc' = [proc EXCEPT ![p].at = "deregistered", ![p].fence = 0, ![p].view = {}]
  /\ UNCHANGED <<late, shared, own, intent>>

TailOver(p) == proc[p].tail = 0

\* the tail is over, or the budget cuts the drain: a final pass, and the queue goes
Gone(p) ==
  /\ Draining(p)
  /\ \/ proc[p].at = "deregistered" /\ TailOver(p) /\ UNCHANGED faults
     \/ Fault
  /\ shared' = MovedTo(p)
  /\ own' = [own EXCEPT ![p] = {}]
  /\ proc' = [proc EXCEPT ![p].at = "gone"]
  /\ UNCHANGED <<row, late, intent>>

\* a crash, or a shutdown that overran its budget
Crash(p) ==
  /\ proc[p].at \notin Down /\ Fault
  /\ proc' = [proc EXCEPT ![p] = [Fresh EXCEPT !.at = "dead"]]
  /\ late' \in {late, IF proc[p].flight = "sent" THEN late \cup {p} ELSE late}
  /\ UNCHANGED <<row, shared, own, intent>>

-----------------------------------------------------------------------------
(* Time *)

\* what has to happen before the next step: a beat that is due or times out, a
\* due job beside an open consumer, a half-made forward, a move pass
Urgent ==
  \/ \E p \in Processes :
       \/ Beating(p) /\ proc[p].flight = "none" /\ proc[p].beat = Heartbeat
       \/ proc[p].flight # "none" /\ proc[p].age = Timeout
       \/ Draining(p) /\ own[p] # {}
       \/ proc[p].at = "deregistered" /\ TailOver(p)
       \/ Up(p) /\ \E j \in shared \cup own[p] : Ready(j)
  \/ \E j \in shared : j.step = "insure" /\ proc[j.at].at # "dead"

Pred(n) == IF n = 0 THEN 0 ELSE n - 1
Older(jobs) == {[j EXCEPT !.due = Pred(@)] : j \in jobs}

Clock ==
  /\ ~Urgent
  /\ row' = [p \in Processes |-> Pred(row[p])]
  /\ proc' = [p \in Processes |->
       [proc[p] EXCEPT
          !.fence = Pred(@),
          !.beat = IF Beating(p) /\ @ < Heartbeat THEN @ + 1 ELSE @,
          !.age = IF proc[p].flight # "none" THEN @ + 1 ELSE @,
          !.tail = IF proc[p].at = "deregistered" THEN Pred(@) ELSE @]]
  /\ shared' = Older(shared)
  /\ own' = [p \in Processes |-> Older(own[p])]
  /\ intent' = [i \in Intents |->
       IF intent[i].at = "queued" /\ intent[i].by # "none" /\ Up(intent[i].by) /\ intent[i].wait <= Recovery
         THEN [intent[i] EXCEPT !.wait = @ + 1] ELSE intent[i]]
  /\ UNCHANGED <<late, faults>>

Next ==
  \/ \E p \in Processes :
       \/ Start(p) \/ Beat(p) \/ BeatAnswers(p) \/ BeatFails(p) \/ LateBeat(p) \/ BeatStarts(p)
       \/ Close(p) \/ Closed(p) \/ MovePass(p) \/ Deregister(p) \/ Gone(p) \/ Crash(p)
       \/ \E j \in shared : Consume(p, j) \/ Insure(p, j) \/ ForwardFails(p, j)
       \/ \E j \in own[p] : ConsumeOwn(p, j)
       \/ \E j \in shared \cup own[p] : Done(p, j)
  \/ \E i \in Intents : Publish(i)
  \/ \E j \in shared : Stalled(j)
  \/ Clock

Spec == Init /\ [][Next]_vars

-----------------------------------------------------------------------------
(* Properties *)

OncePerId(jobs) == \A j, k \in jobs : SameId(j, k) => j = k

\* The state keeps its types and a queue holds a job id once (JOB_OPTIONS).
RouterTypeOK ==
  /\ row \in [Processes -> 0..Ttl] /\ faults \in 0..MaxFaults
  /\ \A p \in Processes :
       /\ proc[p].at \in Down \cup {"up", "closing", "stopping", "deregistered"}
       /\ proc[p].fence \in 0..Fence /\ proc[p].beat \in 0..Heartbeat /\ proc[p].age \in 0..Timeout
       /\ OncePerId(own[p])
  /\ OncePerId(shared)

\* A process that claims an account still has its row: however many beats fail, it
\* stops claiming before the others may see the row lapse (fleet/config.ts,
\* LIVE_FENCE < PROCESS_TTL).
FencedFirst == \A p \in Processes, i \in Intents : OwnerOf(p, i) = p => row[p] > 0

\* An intent hops once a publication, and once more for each redelivery after a
\* fault: a requeued job does not go back to the stopping process (INTENT_DIRECT_JOB).
OneHop == \A i \in Intents : intent[i].forwards <= intent[i].published + faults

HasCopy(i) ==
  \/ \E j \in shared : j.intent = i
  \/ \E p \in Processes : proc[p].at \notin Down /\ \E j \in own[p] : j.intent = i

\* No single fault - a crash at any moment, a lost beat, a failed add or
\* deregister, a cut drain - leaves a queued intent without a job some process
\* will take, unless a late beat revived the row of a stopped one (forward, stop).
OneFaultLosesNothing ==
  faults <= 1 /\ (\A p \in Processes : ~proc[p].revived /\ p \notin late) =>
    \A i \in Intents : intent[i].at = "queued" => HasCopy(i)

\* An intent forwarded to a process that died is taken by the forwarder after
\* recoveryDelayMs, while that process runs (the insurance).
TakenInTime ==
  \A i \in Intents :
    intent[i].at = "queued" /\ intent[i].by # "none" /\ Up(intent[i].by) => intent[i].wait <= Recovery

\* "a peer names the stopping process until its next heartbeat after the deregister
\* [...], so every forward it makes meanwhile reaches the shared queue within a poll"
\* (docs/trade-intent-transport.md): without a fault no job is left in the queue of
\* a process that stopped.
NoOrphan == faults = 0 => \A p \in Processes : proc[p].at = "gone" => own[p] = {}

\* The queues of the processes lose no intent to one fault, an intent hops once a publication,
\* a process that lost its row claims nothing, and a forwarder takes back in time.
RoutingHolds ==
  RouterTypeOK /\ OneFaultLosesNothing /\ FencedFirst /\ OneHop /\ TakenInTime
=============================================================================
