------------------------------ MODULE DataSocket ------------------------------
(***************************************************************************)
(* The backend's market data sockets: two slots, the active client whose      *)
(* ticks build the candles and a warm reserve, each on a service account of   *)
(* its own.  Every handler changes its slot and ends in reconcile(), which     *)
(* gives slots up, promotes the reserve and starts what is empty.             *)
(***************************************************************************)
EXTENDS Integers, FiniteSets

CONSTANTS
  ServiceAccounts,  \* 1..n, in the order they are tried
  Good,             \* (fairness) the account whose socket works, 0 for none
  Leaving,          \* the accounts that leave and join the list
  Failures,         \* bound: what fails: the list's read, the other accounts' starts and clients
  FailoverGrace,    \* failoverGraceMs, in steps of the clock
  ReserveReady,     \* reserveReadyMs
  Retry             \* accountRetryMs

ASSUME DataSocketAssumption ==
  /\ ServiceAccounts \subseteq Nat /\ Leaving \subseteq ServiceAccounts
  /\ Good \in ServiceAccounts \cup {0}
  /\ {FailoverGrace, ReserveReady, Retry} \subseteq Nat /\ FailoverGrace > 0
  /\ ReserveReady > FailoverGrace /\ Retry > ReserveReady

VARIABLES
  feed,             \* the manager's memory
  jobs,             \* the token requests under way; late: their slot was given up
  started,          \* the clients started and not stopped, by account
  listed,           \* the service accounts in the database
  feedTick,         \* "none", "read" with the list it read, or "wait" for its starts
  catalog,          \* the catalog is fresh
  missed            \* (ghost) the feed stood still since the ring's last tick

feedVars == <<feed, jobs, started, listed, feedTick, catalog, missed>>

Roles == {"active", "reserve"}
Other(role) == IF role = "active" THEN "reserve" ELSE "active"
Empty == [kind |-> "empty"]
NoAlarm == -1
Oldest == ReserveReady

FeedInit ==
  /\ feed = [slot |-> [r \in Roles |-> Empty], held |-> [a \in ServiceAccounts |-> 0],
          recent |-> {}, order |-> {}, fresh |-> FALSE,
          alarm |-> NoAlarm, dropped |-> TRUE]
  /\ jobs = {} /\ started = [a \in ServiceAccounts |-> 0] /\ listed = ServiceAccounts
  /\ feedTick = [at |-> "none"] /\ catalog = FALSE /\ missed = FALSE

-----------------------------------------------------------------------------
(* The slots.  A handler works on the world w: the manager with the jobs and  *)
(* the clients it leaves behind.                                              *)

World == [m |-> feed, jobs |-> jobs, opened |-> started]

Held(s) == s.kind # "empty"
IsReady(s) == s.kind = "running" /\ s.ready
Unready(s) == Held(s) /\ ~IsReady(s)
Streaming == IsReady(feed.slot["active"])

Candidates(w, role) ==
  LET s == w.m.slot[Other(role)]
  IN {a \in w.m.order : w.m.held[a] = 0 /\ ~(Held(s) /\ s.acct = a)}

First(S) == CHOOSE a \in S : \A b \in S : a <= b

\* Mutant: a given up active leaves no mark in the ring.
Vacated_Unmarked(w, role) == w.m.dropped

\* The ring, the seconds and the ticks get the hole's mark when a feeding client goes.
Vacated(w, role) == w.m.dropped \/ (role = "active" /\ IsReady(w.m.slot["active"]))

\* vacate(): the job's answer will be late, the client is stopped.
Vacate(w, role, hold) ==
  LET s == w.m.slot[role]
  IN IF ~Held(s) THEN w
     ELSE [m |-> [w.m EXCEPT !.slot[role] = Empty, !.dropped = Vacated(w, role),
                             !.held[s.acct] = IF hold THEN Retry ELSE @],
           jobs |-> {IF j.role = role /\ ~j.late THEN [j EXCEPT !.late = TRUE] ELSE j : j \in w.jobs},
           opened |-> IF s.kind = "running" THEN [w.opened EXCEPT ![s.acct] = @ - 1] ELSE w.opened]

\* startJob(): the account's token is asked for.
StartJob(w, role, a) ==
  [w EXCEPT !.m.slot[role] = [kind |-> "starting", acct |-> a, age |-> 0],
            !.jobs = @ \cup {[role |-> role, acct |-> a, late |-> FALSE]}]

SubscribeNew(w) ==
  IF w.m.slot["active"].kind = "running" /\ w.m.fresh
  THEN [w EXCEPT !.m.slot["active"].subscribed = TRUE] ELSE w

-----------------------------------------------------------------------------
(* reconcile()                                                             *)

R1(w) ==
  LET Unlisted(v, role) ==
        IF Held(v.m.slot[role]) /\ v.m.slot[role].acct \notin v.m.order THEN Vacate(v, role, FALSE) ELSE v
  IN Unlisted(Unlisted(w, "active"), "reserve")

GivesWay(w) ==
  LET s == w.m.slot["reserve"]
  IN Unready(s) /\ s.age >= ReserveReady /\ Candidates(w, "reserve") \ {s.acct} # {}

R2(w) == IF GivesWay(w) THEN Vacate(w, "reserve", TRUE) ELSE w

R3(w) ==
  LET active == w.m.slot["active"]
      reserve == w.m.slot["reserve"]
      v == Vacate(w, "active", FALSE)
  IN IF IsReady(reserve) /\ (~Held(active) \/ (Unready(active) /\ active.age >= FailoverGrace))
     THEN SubscribeNew([v EXCEPT !.m.slot = [active |-> reserve, reserve |-> Empty]])
     ELSE w

StartEmpty(w, role) ==
  LET C == Candidates(w, role)
  IN IF ~Held(w.m.slot[role]) /\ C # {} THEN StartJob(w, role, First(C)) ELSE w

Deadlines(w) ==
  {(IF r = "active" THEN FailoverGrace ELSE ReserveReady) - w.m.slot[r].age :
     r \in {q \in Roles : Unready(w.m.slot[q])}}

\* R7: the nearest deadline still to come.
ArmDeadline(w) ==
  LET D == {d \in Deadlines(w) : d > 0}
  IN [w EXCEPT !.m.alarm = IF D = {} THEN NoAlarm ELSE CHOOSE d \in D : \A e \in D : d <= e]

\* The handler's end; missed: the feeding client changed or stands still.
Become(w) ==
  /\ feed' = w.m /\ jobs' = w.jobs /\ started' = w.opened
  /\ missed' = (missed \/ ~IsReady(w.m.slot["active"])
                \/ (Streaming /\ w.m.slot["active"].acct # feed.slot["active"].acct))

\* The handler ends in reconcile(): the rules in order, each on what the one before left.
Reconcile(w) ==
  \E w0 \in {[w EXCEPT !.m.fresh = catalog]} : \E w1 \in {R1(w0)} : \E w2 \in {R2(w1)} :
  \E w3 \in {R3(w2)} : \E w4 \in {StartEmpty(w3, "active")} : \E w5 \in {StartEmpty(w4, "reserve")} :
    \E w6 \in {SubscribeNew(w5)} : Become(ArmDeadline(w6))

-----------------------------------------------------------------------------
(* Starts                                                                  *)

Taken(job) == ~job.late

\* open(): the running client replaces the start; the active one subscribes.
Opened(w, job) ==
  SubscribeNew([w EXCEPT
    !.m.slot[job.role] = [kind |-> "running", acct |-> job.acct, ready |-> FALSE, subscribed |-> FALSE,
                          age |-> IF w.m.slot[job.role].kind = "starting" THEN w.m.slot[job.role].age ELSE 0],
    !.m.fresh = catalog, !.opened[job.acct] = @ + 1])

\* accessToken() answers: a token; or a refusal, an error or a client that throws at its start.
TokenAnswer ==
  \E job \in jobs :
    LET w == [World EXCEPT !.jobs = @ \ {job}]
    IN /\ IF Taken(job)
          THEN \/ Reconcile(Opened(w, job))
               \/ /\ job.acct # Good /\ "start" \in Failures
                  /\ Reconcile([w EXCEPT !.m.slot[job.role] = Empty, !.m.held[job.acct] = Retry])
          ELSE Become(w)
       /\ UNCHANGED <<listed, feedTick, catalog>>

-----------------------------------------------------------------------------
(* The clients' events                                                     *)

Runs(role) == feed.slot[role].kind = "running"

Connects(role) ==
  /\ Runs(role) /\ ~feed.slot[role].ready
  /\ Reconcile([World EXCEPT !.m.slot[role].ready = TRUE, !.m.slot[role].age = 0])
  /\ UNCHANGED <<listed, feedTick, catalog>>

ClientReady == \E role \in Roles : Connects(role)

\* The connection is lost; the client connects again by itself.
ConnectionLost ==
  \E role \in Roles :
    /\ IsReady(feed.slot[role]) /\ feed.slot[role].acct # Good /\ "lost" \in Failures
    /\ Reconcile([World EXCEPT !.m.slot[role].ready = FALSE, !.m.slot[role].age = 0,
                                      !.m.dropped = @ \/ role = "active"])
    /\ UNCHANGED <<listed, feedTick, catalog>>

\* Left ready first, then the verdict's own hold-back.
EndedBy(role, hold) ==
  Vacate([World EXCEPT !.m.slot[role].ready = FALSE,
                       !.m.dropped = @ \/ (role = "active" /\ feed.slot[role].ready)], role, hold)

\* Disconnected by the server, or a foreign user's data.
Rejected ==
  \E role \in Roles :
    /\ Runs(role) /\ feed.slot[role].acct # Good /\ "rejected" \in Failures
    /\ Reconcile(EndedBy(role, TRUE))
    /\ UNCHANGED <<listed, feedTick, catalog>>

\* The token is refused: the second time within the window holds the account back.
TokenRefusedAgain ==
  \E role \in Roles :
    LET a == feed.slot[role].acct
        w == EndedBy(role, a \in feed.recent)
    IN /\ Runs(role) /\ a # Good /\ "refused" \in Failures
       /\ Reconcile([w EXCEPT !.m.recent = @ \cup {a}])
       /\ UNCHANGED <<listed, feedTick, catalog>>

\* A tick of the active client reaches the ring.
Price ==
  /\ Streaming /\ feed.slot["active"].subscribed /\ (missed \/ feed.dropped)
  /\ missed' = FALSE /\ feed' = [feed EXCEPT !.dropped = FALSE]
  /\ UNCHANGED <<jobs, started, listed, feedTick, catalog>>

-----------------------------------------------------------------------------
(* The tick, the timer and the clock                                       *)

ReadList ==
  /\ feedTick.at = "none" /\ feedTick' = [at |-> "read", list |-> listed]
  /\ UNCHANGED <<feed, jobs, started, listed, catalog, missed>>

\* The list is applied as it was read; a failed read changes nothing.
RunTick ==
  /\ feedTick.at = "read"
  /\ \/ Reconcile([World EXCEPT !.m.order = feedTick.list]) /\ feedTick' = [at |-> "wait"]
     \/ "read" \in Failures /\ feedTick' = [at |-> "none"] /\ UNCHANGED <<feed, jobs, started, missed>>
  /\ UNCHANGED <<listed, catalog>>

\* The tick waits for the starts of its reconcile.
TickEnds ==
  /\ feedTick.at = "wait" /\ jobs = {} /\ feedTick' = [at |-> "none"]
  /\ UNCHANGED <<feed, jobs, started, listed, catalog, missed>>

Deadline ==
  /\ feed.alarm = 0 /\ Reconcile(World)
  /\ UNCHANGED <<listed, feedTick, catalog>>

Down(n) == IF n > 0 THEN n - 1 ELSE 0
Aged(s) == IF Unready(s) /\ s.age < Oldest THEN [s EXCEPT !.age = @ + 1] ELSE s

\* The timer fires before time goes on, and Good is ready within ReserveReady (timing.ts: a token
\* request, a connection and its authentication are shorter).  The window of a token's refusal
\* ends at some step.
Clock ==
  /\ feed.alarm # 0
  /\ \A r \in Roles :
       Unready(feed.slot[r]) /\ feed.slot[r].acct = Good => feed.slot[r].age < ReserveReady - 1
  /\ \E recent \in {feed.recent, {}} :
     feed' = [feed EXCEPT !.slot = [r \in Roles |-> Aged(feed.slot[r])],
                          !.held = [a \in ServiceAccounts |-> Down(feed.held[a])],
                          !.recent = recent,
                          !.alarm = IF @ > 0 THEN @ - 1 ELSE @]
  /\ UNCHANGED <<jobs, started, listed, feedTick, catalog, missed>>

Relist ==
  /\ \E a \in Leaving : listed' = IF a \in listed THEN listed \ {a} ELSE listed \cup {a}
  /\ UNCHANGED <<feed, jobs, started, feedTick, catalog, missed>>

CatalogLoads ==
  /\ ~catalog /\ catalog' = TRUE
  /\ UNCHANGED <<feed, jobs, started, listed, feedTick, missed>>

FeedNext ==
  \/ TokenAnswer \/ ClientReady \/ ConnectionLost \/ Rejected \/ TokenRefusedAgain \/ Price
  \/ ReadList \/ RunTick \/ TickEnds \/ Deadline \/ Clock \/ Relist \/ CatalogLoads

FeedSpec == FeedInit /\ [][FeedNext]_feedVars

-----------------------------------------------------------------------------
DataSocketTypeOK ==
  /\ \A r \in Roles : Held(feed.slot[r]) =>
       /\ feed.slot[r].acct \in ServiceAccounts /\ feed.slot[r].age \in 0..Oldest
       /\ feed.slot[r].kind = "starting" <=>
            \E j \in jobs : j.role = r /\ ~j.late /\ j.acct = feed.slot[r].acct
  /\ feed.alarm \in NoAlarm..ReserveReady /\ feed.order \subseteq ServiceAccounts

\* Every client that runs is in exactly one slot: no account has two, none is left behind.
ClientsAreHeld ==
  \A a \in ServiceAccounts :
    started[a] = Cardinality({r \in Roles : Runs(r) /\ feed.slot[r].acct = a}) /\ started[a] <= 1

\* When the ring gets a tick after the feed stood still or changed its client, it was told so
\* first (candle holes, seconds and the tick store alike).
HoleIsMarked == Streaming /\ missed => feed.dropped

\* A ready reserve stands by an active that is not ready for at most the grace.
FailoverInTime ==
  IsReady(feed.slot["reserve"]) /\ ~Streaming =>
    Held(feed.slot["active"]) /\ (feed.slot["active"].age < FailoverGrace \/ feed.alarm = 0)

\* Every running client is in one slot, a ready reserve takes over in time, and the ring is told
\* of every pause of the feed (market-data/manager.ts).
FeedSafe == DataSocketTypeOK /\ ClientsAreHeld /\ HoleIsMarked /\ FailoverInTime

=============================================================================
