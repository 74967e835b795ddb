---------------------------- MODULE SessionLease ----------------------------
(***************************************************************************)
(* Which worker process may hold a broker account's socket.  The lease is a  *)
(* row, moved by statements that begin, commit and answer after they were    *)
(* sent; a process trusts its lease from the moment it sent the statement,   *)
(* for less time than the database does.  Times are kept as what is left of  *)
(* them, in steps of a clock both sides share.                               *)
(***************************************************************************)
EXTENDS Integers, FiniteSets, FiniteSetsExt

CONSTANTS
  Processes,        \* owner ids: one for each start of a worker
  Nobody,
  Ttl, Fence,       \* leaseTtlMs, leaseFenceMs
  Grace, Command,   \* shedGraceMs, the command timeout; 0: no commands
  Late,             \* processes whose timers may fire late
  MaxAge,           \* bound: how long after it was sent a statement may commit
  MaxStatements     \* bound: statements of a process in flight

ASSUME LeaseAssumption ==
  /\ Nobody \notin Processes /\ Late \subseteq Processes /\ IsFiniteSet(Processes)
  /\ Fence \in Nat \ {0} /\ Ttl \in Nat /\ Fence < Ttl
  /\ Command \in Nat /\ Grace \in Nat /\ (Command > 0 => Command < Grace)
  /\ MaxAge \in Nat /\ MaxStatements \in Nat \ {0}

VARIABLES
  row,              \* broker_session_leases, the account's row: owner and time left
  entry,            \* the entry of each process
  statements,       \* in flight
  held,             \* the account is held back by the process
  alive,
  command           \* time left to the command on the socket of a process

vars == <<row, entry, statements, held, alive, command>>

\* A lease knows its row by acquired_at: current says the row still carries that one.
NoRow == [owner |-> Nobody, left |-> 0]
NoEntry == [kind |-> "none", current |-> FALSE, left |-> 0, verified |-> FALSE, shed |-> -1]

Init ==
  /\ row = NoRow
  /\ entry = [p \in Processes |-> NoEntry]
  /\ statements = {}
  /\ held = {}
  /\ alive = Processes
  /\ command = [p \in Processes |-> 0]

HasLease(p) == entry[p].kind \in {"fetching", "running", "refreshing"}

\* Mutant: only the timer looks at the fence.
SessionFor_Unfenced(p) == entry[p].kind = "running" /\ entry[p].verified /\ entry[p].shed = -1

\* sessionFor never hands out a client past the fence, even before its timer has run.
SessionFor(p) ==
  /\ entry[p].kind = "running" /\ entry[p].verified
  /\ entry[p].shed = -1 /\ entry[p].left > 0

-----------------------------------------------------------------------------
(* Statements                                                               *)

InFlight(p) == {s \in statements : s.by = p}
Room(p) == Cardinality(InFlight(p)) < MaxStatements

\* A statement that was sent; waiting: its sender still awaits the answer.  current: for a renewal
\* that the sender still has the lease it is for, for the others that the row carries their lease.
Sent(op, p, current, waiting) ==
  [op |-> op, by |-> p, current |-> current, age |-> 0, waiting |-> waiting, answer |-> "none"]

\* Its sender gave up the answer (a timeout, a stop, a crash, its entry gone): what has not
\* committed yet may still do so.
Forget(set, p, op) ==
  LET given == {s \in set : s.by = p /\ s.op = op}
  IN  (set \ given) \cup
        {[s EXCEPT !.waiting = FALSE, !.current = s.op # "renew" /\ @] :
           s \in {g \in given : g.answer = "none"}}

\* The entry of p is gone, and with it the lease its renewals are for.
Orphan(set, p) ==
  {IF s.by = p /\ s.op = "renew" THEN [s EXCEPT !.current = FALSE] ELSE s : s \in set}

\* The row carries another acquired_at, or is gone.
NewRow(set) == {IF s.op = "renew" THEN s ELSE [s EXCEPT !.current = FALSE] : s \in set}
NewRowForEntries == entry' = [p \in Processes |-> [entry[p] EXCEPT !.current = FALSE]]

\* The commit answers who still waits.
Answered(s, answer) == IF s.waiting THEN {[s EXCEPT !.answer = answer]} ELSE {}

\* greatest: no statement shortens a lease.
Extended(left) == IF left > row.left THEN left ELSE row.left

\* expires_at <= now()
Lapsed(b) == row.left <= -b

\* acquireSessionLease that began b ago: free, lapsed by then, or our own.
Acquire(s, b) ==
  IF row = NoRow \/ Lapsed(b) \/ row.owner = s.by
  THEN /\ row' = [owner |-> s.by, left |-> IF row = NoRow THEN Ttl - b ELSE Extended(Ttl - b)]
       /\ statements' = NewRow(statements \ {s}) \cup Answered([s EXCEPT !.current = TRUE], "ok")
       /\ NewRowForEntries
  ELSE /\ statements' = (statements \ {s}) \cup Answered(s, "refused")
       /\ UNCHANGED <<row, entry>>

\* renewSessionLeases that began b ago: ours, and not lapsed by then.
Renew(s, b) ==
  /\ IF row.owner = s.by /\ ~Lapsed(b)
     THEN /\ row' = [row EXCEPT !.left = Extended(Ttl - b)]
          /\ statements' = (statements \ {s}) \cup Answered(s, "ok")
     ELSE /\ statements' = (statements \ {s}) \cup Answered(s, "refused")
          /\ UNCHANGED row
  /\ UNCHANGED entry

\* releaseSessionLease is a CAS on acquired_at; releaseSessionLeases, at a stop, is not.
Releases(s) == row.owner = s.by /\ (s.op = "releaseOne" => s.current)

Release(s) ==
  IF Releases(s)
  THEN row' = NoRow /\ statements' = NewRow(statements \ {s}) /\ NewRowForEntries
  ELSE statements' = statements \ {s} /\ UNCHANGED <<row, entry>>

\* The commit; now() was taken when the statement began.
Execute(s, b) ==
  /\ s.answer = "none" /\ b \in 0..s.age
  /\ \/ s.op = "acquire" /\ Acquire(s, b)
     \/ s.op = "renew" /\ Renew(s, b)
     \/ s.op \in {"releaseOne", "release"} /\ Release(s)
  /\ UNCHANGED <<held, alive, command>>

\* The statement never reaches the database.
Lose(s) ==
  /\ ~s.waiting
  /\ statements' = statements \ {s}
  /\ UNCHANGED <<row, entry, held, alive, command>>

-----------------------------------------------------------------------------
(* Entries                                                                  *)

\* drop: the client is stopped and the entry forgotten; the row stays.
Drop(p) ==
  /\ entry' = [entry EXCEPT ![p] = NoEntry]
  /\ command' = [command EXCEPT ![p] = 0]
DropAndHold(p) == Drop(p) /\ held' = held \cup {p}
DropOnly(p) == DropAndHold(p) /\ statements' = Orphan(statements, p)

\* runTick: an owned candidate without an entry; startOne sends the acquire.
Start(p) ==
  /\ p \in alive \ held /\ entry[p] = NoEntry /\ Room(p)
  /\ entry' = [entry EXCEPT ![p].kind = "acquiring"]
  /\ statements' = statements \cup {Sent("acquire", p, FALSE, TRUE)}
  /\ UNCHANGED <<row, held, alive, command>>

\* Mutant: the lease is trusted from the answer on.
Trusted_FromAnswer(s) == Fence

\* Trusted from the moment it was sent.
Trusted(s) == IF s.age < Fence THEN Fence - s.age ELSE 0

AcquireAnswered(s) ==
  LET p == s.by IN
  /\ s.op = "acquire" /\ s.waiting /\ s.answer # "none"
  /\ statements' = statements \ {s}
  /\ IF s.answer = "ok"
     THEN /\ entry' = [entry EXCEPT ![p] = [@ EXCEPT !.kind = "fetching", !.current = s.current,
                                                     !.left = Trusted(s)]]
          /\ UNCHANGED <<held, command>>
     ELSE DropAndHold(p)
  /\ UNCHANGED <<row, alive>>

\* leaseRenewTimeoutMs, or an error: an acquire drops its entry, a renewal leaves it to the fence.
TimesOut(s) ==
  /\ s.waiting /\ s.op \in {"acquire", "renew"}
  /\ statements' = Forget(statements, s.by, s.op)
  /\ IF s.op = "acquire" THEN DropAndHold(s.by) ELSE UNCHANGED <<entry, held, command>>
  /\ UNCHANGED <<row, alive>>

SendRenewal(p) ==
  /\ p \in alive /\ HasLease(p) /\ Room(p)
  /\ \A s \in InFlight(p) : ~(s.op = "renew" /\ s.waiting)
  /\ statements' = statements \cup {Sent("renew", p, TRUE, TRUE)}
  /\ UNCHANGED <<row, entry, held, alive, command>>

\* The answer is for the lease it was sent for, whichever entry carries it now.
RenewalAnswered(s) ==
  LET p == s.by IN
  /\ s.op = "renew" /\ s.waiting /\ s.answer # "none"
  /\ statements' = statements \ {s}
  /\ IF s.current
     THEN IF s.answer = "ok"
          THEN /\ entry' = [entry EXCEPT ![p].left = IF Trusted(s) > @ THEN Trusted(s) ELSE @]
               /\ UNCHANGED <<held, command>>
          ELSE DropAndHold(p)
     ELSE UNCHANGED <<entry, held, command>>
  /\ UNCHANGED <<row, alive>>

\* The token of a start or of a refresh: no socket past the fence; a refusal drops the entry.
TokenAnswered(p) ==
  /\ p \in alive /\ entry[p].kind \in {"fetching", "refreshing"}
  /\ IF entry[p].left = 0 THEN DropOnly(p)
     ELSE /\ entry' = [entry EXCEPT ![p] = [@ EXCEPT !.kind = "running", !.verified = FALSE]]
          /\ UNCHANGED <<statements, held, command>>
  /\ UNCHANGED <<row, alive>>

TokenRefused(p) ==
  /\ p \in alive /\ entry[p].kind \in {"fetching", "refreshing"}
  /\ DropOnly(p)
  /\ UNCHANGED <<row, alive>>

\* user.data with the account's id; before it the connection is nobody's.  Only commands ask.
Verified(p) ==
  /\ Command > 0 /\ p \in alive /\ entry[p].kind = "running"
  /\ entry' = [entry EXCEPT ![p].verified = TRUE]
  /\ UNCHANGED <<row, statements, held, alive, command>>

\* A new connection, or token_expired, auth_failed: the client has no socket while the token is
\* fetched again.
Unverified(p, kind) ==
  /\ p \in alive /\ entry[p].kind = "running" /\ kind \in {"running", "refreshing"}
  /\ entry' = [entry EXCEPT ![p] = [@ EXCEPT !.kind = kind, !.verified = FALSE]]
  /\ command' = [command EXCEPT ![p] = 0]
  /\ UNCHANGED <<row, statements, held, alive>>

\* user.data with another id, disconnected_by_server, a client that throws
Disconnected(p) ==
  /\ p \in alive /\ entry[p].kind = "running"
  /\ DropOnly(p)
  /\ UNCHANGED <<row, alive>>

FenceFires(p) ==
  /\ p \in alive /\ HasLease(p) /\ entry[p].left = 0
  /\ DropOnly(p)
  /\ UNCHANGED <<row, alive>>

\* runTick: the account is no candidate any more; a running entry for its idle grace.
Idle(p) ==
  /\ p \in alive /\ entry[p] # NoEntry
  /\ Drop(p)
  /\ statements' = Orphan(Forget(statements, p, "acquire"), p)
  /\ UNCHANGED <<row, held, alive>>

\* runTick: the account is owned by this process again.
Owned(p) ==
  /\ p \in alive /\ entry[p].shed >= 0
  /\ entry' = [entry EXCEPT ![p].shed = -1]
  /\ UNCHANGED <<row, statements, held, alive, command>>

\* runTick: it moved to another process.  A socket gets no command from now on and closes later.
Moved(p) ==
  /\ p \in alive /\ entry[p].kind \in {"running", "refreshing"} /\ entry[p].shed = -1
  /\ entry' = [entry EXCEPT ![p].shed = 0]
  /\ UNCHANGED <<row, statements, held, alive, command>>

\* The grace has passed, or nothing was started yet: the socket closes, then the lease goes back.
Shed(p) ==
  /\ p \in alive /\ Room(p)
  /\ entry[p].kind \in {"acquiring", "fetching"} \/ entry[p].shed >= Grace
  /\ Drop(p)
  /\ statements' = Orphan(Forget(statements, p, "acquire"), p) \cup
                     (IF HasLease(p) THEN {Sent("releaseOne", p, entry[p].current, FALSE)} ELSE {})
  /\ UNCHANGED <<row, held, alive>>

HoldEnds(p) ==
  /\ p \in held
  /\ held' = held \ {p}
  /\ UNCHANGED <<row, entry, statements, alive, command>>

\* stop() closes every client before it sends the release; a crash sends nothing.
End(p, sent) ==
  /\ p \in alive /\ Cardinality(alive) > 1
  /\ alive' = alive \ {p} /\ held' = held \ {p}
  /\ Drop(p)
  /\ statements' = Orphan(Forget(Forget(statements, p, "acquire"), p, "renew"), p) \cup sent
  /\ UNCHANGED row
Stop(p) == End(p, {Sent("release", p, FALSE, FALSE)})
Crash(p) == End(p, {})

-----------------------------------------------------------------------------
(* Commands and time                                                        *)

\* The executor takes the client and sends at once.
Send(p) ==
  /\ Command > 0 /\ p \in alive /\ SessionFor(p) /\ command[p] = 0
  /\ command' = [command EXCEPT ![p] = Command]
  /\ UNCHANGED <<row, entry, statements, held, alive>>

CommandEnds(p) ==
  /\ command[p] > 0
  /\ command' = [command EXCEPT ![p] = 0]
  /\ UNCHANGED <<row, entry, statements, held, alive>>

\* One step of the clock.  A punctual process has closed what its fence closes.
Time ==
  /\ \A p \in alive \ Late : HasLease(p) => entry[p].left > 0
  /\ \A s \in statements : s.age < MaxAge
  /\ row' = IF row # NoRow /\ row.left > -MaxAge THEN [row EXCEPT !.left = @ - 1] ELSE row
  /\ entry' = [p \in Processes |->
                 [entry[p] EXCEPT !.left = IF @ > 0 THEN @ - 1 ELSE 0,
                                  !.shed = IF @ >= 0 /\ @ < Grace THEN @ + 1 ELSE @]]
  /\ statements' = {[s EXCEPT !.age = @ + 1] : s \in statements}
  /\ command' = [p \in Processes |-> IF command[p] > 0 THEN command[p] - 1 ELSE 0]
  /\ UNCHANGED <<held, alive>>

Next ==
  \/ \E s \in statements :
       \/ \E b \in 0..MaxAge : Execute(s, b)
       \/ Lose(s) \/ AcquireAnswered(s) \/ TimesOut(s) \/ RenewalAnswered(s)
  \/ \E p \in Processes :
       \/ Start(p) \/ SendRenewal(p) \/ TokenAnswered(p) \/ TokenRefused(p)
       \/ Verified(p) \/ (\E kind \in {"running", "refreshing"} : Unverified(p, kind))
       \/ Disconnected(p) \/ FenceFires(p) \/ Idle(p) \/ Owned(p) \/ Moved(p) \/ Shed(p)
       \/ HoldEnds(p) \/ Stop(p) \/ Crash(p) \/ Send(p) \/ CommandEnds(p)
  \/ Time

Spec == Init /\ [][Next]_vars

-----------------------------------------------------------------------------
\* What a process trusts, the database grants, for longer: before the fence nobody else can
\* take the account (session-manager.ts:264-266, session-lease-ops.ts:30-31).
TrustedIsHeld ==
  \A p \in Processes : HasLease(p) /\ entry[p].left > 0
                         => row.owner = p /\ row.left > entry[p].left

\* Never two processes that hand out a session of one account, however late their timers are.
OneCommandPath == \A p, q \in Processes : SessionFor(p) /\ SessionFor(q) => p = q

=============================================================================
