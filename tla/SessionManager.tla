--------------------------- MODULE SessionManager ---------------------------
(***************************************************************************)
(* One worker process's broker sessions: ticks over the accounts in work,   *)
(* workers that acquire the lease and fetch the token, the clients' events  *)
(* and states, and the losses told to the circuit breaker.  Every answer    *)
(* arrives after other things have happened.  Time is a matter of flags:    *)
(* what a grace or a hold-back still covers.  Leases are SessionLease.      *)
(***************************************************************************)
EXTENDS Naturals, FiniteSets, Sequences, SequencesExt

CONSTANTS
  Accounts,
  MaxSessions, StartConcurrency,
  MaxStarts,     \* bound: entries of an account
  MaxFaults,     \* bound: tokens that die, refused answers, losses, other users, lost leases
  MaxMoves       \* bound: accounts that enter or leave the work, or move between processes

ASSUME ManagerAssumption ==
  /\ IsFiniteSet(Accounts)
  /\ MaxSessions \in Nat \ {0} /\ StartConcurrency \in Nat \ {0}
  /\ MaxStarts \in Nat /\ MaxFaults \in Nat /\ MaxMoves \in Nat

VARIABLES
  entries,      \* one per account
  client,       \* the state of the running entry's client, and whose connection it is
  live,         \* started and not stopped clients of an account, by the entry that made them
  calls,        \* awaited: acquires and token fetches, by the entry they are for
  starts,
  heldBack,     \* accounts held back
  startQueue,
  tick,         \* the running tick and its answer: the accounts in work
  inWork, mine, \* what the query and deps.owns() say now
  token,        \* the version the backend hands out
  dead,         \* versions up to this one are refused by the broker
  stopping,
  faults, moves,
  history       \* ghosts of an account

managerVars == <<entries, client, live, calls, starts, heldBack, startQueue, tick, inWork, mine,
                 token, dead, stopping, faults, moves, history>>

world == <<inWork, mine, token, dead, moves>>
scan == <<startQueue, tick>>

EmptyEntry ==
  [kind |-> "none", gen |-> 0, verified |-> FALSE, refreshing |-> FALSE, ever |-> FALSE,
   lost |-> "no", reported |-> FALSE, rearmed |-> FALSE, token |-> 0,
   idle |-> FALSE, shed |-> FALSE]
NoClient == [state |-> "idle", user |-> "none"]
NoTick == [on |-> FALSE, present |-> {}]

\* down: was ready, and lost its connection since; told: losses reported since it was last ready;
\* refused: tokens the broker refused since the account was last held back or let go
NoHistory == [ready |-> FALSE, down |-> FALSE, told |-> 0, refused |-> {},
              false |-> FALSE, foreign |-> FALSE, again |-> FALSE]

ManagerInit ==
  /\ entries = [a \in Accounts |-> EmptyEntry]
  /\ client = [a \in Accounts |-> NoClient]
  /\ live = [a \in Accounts |-> {}]
  /\ calls = [a \in Accounts |-> {}]
  /\ starts = [a \in Accounts |-> 0]
  /\ heldBack = {}
  /\ startQueue = <<>>
  /\ tick = NoTick
  /\ inWork = Accounts /\ mine = Accounts
  /\ token = [a \in Accounts |-> 1] /\ dead = [a \in Accounts |-> 0]
  /\ stopping = FALSE
  /\ faults = 0 /\ moves = 0
  /\ history = [a \in Accounts |-> NoHistory]

Running(a) == entries[a].kind = "running"
Known == {a \in Accounts : entries[a].kind # "none"}
Fault == faults < MaxFaults /\ faults' = faults + 1

SessionOf(a) == Running(a) /\ entries[a].verified /\ ~entries[a].shed

-----------------------------------------------------------------------------
(* The world *)

Moves ==
  /\ moves < MaxMoves /\ moves' = moves + 1
  /\ \E a \in Accounts :
       \/ inWork' = (inWork \cup {a}) \ (inWork \cap {a}) /\ UNCHANGED mine
       \/ mine' = (mine \cup {a}) \ (mine \cap {a}) /\ UNCHANGED inWork
  /\ UNCHANGED <<entries, client, live, calls, starts, heldBack, startQueue, tick, token, dead,
                 stopping, faults, history>>

\* the broker stops accepting the token; a call of the user exchanges it
TokenDies(a) ==
  /\ dead[a] < token[a] /\ Fault
  /\ dead' = [dead EXCEPT ![a] = token[a]]
  /\ UNCHANGED <<entries, client, live, calls, starts, heldBack, startQueue, tick, inWork, mine,
                 token, stopping, moves, history>>

Exchanged(a) ==
  /\ dead[a] = token[a]
  /\ token' = [token EXCEPT ![a] = @ + 1]
  /\ UNCHANGED <<entries, client, live, calls, starts, heldBack, startQueue, tick, inWork, mine,
                 dead, stopping, faults, moves, history>>

-----------------------------------------------------------------------------
(* Entries *)

Forgotten(a) ==
  /\ entries' = [entries EXCEPT ![a] = EmptyEntry]
  /\ client' = [client EXCEPT ![a] = NoClient]
  /\ live' = [live EXCEPT ![a] = @ \ {entries[a].gen}]

\* drop() with a hold-back: the account is a plain candidate again once it is over
DropEntry(a, h) ==
  /\ Forgotten(a)
  /\ heldBack' = heldBack \cup {a}
  /\ history' = [history EXCEPT ![a] = [h EXCEPT !.ready = FALSE, !.down = FALSE, !.told = 0]]

\* client.start() with a token, of the entry of this number
Starts(a, gen, v) ==
  /\ client' = [client EXCEPT ![a] = [state |-> "connecting", user |-> "none"]]
  /\ live' = [live EXCEPT ![a] = @ \cup {gen}]
  /\ history' = [history EXCEPT ![a].again = @ \/ v \in history[a].refused]

Awaits(a, what, gen) == calls' = [calls EXCEPT ![a] = @ \cup {[what |-> what, gen |-> gen]}]

Starting ==
  {c \in UNION {{a} \X calls[a] : a \in Accounts} : c[2].what \in {"acquire", "token"}}

MayStart(a) == entries[a].kind = "none" /\ a \notin heldBack

\* worker(): the next of the queue; startOne enters it before its first await
Worker ==
  /\ ~stopping /\ startQueue # <<>> /\ Cardinality(Starting) < StartConcurrency
  /\ startQueue' = Tail(startQueue)
  /\ LET a == Head(startQueue) IN
     IF MayStart(a)
       THEN /\ starts[a] < MaxStarts
            /\ starts' = [starts EXCEPT ![a] = @ + 1]
            /\ entries' = [entries EXCEPT ![a] = [EmptyEntry EXCEPT !.kind = "starting",
                                                                     !.gen = starts[a] + 1]]
            /\ Awaits(a, "acquire", starts[a] + 1)
       ELSE UNCHANGED <<starts, entries, calls>>
  /\ UNCHANGED <<client, live, heldBack, tick, world, stopping, faults, history>>

\* the entry the call was made for is still the account's
Current(a, call) == ~stopping /\ entries[a].kind # "none" /\ entries[a].gen = call.gen

CallAnswered(a, call) == calls' = [calls EXCEPT ![a] = @ \ {call}]

LeaseAnswered(a, call) ==
  /\ call.what = "acquire"
  /\ IF Current(a, call)
       THEN \/ /\ calls' = [calls EXCEPT ![a] =
                              (@ \ {call}) \cup {[what |-> "token", gen |-> call.gen]}]
               /\ UNCHANGED <<entries, client, live, heldBack, history, faults>>
            \/ \* busy, timed out, threw
               Fault /\ CallAnswered(a, call) /\ DropEntry(a, history[a])
       ELSE /\ CallAnswered(a, call)
            /\ UNCHANGED <<entries, client, live, heldBack, history, faults>>
  /\ UNCHANGED <<starts, scan, world, stopping>>

\* the token for a start
StartTokenAnswered(a, call) ==
  /\ call.what = "token"
  /\ CallAnswered(a, call)
  /\ IF Current(a, call)
       THEN \/ /\ entries' = [entries EXCEPT ![a] = [EmptyEntry EXCEPT !.kind = "running",
                                                    !.gen = call.gen, !.token = token[a]]]
               /\ Starts(a, call.gen, token[a])
               /\ UNCHANGED <<heldBack, faults>>
            \/ \* refused, threw, past the fence
               Fault /\ DropEntry(a, history[a])
       ELSE UNCHANGED <<entries, client, live, heldBack, history, faults>>
  /\ UNCHANGED <<starts, scan, world, stopping>>

\* Mutant: a session restarts with whatever it was given
Unchanged_Never(a) == FALSE

\* the backend did not mark the refusal
Unchanged(a) == token[a] = entries[a].token

\* the token after token_expired or auth_failed
RefreshAnswered(a, call) ==
  /\ call.what = "refresh"
  /\ CallAnswered(a, call)
  /\ IF Current(a, call)
       THEN \/ /\ ~Unchanged(a)
               /\ entries' = [entries EXCEPT ![a].refreshing = FALSE, ![a].token = token[a],
                                         ![a].verified = FALSE,
                                         ![a].lost = IF entries[a].rearmed THEN "fresh" ELSE @,
                                         ![a].rearmed = FALSE]
               /\ client' = [client EXCEPT ![a] = [state |-> "connecting", user |-> "none"]]
               /\ live' = live
               /\ history' = [history EXCEPT ![a].again = @ \/ token[a] \in history[a].refused,
                                             ![a].down = history[a].ready]
               /\ UNCHANGED <<heldBack, faults>>
            \/ Unchanged(a) /\ DropEntry(a, history[a]) /\ UNCHANGED faults
            \/ Fault /\ DropEntry(a, history[a])
       ELSE UNCHANGED <<entries, client, live, heldBack, history, faults>>
  /\ UNCHANGED <<starts, scan, world, stopping>>

-----------------------------------------------------------------------------
(* A running session's client *)

\* lostSince, when the client is connecting again after `from`
LostSince(a, from) == IF entries[a].lost # "no" THEN entries[a].lost
                      ELSE IF from = "ready" THEN "fresh" ELSE "no"

\* a new connection proves its identity again
Unproven(a) == FALSE

\* onState: connecting, authenticating or reconnecting
Reconnects(a, from, to) ==
  /\ client[a].state = from
  /\ client' = [client EXCEPT ![a] = [state |-> to, user |-> "none"]]
  /\ entries' = [entries EXCEPT ![a].verified = Unproven(a), ![a].lost = LostSince(a, from)]
  /\ history' = [history EXCEPT ![a].down = @ \/ from = "ready"]

Authenticates(a) ==
  /\ Running(a)
  /\ \E from \in {"connecting", "reconnecting"} : Reconnects(a, from, "authenticating")
  /\ UNCHANGED <<live, calls, starts, heldBack, scan, world, stopping, faults>>

Breaks(a) ==
  /\ Running(a)
  /\ \/ Reconnects(a, "authenticating", "reconnecting") /\ UNCHANGED faults
     \/ Reconnects(a, "ready", "reconnecting") /\ Fault
  /\ UNCHANGED <<live, calls, starts, heldBack, scan, world, stopping>>

\* onState: ready; whose connection it is only user.data will say
Ready(a) ==
  /\ Running(a) /\ client[a].state = "authenticating" /\ entries[a].token > dead[a]
  /\ \/ client' = [client EXCEPT ![a] = [state |-> "ready", user |-> "own"]] /\ UNCHANGED faults
     \/ client' = [client EXCEPT ![a] = [state |-> "ready", user |-> "other"]] /\ Fault
  /\ entries' = [entries EXCEPT ![a].ever = TRUE, ![a].lost = "no", ![a].reported = FALSE,
                            ![a].rearmed = FALSE]
  /\ history' = [history EXCEPT ![a].ready = TRUE, ![a].down = FALSE, ![a].told = 0]
  /\ UNCHANGED <<live, calls, starts, heldBack, scan, world, stopping>>

\* credentials, not the connection: no loss
Credentials(a) == "no"

\* onState: token_expired or auth_failed; refresh() reports the token
TokenExpires(a) ==
  /\ Running(a) /\ client[a].state \in {"authenticating", "ready"} /\ entries[a].token <= dead[a]
  /\ client' = [client EXCEPT ![a] = [state |-> "token_expired", user |-> "none"]]
  /\ entries' = [entries EXCEPT ![a].verified = FALSE, ![a].lost = Credentials(a),
                            ![a].rearmed = entries[a].ever, ![a].refreshing = TRUE]
  /\ Awaits(a, "refresh", entries[a].gen)
  /\ history' = [history EXCEPT ![a].down = FALSE, ![a].refused = @ \cup {entries[a].token}]
  /\ UNCHANGED <<live, starts, heldBack, scan, world, stopping, faults>>

\* the breaker is told of a loss; it is false unless the broker was lost and it was not told yet
Told(h, lost) == [h EXCEPT !.told = @ + 1, !.false = @ \/ ~lost \/ h.told > 0]

\* onState: disconnected_by_server
ServerDisconnects(a) ==
  /\ Running(a) /\ client[a].state \in {"connecting", "authenticating", "ready"} /\ Fault
  /\ DropEntry(a, IF entries[a].ever /\ ~entries[a].reported THEN Told(history[a], history[a].ready)
             ELSE history[a])
  /\ UNCHANGED <<calls, starts, scan, world, stopping>>

\* onEvent: user.data
UserData(a) ==
  /\ Running(a) /\ client[a].state = "ready"
  /\ IF client[a].user = "own"
       THEN /\ entries' = [entries EXCEPT ![a].verified = TRUE]
            /\ UNCHANGED <<client, live, heldBack, history>>
       ELSE DropEntry(a, history[a])
  /\ UNCHANGED <<calls, starts, scan, world, stopping, faults>>

\* onEvent: a balance or a closed trade goes to the account's write queue
Event(a) ==
  /\ Running(a) /\ client[a].state = "ready" /\ entries[a].verified
  /\ history' = [history EXCEPT ![a].foreign = @ \/ client[a].user # "own"]
  /\ UNCHANGED <<entries, client, live, calls, starts, heldBack, scan, world, stopping, faults>>

\* lossGraceMs passes
GracePasses(a) ==
  /\ entries[a].lost = "fresh"
  /\ entries' = [entries EXCEPT ![a].lost = "over"]
  /\ UNCHANGED <<client, live, calls, starts, heldBack, scan, world, stopping, faults, history>>

Unreported == {a \in Accounts : /\ Running(a) /\ client[a].state # "ready"
                                /\ entries[a].lost = "over" /\ ~entries[a].reported}

\* observeSessions, on its own timer
Observe ==
  /\ ~stopping /\ Unreported # {}
  /\ entries' = [a \in Accounts |->
       IF a \in Unreported THEN [entries[a] EXCEPT !.reported = TRUE] ELSE entries[a]]
  /\ history' = [a \in Accounts |->
       IF a \in Unreported THEN Told(history[a], history[a].down) ELSE history[a]]
  /\ UNCHANGED <<client, live, calls, starts, heldBack, scan, world, stopping, faults>>

\* the fence, or a renewal that did not return the lease
LeaseLost(a) ==
  /\ entries[a].kind # "none" /\ Fault
  /\ DropEntry(a, history[a])
  /\ UNCHANGED <<calls, starts, scan, world, stopping>>

-----------------------------------------------------------------------------
(* The tick *)

\* the hold-backs that are over go, the query leaves the others out
TickAsks ==
  /\ ~stopping /\ ~tick.on
  /\ \E over \in SUBSET heldBack :
       /\ heldBack' = heldBack \ over
       /\ tick' = [on |-> TRUE, present |-> inWork \ (heldBack \ over)]
       /\ history' = [a \in Accounts |->
            IF a \in over THEN [history[a] EXCEPT !.refused = {}] ELSE history[a]]
  /\ UNCHANGED <<entries, client, live, calls, starts, startQueue, world, stopping, faults>>

Assigned == tick.present \cap mine

\* entries forgotten: a starting one that is not ours, a running one past its grace
LetGo(over) == {a \in Known \ Assigned :
  \/ entries[a].kind = "starting"
  \/ a \in over /\ IF a \in tick.present THEN entries[a].shed ELSE entries[a].idle}

\* the cap counts the starting and the shedding entries too
Slots(left) == IF Cardinality(left) >= MaxSessions THEN 0 ELSE MaxSessions - Cardinality(left)

\* a session in work is marked as leaving for another process or not; one out of work keeps that mark
Marked(a) ==
  [entries[a] EXCEPT !.shed = IF a \in tick.present THEN a \notin mine ELSE @,
                     !.idle = a \notin tick.present]

\* accounts in the order of the query
InOrder(accounts) == SetToSeq(accounts)

TickApplies ==
  /\ ~stopping /\ tick.on
  /\ \E over \in SUBSET Known :
       LET gone == LetGo(over)
           left == Known \ gone
           queue == InOrder(Assigned \ left)
       IN /\ entries' = [a \in Accounts |-> IF a \in gone THEN EmptyEntry
                                          ELSE IF Running(a) THEN Marked(a) ELSE entries[a]]
          /\ client' = [a \in Accounts |-> IF a \in gone THEN NoClient ELSE client[a]]
          /\ live' = [a \in Accounts |-> IF a \in gone THEN live[a] \ {entries[a].gen} ELSE live[a]]
          /\ history' = [a \in Accounts |->
               IF a \in gone
               THEN [history[a] EXCEPT !.ready = FALSE, !.down = FALSE, !.told = 0, !.refused = {}]
               ELSE history[a]]
          /\ startQueue' =
               SubSeq(queue, 1, IF Len(queue) < Slots(left) THEN Len(queue) ELSE Slots(left))
  /\ tick' = NoTick
  /\ UNCHANGED <<calls, starts, heldBack, world, stopping, faults>>

\* the query failed
TickFails ==
  /\ tick.on /\ Fault
  /\ tick' = NoTick
  /\ UNCHANGED <<entries, client, live, calls, starts, heldBack, startQueue, world, stopping,
                 history>>

StopManager ==
  /\ ~stopping /\ stopping' = TRUE
  /\ entries' = [a \in Accounts |-> EmptyEntry] /\ client' = [a \in Accounts |-> NoClient]
  /\ live' = [a \in Accounts |-> live[a] \ {entries[a].gen}]
  /\ startQueue' = <<>>
  /\ history' = [a \in Accounts |-> [history[a] EXCEPT !.ready = FALSE, !.down = FALSE, !.told = 0]]
  /\ UNCHANGED <<calls, starts, heldBack, tick, world, faults>>

Client(a) ==
  \/ Authenticates(a) \/ Breaks(a) \/ Ready(a) \/ TokenExpires(a) \/ ServerDisconnects(a)
  \/ UserData(a) \/ Event(a) \/ GracePasses(a) \/ LeaseLost(a)

ManagerNext ==
  \/ Moves
  \/ \E a \in Accounts :
       \/ TokenDies(a) \/ Exchanged(a) \/ Client(a)
       \/ \E call \in calls[a] :
            LeaseAnswered(a, call) \/ StartTokenAnswered(a, call) \/ RefreshAnswered(a, call)
  \/ Worker \/ Observe \/ TickAsks \/ TickApplies \/ TickFails \/ StopManager

ManagerSpec == ManagerInit /\ [][ManagerNext]_managerVars

-----------------------------------------------------------------------------
(* Properties *)

ManagerTypeOK ==
  /\ \A a \in Accounts :
       /\ entries[a].kind \in {"none", "starting", "running"}
       /\ entries[a].refreshing = (client[a].state = "token_expired")
       /\ client[a].state # "idle" => Running(a)
       /\ a \in heldBack => entries[a].kind = "none"
  /\ Cardinality(Starting) <= StartConcurrency

\* No account has two clients, and none outlives its entry: an answer that comes after the account
\* was dropped, taken again or stopped starts nothing.
OneClient ==
  \A a \in Accounts : live[a] = IF Running(a) THEN {entries[a].gen} ELSE {}

\* Nothing of another broker user is written to an account, and no command goes to a connection
\* whose user.data has not been the account's.
OwnConnection ==
  \A a \in Accounts :
    /\ ~history[a].foreign
    /\ SessionOf(a) => client[a] = [state |-> "ready", user |-> "own"]

\* A token the broker refused is not presented again before the account was held back: no loop
\* against the broker's limit on user.auth.
NoAuthLoop == \A a \in Accounts : ~history[a].again

\* The breaker is told of a loss only when the broker was lost after it was ready, once until it is
\* ready again, and of no drop of our own.
OnlyLosses == \A a \in Accounts : ~history[a].false

\* No account has two clients, none works as another broker user, a refused token is not
\* presented again, and the breaker is told of losses only.
ManagerSafe == ManagerTypeOK /\ OneClient /\ OwnConnection /\ NoAuthLoop /\ OnlyLosses

=============================================================================
