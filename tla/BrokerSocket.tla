---------------------------- MODULE BrokerSocket ----------------------------
(***************************************************************************)
(* The Socket.IO client of the broker (packages/broker-socket/src/         *)
(* socket.ts): its states, the handshake with the pass of subscriptions,   *)
(* the one trade command in flight, and the queue its listeners are served *)
(* from.  JavaScript runs a unit of work to its end, so nothing else moves *)
(* while the queue is being drained; a listener may call the client from   *)
(* inside its own delivery.                                                *)
(***************************************************************************)
EXTENDS Integers, Sequences, FiniteSetsExt, SequencesExt

CONSTANTS Assets, Commands,                    \* commands are given out in order
          MaxSocketStarts, MaxSocketFaults     \* bounds

ASSUME SocketAssumption ==
  Commands \subseteq Nat \ {0} /\ MaxSocketStarts \in Nat /\ MaxSocketFaults \in Nat

None == 0
Terminal == {"auth_failed", "token_expired", "disconnected_by_server"}
States == {"idle", "connecting", "authenticating", "ready", "reconnecting"} \cup Terminal

\* what an answer can be told by: the mode, and the asset, action and amount
Terms == {<<"demo", 1>>, <<"demo", 2>>, <<"real", 1>>}
Mode(t) == t[1]

Listeners == <<"owner", "recorder">>

VARIABLES
  state,
  session,   \* the number of the current start(), None without one
  socketStarts,
  link,      \* the socket: "down" between attempts, "up", "dead" (its loss not noticed), "closing", "shut"
  conn,      \* the ordinal of the connection, None while there is none
  tainted,
  timer,     \* the auth timer
  buffer,    \* socket.io's sendBuffer
  registry,
  pending,   \* the command in flight, None without one
  commands,
  queue,     \* what the listeners have not heard
  wire,      \* what went out on this connection, in order
  authed,    \* the broker accepted user.auth on this connection
  mute,      \* the broker will not answer user.auth on this connection
  count,     \* connectionCount of the session
  seen,      \* ghost: the last state each listener heard
  socketFaults

socketVars == <<state, session, socketStarts, link, conn, tainted, timer, buffer, registry, pending,
                commands, queue, wire, authed, mute, count, seen, socketFaults>>

\* ghosts of a command: how often a wire carried it, whose answer ended it (None: of no command of
\* this client), and the terms that answer carried
New == [status |-> "none", terms |-> <<"demo", 1>>, sent |-> 0, by |-> None, said |-> <<"demo", 1>>]

SocketInit ==
  /\ state = "idle" /\ session = None /\ socketStarts = 0
  /\ link = "shut" /\ conn = None /\ tainted = FALSE /\ timer = FALSE
  /\ buffer = <<>> /\ registry = {}
  /\ pending = None /\ commands = [c \in Commands |-> New]
  /\ queue = <<>> /\ wire = <<>> /\ authed = FALSE /\ mute = FALSE /\ count = 0
  /\ seen = [l \in Range(Listeners) |-> "idle"]
  /\ socketFaults = 0

Auth == [what |-> "auth"]
Subscribe(ids) == [what |-> "subscribe", ids |-> ids]
Trade(c) == [what |-> "trade", c |-> c]
Reply(c) == [what |-> "reply", c |-> c]  \* the broker's, kept with what went out

TradesOf(msgs, c) == Cardinality({i \in DOMAIN msgs : msgs[i] = Trade(c)})

-----------------------------------------------------------------------------
(* The queue *)

Change(from, to) == [kind |-> "state", from |-> from, to |-> to, session |-> None, left |-> Listeners]
EventItem == [kind |-> "event", from |-> "", to |-> "", session |-> session, left |-> Listeners]

Behind(q, item) == Append(q, item)

\* transition's entry
Queued(q, to) == IF state = to THEN q ELSE Behind(q, Change(state, to))

\* settleCommand: the command in flight ends with `status`
Ended(status, by) ==
  IF pending = None THEN commands
  ELSE [commands EXCEPT ![pending].status = status, ![pending].by = by]

\* transition: the answer can no longer be told from silence
Unsettled == <<None, Ended("unknown", None)>>

Transition(q, to) ==
  /\ state' = to
  /\ queue' = Queued(q, to)
  /\ pending' = Unsettled[1] /\ commands' = Unsettled[2]

-----------------------------------------------------------------------------
(* Emits *)

\* what a message emitted now adds to the wire and to the send buffer
Out(msgs) ==
  CASE link = "up" -> /\ wire' = wire \o msgs /\ buffer' = buffer
    [] link = "dead" -> wire' = wire /\ buffer' = buffer \o msgs
    [] OTHER -> UNCHANGED <<wire, buffer>>

\* the trades among the messages that a wire carries now
Carried(cmds, msgs) == [c \in Commands |-> [cmds[c] EXCEPT !.sent = @ + TradesOf(msgs, c)]]

-----------------------------------------------------------------------------
(* The owner's calls; q is what the queue holds before the call *)

\* start(): throws unless idle or terminal; an older session is ended
StartCall(q) ==
  /\ socketStarts < MaxSocketStarts
  /\ state \in Terminal \cup {"idle"}
  /\ session' = socketStarts + 1 /\ socketStarts' = socketStarts + 1 /\ count' = 0
  /\ link' = "down" /\ conn' = None /\ tainted' = FALSE /\ timer' = FALSE
  /\ buffer' = <<>> /\ wire' = <<>> /\ authed' = FALSE /\ mute' = FALSE
  /\ Transition(q, "connecting")
  /\ UNCHANGED registry

\* stop(): the session is gone before its socket disconnects
StopCall(q) ==
  /\ session # None
  /\ session' = None
  /\ link' = "shut" /\ conn' = None /\ tainted' = FALSE /\ timer' = FALSE
  /\ buffer' = <<>> /\ wire' = <<>> /\ authed' = FALSE /\ mute' = FALSE
  /\ Transition(q, "idle")
  /\ UNCHANGED <<socketStarts, registry, count>>

\* subscribe(): sent at once while ready, otherwise with the next pass
SendsNow == session # None /\ state = "ready"

SubscribeCall(q) ==
  /\ \E a \in Assets \ registry :
       /\ registry' = registry \cup {a}
       /\ IF SendsNow THEN Out(<<Subscribe({a})>>) ELSE UNCHANGED <<wire, buffer>>
  /\ queue' = q
  /\ UNCHANGED <<state, session, socketStarts, link, conn, tainted, timer, pending, commands, authed,
                 mute, count>>

\* Mutant: the taint is not asked
MaySend_Tainted == session # None /\ conn # None /\ state = "ready"

MaySend == session # None /\ conn # None /\ ~tainted /\ state = "ready"

\* openTrade(): the check and the emit are one unit; when it may not send, nothing happens
OpenCall(q) ==
  /\ pending = None /\ MaySend
  /\ \E c \in Commands, t \in Terms :
       /\ commands[c].status = "none" /\ \A d \in Commands : d < c => commands[d].status # "none"
       /\ pending' = c
       /\ LET put == [commands EXCEPT ![c].status = "waiting", ![c].terms = t]
          IN commands' = IF link = "up" THEN Carried(put, <<Trade(c)>>) ELSE put
       /\ Out(<<Trade(c)>>)
  /\ queue' = q
  /\ UNCHANGED <<state, session, socketStarts, link, conn, tainted, timer, registry, authed, mute,
                 count>>

OwnerCall(q) == StartCall(q) \/ StopCall(q) \/ SubscribeCall(q) \/ OpenCall(q)

OwnerCalls == queue = <<>> /\ OwnerCall(queue) /\ UNCHANGED <<seen, socketFaults>>

-----------------------------------------------------------------------------
(* Deliveries *)

\* sessionEnded: a listener before this one stopped or restarted the client
Stale(item) == item.kind = "event" /\ item.session # session

\* the queue when the next listener heard the item at its head
AfterOne(q) == IF Len(q[1].left) = 1 THEN Tail(q) ELSE [q EXCEPT ![1].left = Tail(@)]

\* deliver: the next listener hears the item at the head; the owner may call the client
Deliver ==
  /\ queue # <<>>
  /\ LET item == queue[1]
         listener == item.left[1]
         rest == AfterOne(queue)
     IN IF Stale(item)
          THEN /\ queue' = Tail(queue)
               /\ UNCHANGED <<state, session, socketStarts, link, conn, tainted, timer, buffer,
                              registry, pending, commands, wire, authed, mute, count, seen>>
          ELSE /\ seen' = IF item.kind = "state" THEN [seen EXCEPT ![listener] = item.to] ELSE seen
               /\ \/ listener = "owner" /\ OwnerCall(rest)
                  \/ /\ queue' = rest
                     /\ UNCHANGED <<state, session, socketStarts, link, conn, tainted, timer, buffer,
                                    registry, pending, commands, wire, authed, mute, count>>
  /\ UNCHANGED socketFaults

-----------------------------------------------------------------------------
(* The socket *)

Quiet == queue = <<>>
SocketFault == socketFaults < MaxSocketFaults /\ socketFaults' = socketFaults + 1

\* onConnect: socket.io flushes its buffer, then the client authenticates
Connect ==
  /\ Quiet /\ link = "down"
  /\ link' = "up" /\ conn' = count + 1 /\ count' = count + 1 /\ tainted' = FALSE
  /\ wire' = buffer \o <<Auth>> /\ buffer' = <<>> /\ authed' = FALSE
  /\ \/ mute' = FALSE /\ UNCHANGED socketFaults
     \/ mute' = TRUE /\ SocketFault
  /\ timer' = TRUE
  /\ state' = "authenticating" /\ queue' = Queued(queue, "authenticating")
  /\ pending' = Unsettled[1] /\ commands' = Carried(Unsettled[2], buffer)
  /\ UNCHANGED <<session, socketStarts, registry, seen>>

\* a refused connection is not tried again
Refused ==
  /\ Quiet /\ link = "down" /\ SocketFault
  /\ link' = "shut"
  /\ Transition(queue, "disconnected_by_server")
  /\ UNCHANGED <<session, socketStarts, conn, tainted, timer, buffer, registry, wire, authed, mute,
                 count, seen>>

\* onDisconnect empties the send buffer
KeptBuffer == <<>>

\* onDisconnect after a loss of the transport: socket.io tries again
Loses ==
  /\ link' = "down" /\ conn' = None /\ tainted' = FALSE /\ timer' = FALSE
  /\ buffer' = KeptBuffer /\ wire' = <<>> /\ authed' = FALSE /\ mute' = FALSE

Lost ==
  /\ Quiet /\ conn # None
  /\ \/ link = "up" /\ SocketFault
     \/ link \in {"dead", "closing"} /\ UNCHANGED socketFaults
  /\ Loses
  /\ Transition(queue, "reconnecting")
  /\ UNCHANGED <<session, socketStarts, registry, count, seen>>

\* the ping deadline passed: emits are buffered until the loss is noticed
Dies ==
  /\ Quiet /\ link = "up" /\ SocketFault
  /\ link' = "dead"
  /\ UNCHANGED <<state, session, socketStarts, conn, tainted, timer, buffer, registry, pending,
                 commands, queue, wire, authed, mute, count, seen>>

\* the socket of a terminal state is closed by the client or by the server
Shuts(to) ==
  /\ link' = "shut" /\ conn' = None /\ tainted' = FALSE /\ timer' = FALSE
  /\ buffer' = <<>> /\ wire' = <<>> /\ authed' = FALSE /\ mute' = FALSE
  /\ UNCHANGED <<session, socketStarts, registry, count, seen>>

ServerCloses ==
  /\ Quiet /\ link \in {"up", "closing"} /\ SocketFault
  /\ Shuts("disconnected_by_server")
  /\ Transition(queue, "disconnected_by_server")

\* onTerminalEvent: the token is refused or expired
CredentialsEnd(to) ==
  /\ Quiet /\ link \in {"up", "closing"} /\ SocketFault
  /\ to = "auth_failed" \/ authed
  /\ Shuts(to)
  /\ state' = to
  /\ queue' = Behind(Queued(queue, to), EventItem)
  /\ pending' = Unsettled[1] /\ commands' = Unsettled[2]

\* the pass: everything registered
Pass == IF registry = {} THEN <<>> ELSE <<Subscribe(registry)>>

Disarmed == FALSE

\* onAuthSuccess: the pass goes out before `ready` is published; a second success starts none
AuthSuccess ==
  /\ Quiet /\ link \in {"up", "closing"} /\ ~mute
  /\ IF authed THEN SocketFault ELSE UNCHANGED socketFaults
  /\ authed' = TRUE
  /\ IF state = "authenticating"
       THEN /\ timer' = Disarmed
            /\ Out(Pass)
            /\ state' = "ready" /\ queue' = Behind(Queued(queue, "ready"), EventItem)
            /\ pending' = Unsettled[1] /\ commands' = Unsettled[2]
       ELSE /\ queue' = Behind(queue, EventItem)
            /\ UNCHANGED <<timer, wire, buffer, state, pending, commands>>
  /\ UNCHANGED <<session, socketStarts, link, conn, tainted, registry, mute, count, seen>>

\* engine.close(): at once, or after the write buffer is drained
EngineCloses ==
  \/ Loses
  \/ link \in {"up", "dead"} /\ link' = "closing" /\ UNCHANGED <<conn, buffer, wire, authed, mute>>

\* the hung handshake becomes a loss of the transport
HungClosed == EngineCloses /\ tainted' = FALSE /\ timer' = FALSE

\* onAuthTimeout; an answer later than the timer is a fault
AuthTimeout ==
  /\ Quiet /\ timer
  /\ IF mute THEN UNCHANGED socketFaults ELSE SocketFault
  /\ HungClosed
  /\ IF link' = "down" THEN Transition(queue, "reconnecting")
     ELSE UNCHANGED <<state, queue, pending, commands>>
  /\ UNCHANGED <<session, socketStarts, registry, count, seen>>

\* mismatchedField: a success carries the command's terms
Fits(t) == t = commands[pending].terms

\* answerCommand: a success of these terms or a fail of the mode, while a command waits
AnswerCommand(kind, t, by) ==
  /\ IF /\ pending # None
        /\ IF kind = "success" THEN Fits(t) ELSE Mode(t) = Mode(commands[pending].terms)
       THEN pending' = None /\ commands' = [Ended(kind, by) EXCEPT ![pending].said = t]
       ELSE UNCHANGED <<pending, commands>>
  /\ queue' = Behind(queue, EventItem)
  /\ UNCHANGED <<state, session, socketStarts, link, conn, tainted, timer, buffer, registry, authed,
                 mute, count, seen>>

\* the broker answers a command it got on this connection, once, whenever it likes
Answer(c) ==
  /\ Quiet /\ link \in {"up", "closing"} /\ authed
  /\ TradesOf(wire, c) > 0 /\ Reply(c) \notin Range(wire)
  /\ \E kind \in {"success", "fail"} : AnswerCommand(kind, commands[c].terms, c)
  /\ wire' = Append(wire, Reply(c))
  /\ UNCHANGED socketFaults

\* an open_trade event of another client of the account, a manual order for one, if the broker
\* sends it to every socket of the user: any terms, those of the command in flight included
Elsewhere ==
  /\ Quiet /\ link \in {"up", "closing"} /\ authed /\ SocketFault
  /\ \E kind \in {"success", "fail"}, t \in Terms : AnswerCommand(kind, t, None)
  /\ UNCHANGED wire

\* endWithoutAnswer: the command's timer, or the caller's abort
EndWithoutAnswer ==
  /\ Quiet /\ pending # None
  /\ IF link \in {"up", "dead"}
       THEN \/ /\ Loses
               /\ state' = "reconnecting" /\ queue' = Queued(queue, "reconnecting")
            \/ /\ link' = "closing" /\ tainted' = TRUE
               /\ UNCHANGED <<conn, timer, buffer, wire, authed, mute, state, queue>>
       ELSE /\ tainted' = TRUE
            /\ UNCHANGED <<link, conn, timer, buffer, wire, authed, mute, state, queue>>
  /\ pending' = None /\ commands' = Ended("unknown", None)
  /\ UNCHANGED <<session, socketStarts, registry, count, seen, socketFaults>>

SocketNext ==
  \/ OwnerCalls \/ Deliver
  \/ Connect \/ Refused \/ Lost \/ Dies \/ ServerCloses
  \/ \E to \in {"auth_failed", "token_expired"} : CredentialsEnd(to)
  \/ AuthSuccess \/ AuthTimeout
  \/ \E c \in Commands : Answer(c)
  \/ Elsewhere \/ EndWithoutAnswer

SocketSpec == SocketInit /\ [][SocketNext]_socketVars

-----------------------------------------------------------------------------
(* Properties *)

SocketTypeOK ==
  /\ state \in States
  /\ link \in {"down", "up", "dead", "closing", "shut"}
  /\ (conn # None) = (link \in {"up", "dead", "closing"})
  /\ link = "shut" <=> state \in Terminal \cup {"idle"}
  /\ session # None <=> state # "idle"
  /\ timer => state = "authenticating"
  /\ pending # None => commands[pending].status = "waiting"

\* the command ended with an answer that is not its own
Misled(c) == commands[c].status \in {"success", "fail"} /\ commands[c].by # c

\* A command takes an answer of its terms (a fail: of its mode), and only its own: the late answer
\* of a command that was given up never meets the next one, for the connection is tainted
\* (docs/broker-socket.md).  The answer has no field that names the command, so one case stays, the
\* accepted risk 4 of docs/broker-session.md:439-444: an event of another client that fits passes
\* for the answer, and then the answer that command was still to have may pass for the next one's.
OwnAnswer ==
  \A c \in Commands : commands[c].status \in {"success", "fail"} =>
    /\ IF commands[c].status = "success" THEN commands[c].said = commands[c].terms
                                         ELSE Mode(commands[c].said) = Mode(commands[c].terms)
    /\ commands[c].by \in {c, None} \/ Misled(commands[c].by)

\* A command reaches the broker at most once, and never on a later connection, ahead of the
\* authentication, although an emit on a dead transport is buffered by socket.io.
SentOnce ==
  \A c \in Commands :
    /\ commands[c].sent <= 1
    /\ TradesOf(wire, c) > 0 =>
         \E i \in DOMAIN wire : wire[i] = Auth /\ \A j \in DOMAIN wire : wire[j] = Trade(c) => i < j

\* A waiting command belongs to the connection that is there: when the connection goes the
\* command ends, and its answer is not looked for on the next one.
WaitsOnItsConnection ==
  pending # None => state = "ready" /\ (link = "up" => TradesOf(wire, pending) = 1)

Asked(a) == {i \in DOMAIN wire : wire[i].what = "subscribe" /\ a \in wire[i].ids}

\* On a connection the broker hears user.auth first and once, and each asset once, after it
\* accepted the credentials.
OncePerConnection ==
  /\ wire # <<>> => wire[1] = Auth /\ \A i \in 2..Len(wire) : wire[i] # Auth
  /\ \A a \in Assets : Cardinality(Asked(a)) <= 1
  /\ (\E a \in Assets : Asked(a) # {}) => authed

\* Prices of everything registered flow on a ready connection, whenever the listeners
\* subscribed.
AllSubscribed ==
  state = "ready" /\ link = "up" => \A a \in registry : Asked(a) # {}

\* Every listener hears every change in the order it happened, whatever the owner called from
\* inside a delivery, and in the end knows the client's state.
CausalOrder ==
  /\ queue = <<>> => \A l \in DOMAIN seen : seen[l] = state
  /\ queue # <<>> /\ queue[1].kind = "state" => seen[queue[1].left[1]] = queue[1].from

\* A command is sent once, on its connection, and no answer it did not wait for passes for its own
\* but by an event of another client; prices and states reach every listener in order.
SocketSafe ==
  /\ SocketTypeOK /\ OwnAnswer /\ SentOnce /\ WaitsOnItsConnection /\ OncePerConnection
  /\ AllSubscribed /\ CausalOrder

=============================================================================
