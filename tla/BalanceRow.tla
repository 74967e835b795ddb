----------------------------- MODULE BalanceRow -----------------------------
(***************************************************************************)
(* One mode's amounts in broker_balance_snapshots and their four writers:  *)
(* the session's user.data, its update_balance, the backend's refresh and  *)
(* the worker's check.  An amount is the broker's version of it.  Session  *)
(* events wait in the account's write queue; a REST answer is written some *)
(* time after the broker gave it.  A trade closes and is settled meanwhile.*)
(***************************************************************************)
EXTENDS Naturals, Sequences

CONSTANTS
  MaxChanges,   \* bound: changes of the amounts at the broker, the trade's close among them
  MaxLinks,     \* bound: connections of the session
  MaxFaults     \* bound: failed GETs and writes

RowAssumption == MaxChanges \in Nat \ {0} /\ MaxLinks \in Nat /\ MaxFaults \in Nat

VARIABLES
  at,         \* the broker's version
  rowTrade,   \* "open", "closed" at the broker, "settled" in our tables
  close,      \* the version the close left, 0 before it
  linked,     \* the session's connection is up and has proven its user
  links,
  queue,      \* what the session heard and has not written
  row,        \* the snapshot
  flight,     \* the backend's one refresh of the account
  rowCheck,   \* the worker's check
  rowFaults

rowVars == <<at, rowTrade, close, linked, links, queue, row, flight, rowCheck, rowFaults>>

Writers == {"user_data", "update_balance", "refresh", "check"}
NoRow == [exists |-> FALSE, ver |-> 0, writer |-> "refresh", current |-> FALSE]
NoAsk == [step |-> "idle", ver |-> 0]
NoRowCheck == [step |-> "idle", ver |-> 0, event |-> FALSE]

RowInit ==
  /\ at = 1
  /\ rowTrade = "open" /\ close = 0
  /\ linked = FALSE /\ links = 0
  /\ queue = <<>>
  /\ row = NoRow
  /\ flight = NoAsk
  /\ rowCheck = NoRowCheck
  /\ rowFaults = 0

-----------------------------------------------------------------------------
(* The broker and the session's connection *)

Heard(events) == IF linked THEN queue \o events ELSE queue

Changes ==
  /\ at < MaxChanges
  /\ at' = at + 1
  /\ queue' = Heard(<<[kind |-> "update_balance", ver |-> at + 1]>>)
  /\ UNCHANGED <<rowTrade, close, linked, links, row, flight, rowCheck, rowFaults>>

\* the two events of a close come in either order
RowCloses ==
  /\ rowTrade = "open" /\ at < MaxChanges
  /\ rowTrade' = "closed" /\ at' = at + 1 /\ close' = at + 1
  /\ LET balance == [kind |-> "update_balance", ver |-> at + 1]
         closed == [kind |-> "close_trade", ver |-> at + 1]
     IN queue' = Heard(<<balance, closed>>) \/ queue' = Heard(<<closed, balance>>)
  /\ UNCHANGED <<linked, links, row, flight, rowCheck, rowFaults>>

\* a new connection begins with user.data
Link ==
  /\ ~linked /\ links < MaxLinks
  /\ linked' = TRUE /\ links' = links + 1
  /\ queue' = Append(queue, [kind |-> "user_data", ver |-> at])
  /\ UNCHANGED <<at, rowTrade, close, row, flight, rowCheck, rowFaults>>

\* what the broker sent and the worker has not received is lost
Unlink ==
  /\ linked
  /\ linked' = FALSE
  /\ \E n \in 0..Len(queue) : queue' = SubSeq(queue, 1, n)
  /\ UNCHANGED <<at, rowTrade, close, links, row, flight, rowCheck, rowFaults>>

-----------------------------------------------------------------------------
(* The writes *)

Written(ver, writer) == [exists |-> TRUE, ver |-> ver, writer |-> writer, current |-> TRUE]

Settled == [row EXCEPT !.current = FALSE]

\* the head of the write queue: upsertBalanceSnapshot, applyBalanceEvent or settleClosedTrades
WriteHead ==
  /\ queue # <<>>
  /\ queue' = Tail(queue)
  /\ LET event == Head(queue) IN
     IF event.kind = "close_trade"
       THEN /\ row' = IF rowTrade = "closed" THEN Settled ELSE row
            /\ rowTrade' = "settled"
            /\ UNCHANGED rowCheck
       ELSE /\ row' = IF row.exists \/ event.kind = "user_data"
                        THEN Written(event.ver, event.kind) ELSE row
            /\ rowCheck' = [rowCheck EXCEPT !.event = row.exists \/ event.kind = "user_data"]
            /\ UNCHANGED rowTrade
  /\ UNCHANGED <<at, close, linked, links, flight, rowFaults>>

\* the statement throws; the event goes to the dead letters
WriteFails ==
  /\ queue # <<>> /\ rowFaults < MaxFaults
  /\ queue' = Tail(queue)
  /\ rowFaults' = rowFaults + 1
  /\ UNCHANGED <<at, rowTrade, close, linked, links, row, flight, rowCheck>>

\* the settlement catch-up reads the closed list after its grace (10 s), longer than a GET (5 s) or
\* the wait in the queue
CatchUp ==
  /\ rowTrade = "closed"
  /\ flight.step = "answered" => flight.ver >= close
  /\ rowCheck.step = "answered" => rowCheck.ver >= close
  /\ \A n \in DOMAIN queue : queue[n].ver >= close
  /\ rowTrade' = "settled"
  /\ row' = Settled
  /\ UNCHANGED <<at, close, linked, links, queue, flight, rowCheck, rowFaults>>

\* one flight an account; a caller that joins gets its outcome
RefreshAsks ==
  /\ flight.step = "idle"
  /\ flight' = [step |-> "answered", ver |-> at]
  /\ UNCHANGED <<at, rowTrade, close, linked, links, queue, row, rowCheck, rowFaults>>

\* the refresh passes no eventsAfter: the last write wins
RefreshRow == Written(flight.ver, "refresh")

RefreshWrites ==
  /\ flight.step = "answered"
  /\ row' = RefreshRow
  /\ flight' = NoAsk
  /\ UNCHANGED <<at, rowTrade, close, linked, links, queue, rowCheck, rowFaults>>

\* a failure leaves the amounts
RefreshFails ==
  /\ flight.step = "answered" /\ rowFaults < MaxFaults
  /\ flight' = NoAsk
  /\ rowFaults' = rowFaults + 1
  /\ UNCHANGED <<at, rowTrade, close, linked, links, queue, row, rowCheck>>

\* readHeldExposure: the database clock of the first read
CheckReads ==
  /\ rowCheck.step = "idle"
  /\ rowCheck' = [rowCheck EXCEPT !.step = "read", !.event = FALSE]
  /\ UNCHANGED <<at, rowTrade, close, linked, links, queue, row, flight, rowFaults>>

CheckAsks ==
  /\ rowCheck.step = "read"
  /\ rowCheck' = [rowCheck EXCEPT !.step = "answered", !.ver = at]
  /\ UNCHANGED <<at, rowTrade, close, linked, links, queue, row, flight, rowFaults>>

\* Mutant: the check's answer, too, is the last write
CheckRow_Last == Written(rowCheck.ver, "check")

\* an event since the first read keeps the mode's amounts; the observation moves all the same
CheckRow == IF row.exists /\ rowCheck.event THEN [row EXCEPT !.current = TRUE]
            ELSE Written(rowCheck.ver, "check")

CheckWrites ==
  /\ rowCheck.step = "answered"
  /\ row' = CheckRow
  /\ rowCheck' = NoRowCheck
  /\ UNCHANGED <<at, rowTrade, close, linked, links, queue, flight, rowFaults>>

\* the token, the GET, the deadline
CheckEnds ==
  /\ rowCheck.step \in {"read", "answered"} /\ rowFaults < MaxFaults
  /\ rowCheck' = NoRowCheck
  /\ rowFaults' = rowFaults + 1
  /\ UNCHANGED <<at, rowTrade, close, linked, links, queue, row, flight>>

RowNext ==
  \/ Changes \/ RowCloses \/ Link \/ Unlink
  \/ WriteHead \/ WriteFails \/ CatchUp
  \/ RefreshAsks \/ RefreshWrites \/ RefreshFails
  \/ CheckReads \/ CheckAsks \/ CheckWrites \/ CheckEnds

RowSpec == RowInit /\ [][RowNext]_rowVars
-----------------------------------------------------------------------------
(* Properties *)

RowTypeOK ==
  /\ at \in 1..MaxChanges /\ close \in 0..at
  /\ row.exists \/ row = NoRow
  /\ row.ver \in 0..at /\ row.writer \in Writers
  /\ flight.ver \in 0..at /\ rowCheck.ver \in 0..at

\* The check never puts an older answer over what a socket event wrote.
CheckKeepsEvents ==
  [][(rowCheck.step = "answered" /\ rowCheck'.step = "idle" /\ row.writer \in {"user_data", "update_balance"})
       => row'.ver >= row.ver]_rowVars

\* The balance row stays well formed and the check never puts an older answer over an event
\* (balance-snapshot-ops.ts:105).
RowSafe == []RowTypeOK /\ CheckKeepsEvents

=============================================================================
