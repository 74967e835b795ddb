---------------------------- MODULE SessionNotices ----------------------------
(***************************************************************************)
(* What one martingale session writes to its owner's chat: the backend's      *)
(* sender serves the cycle messages, the waiting message and the fallback     *)
(* summary, each claimed on the session's row before its Telegram call, and   *)
(* between its turns edits the waiting message's caption; the bot sends the   *)
(* card and claims the summary; the stop route hands the waiting message      *)
(* over.  A message's id is its place in the chat.  A text is the blocks it   *)
(* shows; whether it fits one message is a free choice, and one block fits.   *)
(* A cycle message that cannot be edited is one its owner deleted.            *)
(***************************************************************************)
EXTENDS Integers, Sequences, FiniteSets

CONSTANTS
  MaxResults,        \* bound: trades of the session
  MaxCards,         \* bound: session messages of the bot (a relaunch sends another)
  MaxFaults,        \* bound: refused and unknown calls, deletes of the user, crashes
  MaxWaits          \* bound: waiting messages in the chat when another wait begins

ASSUME NoticesAssumption == {MaxResults, MaxCards, MaxFaults, MaxWaits} \subseteq Nat

VARIABLES
  (* the session and its trades *)
  status, noSignal, \* noSignal: stopped by the no-signal limit
  trades,           \* the settled ones: "won" or "lost"
  intent,           \* "none", "queued" or "open"
  waits,            \* the latest decision is no_signal
  (* the notices' columns; 0 is NULL *)
  cursor,           \* notified_trades
  cycle, from,      \* the cycle message and its first trade
  mark,             \* open_notice_intent_id, by the trade's index
  waiting, slot,    \* the waiting message; NoSlot or the message it was claimed under
  card,             \* status_message_id
  closed,           \* final_notice_sent_at
  summary,          \* summary_sent_at: "no", or who closed the step
  (* the rest *)
  blocked,          \* the user blocked the bot
  graceOver,        \* the first message's hold has passed
  chat, sender, faults,
  told              \* (ghost) deliveries of each trade's result

session == <<status, noSignal, trades, intent, waits>>
columns == <<cursor, cycle, from, mark, waiting, slot, card, closed, summary>>
noticesVars == <<session, columns, blocked, graceOver, chat, sender, faults, told>>

NoSlot == -1
NoRow ==
  [notified |-> 0, settled |-> 0, open |-> 0, mark |-> 0, finished |-> FALSE, blocked |-> FALSE,
   status |-> "active", waiting |-> 0, due |-> FALSE, stale |-> FALSE, waits |-> FALSE,
   held |-> FALSE]

\* What the sender is at, its job, its row; the job's trade, message, claimed slot, first trade and
\* the trade of its stop button.
Idle ==
  [at |-> "idle", job |-> "none", row |-> NoRow, k |-> 0, target |-> 0, slot |-> 0, first |-> 0,
   open |-> 0]

NoticesInit ==
  /\ status = "active" /\ noSignal = FALSE /\ trades = <<>> /\ intent = "none" /\ waits = FALSE
  /\ cursor = 0 /\ cycle = 0 /\ from = 0 /\ mark = 0 /\ waiting = 0 /\ slot = NoSlot /\ card = 0
  /\ closed = FALSE /\ summary = "no" /\ blocked = FALSE /\ graceOver = FALSE
  /\ chat = <<>> /\ sender = Idle /\ faults = 0 /\ told = [k \in 1..MaxResults |-> 0]

-----------------------------------------------------------------------------
(* What the statements read                                                *)

Higher(a, b) == IF a > b THEN a ELSE b
Slot == Higher(cycle, card)
Calls == {"edit", "reread", "delete", "clear", "send", "release"}
Removals == {"stale", "caption"}    \* jobs that only take the waiting message away
OpenTrade == IF intent = "open" THEN Len(trades) + 1 ELSE 0
Finished == status = "stopped" /\ intent = "none"
Anchored == card # 0 \/ cursor > 0 \/ cycle # 0
Held == ~Anchored /\ ~graceOver

WaitingClaimable ==
  status = "active" /\ waiting = 0 /\ slot # Slot /\ Anchored /\ waits

WaitingStale ==
  waiting # 0 /\ (status = "stopped" \/ ((slot # Slot \/ ~waits) /\ ~blocked))

HasSummary == trades # <<>> \/ noSignal
SummaryClaimable == closed /\ summary = "no" /\ HasSummary

NoticeDue ==
  /\ ~closed
  /\ \/ Len(trades) > cursor \/ Finished \/ (OpenTrade # 0 /\ OpenTrade # mark)
     \/ (WaitingClaimable /\ ~blocked) \/ WaitingStale

\* A row of the list; the turn's memory.
Row ==
  [notified |-> cursor, settled |-> Len(trades), open |-> OpenTrade, mark |-> mark,
   finished |-> Finished, blocked |-> blocked, status |-> status, waiting |-> waiting,
   due |-> WaitingClaimable /\ ~blocked, stale |-> WaitingStale, waits |-> waits, held |-> Held]

-----------------------------------------------------------------------------
(* The trading side                                                        *)

Others == <<blocked, graceOver, chat, sender, faults, told>>

NewIntent ==
  /\ status = "active" /\ intent = "none" /\ Len(trades) < MaxResults
  /\ intent' = "queued" /\ waits' = FALSE
  /\ UNCHANGED <<status, noSignal, trades, columns, Others>>

\* The queued one opens or is rejected; the open one settles.
IntentMoves ==
  /\ \/ intent = "queued" /\ intent' \in {"open", "none"} /\ UNCHANGED trades
     \/ intent = "open" /\ intent' = "none" /\ \E r \in {"won", "lost"} : trades' = Append(trades, r)
  /\ UNCHANGED <<status, noSignal, waits, columns, Others>>

NoSignal ==
  /\ status = "active" /\ intent = "none" /\ ~waits /\ waits' = TRUE
  /\ Cardinality({m \in DOMAIN chat : chat[m].kind = "waiting"}) < MaxWaits
  /\ UNCHANGED <<status, noSignal, trades, intent, columns, Others>>

\* A limit, the orchestrator or another writer.
Stop ==
  /\ status = "active" /\ status' = "stopped" /\ noSignal' \in {FALSE, intent = "none" /\ waits}
  /\ UNCHANGED <<trades, intent, waits, columns, Others>>

-----------------------------------------------------------------------------
(* The bot and the owner                                                   *)

Message(kind) ==
  [kind |-> kind, live |-> TRUE, known |-> FALSE, stray |-> FALSE, first |-> 0, shown |-> 0,
   open |-> 0, handed |-> "no"]

Gone(m) == [chat EXCEPT ![m].live = FALSE]

\* A message the sender cannot or no longer tries to change keeps its button.
Left(m) == [chat EXCEPT ![m].stray = TRUE]

SendCard ==
  /\ Cardinality({m \in DOMAIN chat : chat[m].kind = "card"}) < MaxCards /\ status = "active"
  /\ chat' = Append(chat, Message("card"))
  /\ UNCHANGED <<session, columns, blocked, graceOver, sender, faults, told>>

\* recordSessionStatusMessage: the newest wins.
RecordCard ==
  /\ \E m \in DOMAIN chat : chat[m].kind = "card" /\ m > card /\ card' = m
  /\ UNCHANGED <<session, cursor, cycle, from, mark, waiting, slot, closed, summary, Others>>

\* The stop's CAS (or the clear of a second press) drops the pressed message when it is recorded.
HandedOver(m) ==
  IF waiting = m THEN waiting' = 0 /\ slot' = NoSlot ELSE UNCHANGED <<waiting, slot>>

\* A press of the waiting message's stop: the bot draws its reply in place.
Press ==
  \E m \in DOMAIN chat :
    /\ chat[m].kind = "waiting" /\ chat[m].live /\ chat[m].handed = "no"
    /\ status' = "stopped" /\ HandedOver(m)
    /\ chat' = [chat EXCEPT ![m].handed =
                  IF sender.at \in {"delete", "record"} /\ sender.target = m THEN "late" ELSE "yes"]
    /\ UNCHANGED <<noSignal, trades, intent, waits, cursor, cycle, from, mark, card, closed, summary,
                   blocked, graceOver, sender, faults, told>>

\* claimSessionSummary and the one message; the bot may die in between.
BotSummary ==
  /\ card # 0 /\ Finished /\ SummaryClaimable /\ summary' = "bot"
  /\ \/ chat' = Append(chat, Message("summary")) /\ UNCHANGED faults
     \/ UNCHANGED chat /\ faults < MaxFaults /\ faults' = faults + 1
  /\ UNCHANGED <<session, cursor, cycle, from, mark, waiting, slot, card, closed, blocked, graceOver,
                 sender, told>>

\* The owner deletes a message.
OwnerDeletes ==
  /\ faults < MaxFaults /\ faults' = faults + 1
  /\ \E m \in DOMAIN chat : /\ chat[m].kind \in {"cycle", "waiting"} /\ chat[m].live
                            /\ chat[m].handed = "no"
                            /\ chat' = [chat EXCEPT ![m].live = FALSE]
  /\ UNCHANGED <<session, columns, blocked, graceOver, sender, told>>

Unblock ==
  /\ blocked /\ blocked' = FALSE
  /\ UNCHANGED <<session, columns, graceOver, chat, sender, faults, told>>

GracePasses ==
  /\ ~graceOver /\ graceOver' = TRUE
  /\ UNCHANGED <<session, columns, blocked, chat, sender, faults, told>>

-----------------------------------------------------------------------------
(* The sender's turn                                                       *)

Quiet == <<session, blocked, graceOver, chat, faults, told>>

\* serve(): trades past the cursor, the stale waiting message, the open block, the close or the wait.
Task(row) ==
  IF row.notified < row.settled THEN "trade"
  ELSE IF row.stale /\ row.waiting # 0 THEN "stale"
  ELSE IF row.open # 0 /\ row.open # row.mark THEN "open"
  ELSE IF row.finished THEN "close"
  ELSE IF row.due /\ row.status = "active" /\ ~row.blocked THEN "waiting"
  ELSE "none"

Serving(row) == [Idle EXCEPT !.at = "serve", !.row = row]

\* A job of the row, with the message it is about.
Job(at, job, row, m) == [Idle EXCEPT !.at = at, !.job = job, !.row = row, !.target = m]

\* The step's block is done with: sent, dropped, of unknown fate or not deliverable.
Done(job, row) ==
  IF job = "trade" THEN Serving([row EXCEPT !.notified = @ + 1])
  ELSE IF job = "open" THEN Serving([row EXCEPT !.mark = row.open])
  ELSE IF job = "stale" THEN Serving([row EXCEPT !.stale = FALSE])
  ELSE Idle

List ==
  /\ sender = Idle /\ NoticeDue /\ sender' = Serving(Row)
  /\ UNCHANGED <<columns, Quiet>>

\* The turn ends: nothing to do, the list's hint of the hold, a chat that cools, a pause, a stop.
EndTurn ==
  /\ sender.at = "serve" /\ sender' = Idle
  /\ UNCHANGED <<columns, Quiet>>

\* The first trade of the cycle that trade k of the session belongs to.
CycleStart(k) ==
  LET won == {j \in 1..(k - 1) : trades[j] = "won"}
  IN IF won = {} THEN 1 ELSE 1 + (CHOOSE j \in won : \A i \in won : i <= j)

ShowsCycle(k) == cycle # 0 /\ from <= k /\ CycleStart(from) = CycleStart(k)

\* Before a new message the waiting message goes.
BeforeSend(s) ==
  IF s.row.waiting # 0 THEN [s EXCEPT !.at = "reread", !.target = s.row.waiting]
  ELSE [s EXCEPT !.at = "send"]

\* sessionCycleMessage(): the first trade of the message that shows block k; a text past the limit
\* begins with the block itself (splitFromClaimed).
Begins(k) == {IF ShowsCycle(k) THEN from ELSE CycleStart(k), k}

Splits(k, first) == ShowsCycle(k) /\ first # from

\* deliver() of a claimed block: an edit of the cycle message or a new one; the stop button of an open
\* block is decided here, by the row's status.
Notice(job, k, first, row) ==
  IF row.blocked THEN Done(job, row)
  ELSE LET s == [Job("edit", job, row, cycle) EXCEPT !.k = k, !.first = first,
                   !.open = IF job = "open" /\ row.status = "active" THEN k ELSE 0]
       IN IF ShowsCycle(k) /\ ~Splits(k, first) THEN s ELSE BeforeSend(s)

\* The cycle message after the claim: nothing more is done with one that is full, or when its user
\* blocked the bot.
AfterClaim(k, first, row) ==
  IF cycle # 0 /\ (row.blocked \/ Splits(k, first)) THEN Left(cycle) ELSE chat

ClaimTrade ==
  /\ sender.at = "serve" /\ Task(sender.row) = "trade" /\ ~sender.row.held
  /\ LET row == sender.row
         k == row.notified + 1
     IN IF cursor = row.notified /\ ~closed /\ Len(trades) >= k /\ ~Held
        THEN \E first \in Begins(k) :
               cursor' = k /\ sender' = Notice("trade", k, first, row) /\ chat' = AfterClaim(k, first, row)
        ELSE sender' = Idle /\ UNCHANGED <<cursor, chat>>
  /\ UNCHANGED <<cycle, from, mark, waiting, slot, card, closed, summary, session, blocked, graceOver,
                 faults, told>>

ClaimOpen ==
  /\ sender.at = "serve" /\ Task(sender.row) = "open" /\ ~sender.row.held
  /\ LET row == sender.row
         k == row.open
     IN IF /\ mark # k /\ ~closed /\ cursor = row.settled /\ Len(trades) = row.settled
           /\ OpenTrade = k /\ ~Held
        THEN \E first \in Begins(k) :
               mark' = k /\ sender' = Notice("open", k, first, row) /\ chat' = AfterClaim(k, first, row)
        ELSE sender' = Idle /\ UNCHANGED <<mark, chat>>
  /\ UNCHANGED <<cursor, cycle, from, waiting, slot, card, closed, summary, session, blocked, graceOver,
                 faults, told>>

ClaimWaiting ==
  /\ sender.at = "serve" /\ Task(sender.row) = "waiting"
  /\ IF WaitingClaimable /\ ~closed
     THEN /\ slot' = Slot
          /\ sender' = [Job("send", "waiting", sender.row, 0) EXCEPT !.slot = Slot]
     ELSE sender' = Idle /\ UNCHANGED slot
  /\ UNCHANGED <<cursor, cycle, from, mark, waiting, card, closed, summary, Quiet>>

StaleWaiting ==
  /\ sender.at = "serve" /\ Task(sender.row) = "stale"
  /\ sender' = Job("reread", "stale", sender.row, sender.row.waiting)
  /\ UNCHANGED <<columns, Quiet>>

MayClose == ~closed /\ Finished /\ cursor = Len(trades) /\ waiting = 0

Close ==
  /\ sender.at = "serve" /\ Task(sender.row) = "close"
  /\ IF MayClose
     THEN /\ closed' = TRUE
          /\ summary' = IF sender.row.blocked \/ (sender.row.settled = 0 /\ ~noSignal) THEN "nothing"
                        ELSE summary
     ELSE UNCHANGED <<closed, summary>>
  /\ sender' = Idle
  /\ UNCHANGED <<cursor, cycle, from, mark, waiting, slot, card, Quiet>>

\* The fallback, once its grace is over or there is no card.
ClaimFallback ==
  /\ sender = Idle /\ SummaryClaimable /\ summary' = "text"
  /\ sender' = IF blocked THEN Idle ELSE Job("send", "summary", Row, 0)
  /\ UNCHANGED <<cursor, cycle, from, mark, waiting, slot, card, closed, Quiet>>

-----------------------------------------------------------------------------
(* The caption pass and the waiting message's delete                       *)

\* listSessionWaitingCaptions(): a live waiting message on its slot; serial with the turns.
ListCaption ==
  /\ sender = Idle /\ status = "active" /\ waiting # 0 /\ slot = Slot /\ waits /\ ~blocked
  /\ sender' = Job("page", "caption", [NoRow EXCEPT !.waiting = waiting, !.waits = TRUE], waiting)
  /\ UNCHANGED <<columns, Quiet>>

\* With the waiting message cleared the turn goes on.
AfterRemoval(row) ==
  IF sender.job \in Removals \/ row.blocked THEN Done(sender.job, row)
  ELSE [sender EXCEPT !.at = "send", !.row = row]

TakenOver == waiting # sender.target

\* The id is re-read before the edit too; a wake, a pause or a stop ends the pass.
ReReadCaption ==
  /\ sender.at = "page"
  /\ \/ sender' = Idle
     \/ ~TakenOver /\ sender' = [sender EXCEPT !.at = "caption"]
  /\ UNCHANGED <<columns, Quiet>>

\* editCaption(): what it draws is left out.  A message that is gone is removed, and so is one that is
\* too old or a text; another refusal and an unknown outcome are left, a 403 marks the user.
EditCaption ==
  /\ sender.at = "caption"
  /\ \/ chat[sender.target].live /\ sender' = Idle /\ UNCHANGED <<faults, blocked>>
     \/ ~chat[sender.target].live /\ sender' = [sender EXCEPT !.at = "reread"]
        /\ UNCHANGED <<faults, blocked>>
     \/ /\ faults < MaxFaults /\ faults' = faults + 1
        /\ \/ sender' \in {Idle, [sender EXCEPT !.at = "reread"]} /\ UNCHANGED blocked
           \/ sender' = Idle /\ blocked' = TRUE
  /\ UNCHANGED <<session, columns, graceOver, chat, told>>

\* readSessionWaitingMessage(): another id is not deleted; nothing is called for a blocked user.
ReRead ==
  /\ sender.at = "reread"
  /\ sender' = IF sender.row.blocked
               THEN (IF sender.row.status = "stopped" THEN [sender EXCEPT !.at = "clear"]
                     ELSE Done(sender.job, sender.row))
               ELSE IF TakenOver
               THEN AfterRemoval([sender.row EXCEPT !.waiting = 0, !.status = status])
               ELSE [sender EXCEPT !.at = "delete"]
  /\ chat' = IF sender.row.blocked THEN Left(sender.target) ELSE chat
  /\ UNCHANGED <<columns, session, blocked, graceOver, faults, told>>

\* Nothing was sent: the block goes back and the turn ends.
PutBack == IF sender.job \in Removals THEN Idle ELSE [sender EXCEPT !.at = "release"]

Delete ==
  /\ sender.at = "delete"
  /\ LET m == sender.target
     IN \/ /\ chat' = Gone(m) /\ sender' = [sender EXCEPT !.at = "clear"] /\ UNCHANGED <<faults, blocked>>
        \/ /\ faults < MaxFaults /\ faults' = faults + 1
           /\ \/ chat' \in {Gone(m), chat} /\ sender' = PutBack /\ UNCHANGED blocked
              \/ chat' = Left(m) /\ sender' = [sender EXCEPT !.at = "clear"] /\ UNCHANGED blocked
              \/ /\ blocked' = TRUE
                 /\ IF sender.row.status = "stopped"
                    THEN /\ chat' = Left(m)
                         /\ sender' = [sender EXCEPT !.at = "clear", !.row.blocked = TRUE]
                    ELSE /\ sender' = Done(sender.job, [sender.row EXCEPT !.blocked = TRUE])
                         /\ UNCHANGED chat
  /\ UNCHANGED <<session, columns, graceOver, told>>

\* clearSessionWaitingMessage(): a CAS on the id.
Clear ==
  /\ sender.at = "clear" /\ HandedOver(sender.target)
  /\ sender' = AfterRemoval([sender.row EXCEPT !.waiting = 0, !.due = sender.row.waits])
  /\ UNCHANGED <<cursor, cycle, from, mark, card, closed, summary, Quiet>>

-----------------------------------------------------------------------------
(* The sends                                                               *)

\* The message as the claimed block has it.
Written(s) ==
  [Message(IF s.job \in {"trade", "open"} THEN "cycle" ELSE s.job) EXCEPT
     !.first = s.first, !.shown = IF s.job = "trade" THEN s.k ELSE s.row.settled, !.open = s.open]

Tell(s) == told' = IF s.job = "trade" THEN [told EXCEPT ![s.k] = @ + 1] ELSE told

\* A claimed block that is not tried again leaves the cycle message as it is.
Undone == IF sender.at \in Calls /\ sender.job \in {"trade", "open"} /\ cycle # 0 THEN Left(cycle) ELSE chat

\* The outcomes of a call that did not deliver: put back (429, a refusal), left as sent (the
\* refusals' last attempt, the transport) or the user is unreachable.
Refused ==
  /\ faults < MaxFaults /\ faults' = faults + 1 /\ UNCHANGED told
  /\ \/ sender' = [sender EXCEPT !.at = "release"] /\ UNCHANGED <<blocked, chat>>
     \/ sender' = Done(sender.job, sender.row) /\ chat' = Undone /\ UNCHANGED blocked
     \/ /\ blocked' = TRUE /\ chat' = Undone
        /\ sender' = IF sender.job = "waiting" THEN [sender EXCEPT !.at = "release"]
                     ELSE Done(sender.job, [sender.row EXCEPT !.blocked = TRUE])

\* Mutant: a send of unknown outcome is put back.
AfterUnknown_Release == [sender EXCEPT !.at = "release"]

AfterUnknown == Done(sender.job, sender.row)

Send ==
  /\ sender.at = "send"
  /\ \/ /\ chat' = Append(chat, Written(sender)) /\ Tell(sender)
        /\ \/ /\ sender' = IF sender.job = "summary" THEN Idle
                           ELSE [sender EXCEPT !.at = "record", !.target = Len(chat) + 1]
              /\ UNCHANGED faults
           \/ faults < MaxFaults /\ faults' = faults + 1 /\ sender' = AfterUnknown
        /\ UNCHANGED blocked
     \/ Refused
  /\ UNCHANGED <<session, columns, graceOver>>

\* An edit keeps the message's first block; a message that is gone is sent anew.
Edit ==
  /\ sender.at = "edit"
  /\ LET new == Written(sender)
         m == sender.target
     IN \/ /\ chat[m].live
           /\ chat' = [chat EXCEPT ![m].shown = new.shown, ![m].open = new.open, ![m].stray = FALSE]
           /\ Tell(sender)
           /\ \/ UNCHANGED faults
              \/ faults < MaxFaults /\ faults' = faults + 1     \* the answer is lost
           /\ sender' = Done(sender.job, sender.row) /\ UNCHANGED blocked
        \/ /\ ~chat[m].live /\ sender' = BeforeSend(sender)
           /\ UNCHANGED <<chat, told, faults, blocked>>
        \/ Refused
  /\ UNCHANGED <<session, columns, graceOver>>

\* The record's CAS; a refused waiting message is deleted by its own sender.
Record ==
  /\ sender.at = "record"
  /\ LET m == sender.target
     IN \/ /\ sender.job \in {"trade", "open"}
           /\ cursor = sender.row.notified + (IF sender.job = "trade" THEN 1 ELSE 0) /\ ~closed
           /\ (sender.job = "open" => mark = sender.k)
           /\ cycle' = m /\ from' = sender.first /\ chat' = [chat EXCEPT ![m].known = TRUE]
           /\ sender' = Done(sender.job, [sender.row EXCEPT !.due = IF sender.row.waiting = 0
                                                                   THEN sender.row.waits ELSE @])
           /\ UNCHANGED waiting
        \/ /\ sender.job = "waiting" /\ slot = sender.slot /\ waiting = 0 /\ status = "active"
           /\ waiting' = m /\ chat' = [chat EXCEPT ![m].known = TRUE] /\ sender' = Idle
           /\ UNCHANGED <<cycle, from>>
        \/ /\ sender.job = "waiting" /\ ~(slot = sender.slot /\ waiting = 0 /\ status = "active")
           /\ chat' \in {chat, Gone(m)} /\ sender' = Idle
           /\ UNCHANGED <<cycle, from, waiting>>
  /\ UNCHANGED <<session, cursor, mark, slot, card, closed, summary, blocked, graceOver, faults, told>>

\* Each claim is taken back by its own CAS.
Release ==
  /\ sender.at = "release" /\ sender' = Idle
  /\ cursor' = IF sender.job = "trade" /\ cursor = sender.k /\ ~closed THEN sender.k - 1 ELSE cursor
  /\ mark' = IF sender.job = "open" /\ mark = sender.k THEN 0 ELSE mark
  /\ slot' = IF sender.job = "waiting" /\ slot = sender.slot /\ waiting = 0 THEN NoSlot ELSE slot
  /\ summary' = IF sender.job = "summary" THEN "no" ELSE summary
  /\ UNCHANGED <<cycle, from, waiting, card, closed, Quiet>>

\* A restart, or a statement that throws.
Crash ==
  /\ sender # Idle /\ faults < MaxFaults /\ faults' = faults + 1 /\ sender' = Idle /\ chat' = Undone
  /\ UNCHANGED <<session, columns, blocked, graceOver, told>>

Turn ==
  \/ List \/ EndTurn \/ ClaimTrade \/ ClaimOpen \/ ClaimWaiting \/ StaleWaiting \/ Close
  \/ ListCaption \/ ReReadCaption \/ EditCaption
  \/ ReRead \/ Delete \/ Clear \/ Send \/ Edit \/ Record \/ Release

NoticesNext ==
  \/ NewIntent \/ IntentMoves \/ NoSignal \/ Stop
  \/ SendCard \/ RecordCard \/ Press \/ BotSummary \/ OwnerDeletes \/ Unblock \/ GracePasses
  \/ Turn \/ ClaimFallback \/ Crash

NoticesSpec == NoticesInit /\ [][NoticesNext]_noticesVars

-----------------------------------------------------------------------------
MessageType ==
  [kind : {"card", "cycle", "waiting", "summary"}, live : BOOLEAN, known : BOOLEAN, stray : BOOLEAN,
   first : Nat, shown : Nat, open : Nat, handed : {"no", "yes", "late"}]

RowType ==
  [notified : Nat, settled : Nat, open : Nat, mark : Nat, finished : BOOLEAN, blocked : BOOLEAN,
   status : {"active", "stopped"}, waiting : Nat, due : BOOLEAN, stale : BOOLEAN, waits : BOOLEAN,
   held : BOOLEAN]

SenderType ==
  [at : {"idle", "serve", "page", "caption", "record"} \cup Calls, row : RowType, k : Nat,
   job : {"none", "trade", "open", "waiting", "summary"} \cup Removals, target : Nat, slot : Nat,
   first : Nat, open : Nat]

SessionTypes ==
  /\ status \in {"active", "stopped"} /\ intent \in {"none", "queued", "open"}
  /\ trades \in Seq({"won", "lost"}) /\ Len(trades) <= MaxResults
  /\ noSignal \in BOOLEAN /\ waits \in BOOLEAN /\ blocked \in BOOLEAN /\ graceOver \in BOOLEAN
  /\ faults \in Nat

ChatTypes ==
  /\ chat \in Seq(MessageType) /\ sender \in SenderType /\ told \in [1..MaxResults -> Nat]

\* The columns name messages of the chat and trades of the session.
ColumnTypes ==
  /\ cursor \in 0..Len(trades) /\ mark \in 0..(Len(trades) + 1)
  /\ cycle \in 0..Len(chat) /\ waiting \in 0..Len(chat) /\ card \in 0..Len(chat)
  /\ from \in Nat /\ (cycle = 0 <=> from = 0)
  /\ slot \in Nat \cup {NoSlot} /\ (waiting # 0 => slot # NoSlot /\ chat[waiting].kind = "waiting")
  /\ closed \in BOOLEAN /\ summary \in {"no", "bot", "text", "nothing"}

NoticesTypeOK == SessionTypes /\ ChatTypes /\ ColumnTypes

\* A trade's result is delivered at most once as its own step (session-notices.ts:79).
ToldOnce == \A k \in DOMAIN told : told[k] <= 1

\* Two recorded cycle messages in the chat never show the same trade.
NoRepeatedBlock ==
  \A m, n \in DOMAIN chat :
    m < n /\ chat[m].kind = "cycle" /\ chat[n].kind = "cycle" /\ chat[m].live /\ chat[n].live
          /\ chat[m].known /\ chat[n].known => chat[m].shown < chat[n].first

\* Of the waiting message and the open block, each with a stop button, at most one stands in the
\* chat at a time (session-notices.ts:83), but for messages of unknown fate or given up: a full one,
\* which stays as it is (docs/bot-session.md:1003), is given up.
Buttons ==
  {m \in DOMAIN chat : chat[m].live /\ chat[m].known /\ ~chat[m].stray /\ chat[m].handed = "no"
     /\ (chat[m].kind = "waiting" \/ chat[m].open # 0)}

OneStopButton == Cardinality(Buttons) <= 1

\* Under a closed session no recorded waiting message stays, every trade was claimed, and nothing
\* follows the one summary (session-notice-ops.ts, claimSessionFinalNotice).
SummaryIsLast ==
  /\ closed => cursor = Len(trades) /\ ~\E m \in Buttons : chat[m].kind = "waiting"
  /\ \A m \in DOMAIN chat : chat[m].kind = "summary" =>
       \A n \in DOMAIN chat : n > m => chat[n].kind = "card"

\* The message the bot draws its reply in is not deleted, but by a call already under way or a
\* message not recorded yet (docs/bot-session.md, risk 82).
ReplyStays == \A m \in DOMAIN chat : chat[m].handed = "yes" => chat[m].live

\* What the messages of a session are to its owner, however the sender, the bot, the stop route and
\* the owner interleave.
NoticesSafe ==
  /\ NoticesTypeOK /\ ToldOnce /\ NoRepeatedBlock /\ OneStopButton /\ SummaryIsLast /\ ReplyStays

=============================================================================
