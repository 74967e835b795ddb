--------------------------- MODULE SessionTracker ---------------------------
(***************************************************************************)
(* The bot's message of one trading session (apps/bot/src/session-         *)
(* tracker.ts, session-resume.ts) and the two backend columns it rests on: *)
(* the recorded message (status_message_id) and the claim of the summary   *)
(* (summary_sent_at).  The tracker lives in the memory of the process: it  *)
(* polls the session, redraws the message when its drawing changed, and    *)
(* claims the summary once the end is on screen.  After a restart the      *)
(* resumer tracks again, on the recorded message, what the backend lists.  *)
(*                                                                         *)
(* A drawing is the picture of a running session ("up", "down": the        *)
(* direction of the signal) or the text of a stopped one ("end").  The     *)
(* session is one, of one user, and is never missing.                      *)
(***************************************************************************)
EXTENDS Naturals, FiniteSets

CONSTANTS
    Slots,         \* entries held at once: the tracked one and replaced ones with an attempt in flight
    MaxMessages,   \* bound: session messages sent
    MaxTurns,      \* bound: turns of the direction
    MaxFaults,     \* bound: failed calls
    MaxRestarts    \* bound: crashes and stops of the bot

\* What the instances assume.
TrackerAssumption ==
    /\ Slots # {} /\ 0 \notin Slots
    /\ {MaxMessages, MaxTurns, MaxFaults, MaxRestarts} \subseteq Nat

VARIABLES
    stage,      \* the session: running "up" or "down", "stopped", "done" (its notices closed)
    recorded,   \* status_message_id, 0 for none
    summary,    \* who claimed the summary: "open", "bot", "fallback"
    sent,       \* session messages sent; a message is its number, as ids grow in a chat
    screen,     \* what each message shows
    gone,       \* messages Telegram will refuse to edit for good
    bot,        \* the process: "up", "stopping", "down"
    slots,      \* the tracker's entries
    cur,        \* the entry the map holds, 0 for none
    drawn,      \* what an ended entry last drew, and on which message
    expired,    \* SESSION_TRACK_DEADLINE_MS since the session's start has passed
    press,      \* the handler of a press: the view it was answered, "none" for no press
    pass,       \* the resumer's pass: the message it was listed, 0 for no pass
    late,       \* records whose call timed out and may still be applied
    faults,
    restarts,
    turns,
    saved,      \* ghost: messages the backend once recorded
    under       \* ghost: the message under which the bot claimed the summary

botVars == <<bot, slots, cur, drawn, press, pass>>
backVars == <<stage, recorded, summary, expired, late, saved>>
chatVars == <<sent, screen, gone>>
counters == <<faults, restarts, turns>>
vars == <<botVars, backVars, chatVars, counters, under>>

Messages == 1..MaxMessages
Stages == {"up", "down", "stopped", "done"}
Drawings == {"up", "down", "end"}

\* finalOf: what the message shows of a view
Key(view) == IF view \in {"stopped", "done"} THEN "end" ELSE view

NoDraw == [msg |-> 0, rendered |-> "none"]
Free == [msg |-> 0, view |-> "none", rendered |-> "none", record |-> FALSE,
         at |-> "free", seen |-> "none", last |-> FALSE]

TrackerTypeOK ==
    /\ stage \in Stages
    /\ recorded \in 0..MaxMessages
    /\ summary \in {"open", "bot", "fallback"}
    /\ sent \in 0..MaxMessages
    /\ screen \in [Messages -> Drawings \cup {"none"}]
    /\ gone \subseteq Messages /\ late \subseteq Messages /\ saved \subseteq Messages
    /\ bot \in {"up", "stopping", "down"}
    /\ slots \in [Slots ->
          [msg : 0..MaxMessages, view : Stages \cup {"none"},
           rendered : Drawings \cup {"none"}, record : BOOLEAN,
           at : {"free", "timer", "asked", "answered", "editing", "landed", "lost", "claiming"},
           seen : Stages \cup {"none"}, last : BOOLEAN]]
    /\ cur \in Slots \cup {0}
    /\ drawn \in [msg : 0..MaxMessages, rendered : Drawings \cup {"none"}]
    /\ expired \in BOOLEAN
    /\ press \in {"up", "down", "none"}
    /\ pass \in 0..MaxMessages
    /\ faults \in 0..MaxFaults /\ restarts \in 0..MaxRestarts /\ turns \in 0..MaxTurns
    /\ under \in 0..MaxMessages

Init ==
    /\ stage = "up" /\ recorded = 0 /\ summary = "open"
    /\ sent = 0 /\ screen = [m \in Messages |-> "none"] /\ gone = {}
    /\ bot = "up" /\ slots = [s \in Slots |-> Free] /\ cur = 0 /\ drawn = NoDraw
    /\ expired = FALSE /\ press = "none" /\ pass = 0 /\ late = {}
    /\ faults = 0 /\ restarts = 0 /\ turns = 0 /\ saved = {} /\ under = 0

Fault == faults < MaxFaults /\ faults' = faults + 1 /\ UNCHANGED <<restarts, turns>>

-----------------------------------------------------------------------------
(* The entry of an attempt                                                  *)

\* An entry that drew nothing and remembers nothing edits only a stopped session
MayDraw(e) == e.rendered # "none" \/ Key(e.view) = "end"

ToDraw(e) == Key(e.view) # e.rendered /\ MayDraw(e)

SummaryDue(e) == e.view = "done" /\ e.rendered = Key(e.view)

Put(s, e) == slots' = [slots EXCEPT ![s] = e]

\* The entry ends: out of the map and remembered, unless it was replaced
Finish(s, e, remember) ==
    /\ Put(s, Free)
    /\ cur' = IF cur = s THEN 0 ELSE cur
    /\ drawn' = IF cur = s /\ remember /\ e.rendered # "none"
                THEN [msg |-> e.msg, rendered |-> e.rendered] ELSE drawn

Keep(s, e) == Put(s, e) /\ UNCHANGED <<cur, drawn>>

ClaimOrFinish(s, e) ==
    \/ SummaryDue(e) /\ Keep(s, [e EXCEPT !.at = "claiming"])
    \/ ~SummaryDue(e) /\ Finish(s, e, TRUE)

\* Re-arm; past the deadline one last edit of a view not on screen, and the end
NextPoll(s, e) ==
    \/ cur # s /\ Keep(s, Free)
    \/ cur = s /\ (bot # "up" \/ ~expired) /\ Keep(s, [e EXCEPT !.at = "timer"])
    \/ /\ cur = s /\ bot = "up" /\ expired
       /\ \/ e.view = "none" /\ Finish(s, e, TRUE)
          \/ /\ e.view # "none" /\ ToDraw(e)
             /\ Keep(s, [e EXCEPT !.at = "editing", !.last = TRUE])
          \/ e.view # "none" /\ ~ToDraw(e) /\ ClaimOrFinish(s, e)

\* After the poll's own edit, or without one
Settle(s, e) ==
    \/ SummaryDue(e) /\ Keep(s, [e EXCEPT !.at = "claiming"])
    \/ ~SummaryDue(e) /\ NextPoll(s, e)

AfterEdit(s, e) ==
    IF e.last THEN ClaimOrFinish(s, e) ELSE Settle(s, e)

-----------------------------------------------------------------------------
(* One attempt: the read or the record, the edit, the claim                 *)

Poll(s) ==
    /\ bot = "up" /\ slots[s].at = "timer"
    /\ Keep(s, [slots[s] EXCEPT !.at = "asked"])
    /\ UNCHANGED <<bot, press, pass, backVars, chatVars, counters, under>>

\* Mutant: the record takes any id, an older one too
Record_Any(m) == recorded' = m

\* recordSessionStatusMessage: while none is recorded or the recorded one is older
Record(m) == recorded' = IF recorded < m THEN m ELSE recorded

\* The backend answers; the first poll of a press records its message
Answers(s) ==
    LET e == slots[s] IN
    /\ e.at = "asked"
    /\ Keep(s, [e EXCEPT !.at = "answered", !.seen = stage])
    /\ IF e.record THEN Record(e.msg) ELSE UNCHANGED recorded
    /\ saved' = IF recorded' = e.msg THEN saved \cup {e.msg} ELSE saved
    /\ UNCHANGED <<bot, press, pass, stage, summary, expired, late, chatVars, counters, under>>

\* The call failed: lost before the backend, after it, or applied later
ReadFails(s) ==
    LET e == slots[s] IN
    /\ e.at \in {"asked", "answered"} /\ Fault
    /\ \/ UNCHANGED late
       \/ e.at = "asked" /\ e.record /\ late' = late \cup {e.msg}
    /\ NextPoll(s, [e EXCEPT !.seen = "none"])
    /\ UNCHANGED <<bot, press, pass, stage, recorded, summary, expired, saved, chatVars, under>>

LateRecord(m) ==
    /\ m \in late /\ late' = late \ {m}
    /\ Record(m)
    /\ saved' = IF recorded' = m THEN saved \cup {m} ELSE saved
    /\ UNCHANGED <<stage, summary, expired, botVars, chatVars, counters, under>>

\* The answer is read: a replaced entry draws nothing
Reads(s) ==
    LET e == [slots[s] EXCEPT !.view = slots[s].seen, !.seen = "none", !.record = FALSE] IN
    /\ slots[s].at = "answered"
    /\ \/ cur # s /\ Keep(s, Free)
       \/ cur = s /\ ToDraw(e) /\ Keep(s, [e EXCEPT !.at = "editing"])
       \/ cur = s /\ ~ToDraw(e) /\ Settle(s, e)
    /\ UNCHANGED <<bot, press, pass, backVars, chatVars, counters, under>>

\* Telegram draws the edit
EditLands(s) ==
    LET e == slots[s] IN
    /\ e.at = "editing" /\ e.msg \notin gone
    /\ screen' = [screen EXCEPT ![e.msg] = Key(e.view)]
    /\ Keep(s, [e EXCEPT !.at = "landed"])
    /\ UNCHANGED <<bot, press, pass, backVars, sent, gone, counters, under>>

\* shown, or edited: what is rendered
EditAnswered(s) ==
    /\ slots[s].at = "landed"
    /\ AfterEdit(s, [slots[s] EXCEPT !.rendered = Key(slots[s].view)])
    /\ UNCHANGED <<bot, press, pass, backVars, chatVars, counters, under>>

\* Another refusal, or a transport failure before or after Telegram drew it
EditFails(s) ==
    /\ slots[s].at \in {"editing", "landed"} /\ Fault
    /\ AfterEdit(s, slots[s])
    /\ UNCHANGED <<bot, press, pass, backVars, chatVars, under>>

\* Gone or 403: the entry ends with no memory, and the backend is told
EditLost(s) ==
    LET e == slots[s] IN
    /\ e.at = "editing" /\ e.msg \in gone
    /\ slots' = [slots EXCEPT ![s] = [e EXCEPT !.at = "lost"]]
    /\ cur' = IF cur = s THEN 0 ELSE cur
    /\ UNCHANGED <<drawn, bot, press, pass, backVars, chatVars, counters, under>>

\* forgetSessionStatusMessage: only while it is still that message
Forget(m) == recorded' = IF recorded = m THEN 0 ELSE recorded

Reports(s) ==
    /\ slots[s].at = "lost"
    /\ \/ Forget(slots[s].msg) /\ UNCHANGED counters
       \/ Fault /\ UNCHANGED recorded
    /\ Keep(s, Free)
    /\ UNCHANGED <<bot, press, pass, stage, summary, expired, late, saved, chatVars, under>>

\* claimSessionSummary: once, of a session whose notices are closed
Claim(m) ==
    LET won == stage = "done" /\ summary = "open" IN
    /\ summary' = IF won THEN "bot" ELSE summary
    /\ under' = IF won THEN m ELSE under

\* The claim, whatever it did, ends the entry; a failed one may be committed
Claims(s) ==
    LET e == slots[s] IN
    /\ e.at = "claiming"
    /\ \/ Claim(e.msg) /\ UNCHANGED counters
       \/ Fault /\ UNCHANGED <<summary, under>>
    /\ Finish(s, e, TRUE)
    /\ UNCHANGED <<bot, press, pass, stage, recorded, expired, late, saved, chatVars>>

-----------------------------------------------------------------------------
(* track(): by a press and by the resumer's pass                            *)

Memory(m) == IF drawn.msg = m THEN drawn.rendered ELSE "none"

\* The entry replaces the tracked one, whose attempt in flight goes on
Track(m, view, record) ==
    \E s \in Slots :
        /\ slots[s].at = "free" /\ s # cur
        /\ cur' = s
        /\ drawn' = NoDraw
        /\ slots' = [t \in Slots |->
             IF t = s
             THEN [Free EXCEPT !.msg = m, !.view = view, !.record = record, !.at = "timer",
                               !.rendered = IF view = "none" THEN Memory(m) ELSE Key(view)]
             ELSE IF t = cur /\ slots[t].at = "timer" THEN Free ELSE slots[t]]

\* A press of the session button while the session runs: its view is answered...
PressAnswered ==
    /\ bot = "up" /\ press = "none" /\ sent < MaxMessages
    /\ stage \in {"up", "down"}
    /\ press' = stage
    /\ UNCHANGED <<bot, slots, cur, drawn, pass, backVars, chatVars, counters, under>>

\* ... its message is sent and tracked, to be recorded by the first poll; after stop()
\* nothing is tracked
PressSends ==
    /\ bot # "down" /\ press # "none"
    /\ press' = "none"
    /\ sent' = sent + 1
    /\ screen' = [screen EXCEPT ![sent + 1] = Key(press)]
    /\ \/ bot = "up" /\ Track(sent + 1, press, TRUE)
       \/ bot = "stopping" /\ UNCHANGED <<slots, cur, drawn>>
    /\ UNCHANGED <<bot, pass, gone, backVars, counters, under>>

\* listTrackedSessions: a message recorded and the summary step not closed
Listed == recorded # 0 /\ summary = "open"

\* The pass reads the list...
PassReads ==
    /\ bot = "up" /\ pass = 0 /\ Listed
    /\ pass' = recorded
    /\ UNCHANGED <<bot, slots, cur, drawn, press, backVars, chatVars, counters, under>>

\* ... and tracks each listed session the tracker does not hold, with no view
PassApplies ==
    /\ bot = "up" /\ pass # 0
    /\ pass' = 0
    /\ \/ cur = 0 /\ Track(pass, "none", FALSE)
       \/ cur # 0 /\ UNCHANGED <<slots, cur, drawn>>
    /\ UNCHANGED <<bot, press, backVars, chatVars, counters, under>>

-----------------------------------------------------------------------------
(* The process, the session, the chat                                       *)

Restart == restarts < MaxRestarts /\ restarts' = restarts + 1 /\ UNCHANGED <<faults, turns>>

\* stop(): timers cleared, attempts in flight drained
Stop ==
    /\ bot = "up" /\ Restart
    /\ bot' = "stopping" /\ pass' = 0
    /\ UNCHANGED <<slots, cur, drawn, press, backVars, chatVars, under>>

Forgets ==
    /\ bot' = "down" /\ slots' = [s \in Slots |-> Free] /\ cur' = 0
    /\ drawn' = NoDraw /\ press' = "none" /\ pass' = 0
    /\ UNCHANGED <<backVars, chatVars, under>>

Stopped ==
    /\ bot = "stopping" /\ press = "none"
    /\ \A s \in Slots : slots[s].at \in {"free", "timer"}
    /\ Forgets /\ UNCHANGED counters

Crash == bot # "down" /\ Restart /\ Forgets

Starts ==
    /\ bot = "down" /\ bot' = "up"
    /\ UNCHANGED <<slots, cur, drawn, press, pass, backVars, chatVars, counters, under>>

\* The direction turns, the session stops, its notices are closed
Turns ==
    /\ stage \in {"up", "down"} /\ turns < MaxTurns /\ turns' = turns + 1
    /\ stage' = IF stage = "up" THEN "down" ELSE "up"
    /\ UNCHANGED <<recorded, summary, expired, late, saved, botVars, chatVars,
                   faults, restarts, under>>

Ends ==
    /\ \/ stage \in {"up", "down"} /\ stage' = "stopped"
       \/ stage = "stopped" /\ stage' = "done"
    /\ UNCHANGED <<recorded, summary, expired, late, saved, botVars, chatVars, counters, under>>

\* The backend's fallback claims what the bot did not
Fallback ==
    /\ stage = "done" /\ summary = "open" /\ summary' = "fallback"
    /\ UNCHANGED <<stage, recorded, expired, late, saved, botVars, chatVars, counters, under>>

Expire ==
    /\ ~expired /\ expired' = TRUE
    /\ UNCHANGED <<stage, recorded, summary, late, saved, botVars, chatVars, counters, under>>

\* The user deletes the message or blocks the bot
Deletes(m) ==
    /\ m <= sent /\ m \notin gone /\ gone' = gone \cup {m}
    /\ UNCHANGED <<sent, screen, botVars, backVars, counters, under>>

-----------------------------------------------------------------------------
SlotStep(s) ==
    \/ Poll(s) \/ Answers(s) \/ Reads(s) \/ EditLands(s) \/ EditAnswered(s)
    \/ EditLost(s) \/ Reports(s) \/ Claims(s)

Next ==
    \/ \E s \in Slots : SlotStep(s) \/ ReadFails(s) \/ EditFails(s)
    \/ \E m \in Messages : LateRecord(m) \/ Deletes(m)
    \/ PressAnswered \/ PressSends \/ PassReads \/ PassApplies
    \/ Stop \/ Stopped \/ Crash \/ Starts
    \/ Turns \/ Ends \/ Fallback \/ Expire

Spec == Init /\ [][Next]_vars

-----------------------------------------------------------------------------
(* The row keeps the newest message it was ever given, until that message is lost: neither a late *)
(* record of an older message nor a report of an older loss takes its place                       *)
(* (recordSessionStatusMessage, forgetSessionStatusMessage).                                      *)
NewestKept ==
    \A m \in saved : (\A n \in saved : n <= m) => (recorded = m \/ m \in gone)

(* The bot claims the summary only under a message that shows the session's end.                  *)
SummaryUnderEnd == under # 0 => screen[under] = "end"

(* Only the entry the map holds sends an edit: what a replaced entry was still reading when the   *)
(* session moved to a newer message is drawn nowhere, the deadline's last edit included.          *)
EditsOfCurrent ==
    [][\A s \in Slots :
         (slots[s].at # "editing" /\ slots'[s].at = "editing") => cur = s /\ cur' = s]_vars

=============================================================================
