----------------------------- MODULE SignalWait -----------------------------
(***************************************************************************)
(* The bot's wait for a signal (apps/bot/src/signal-wait.ts) with the pace *)
(* of its edits (apps/bot/src/edit-pacer.ts): one entry per user, one tick *)
(* for every entry, edits that run on after the tick, the still shown when *)
(* a user leaves, and the stop that turns every waiting message into the   *)
(* start of trading.                                                       *)
(*                                                                         *)
(* A wait is one message of one user.  A screen is "scan" (waiting),       *)
(* "others" (waiting, with the buttons of other pairs), "list", and the    *)
(* three that end a wait: "step" (the next step or the card), "refusal"    *)
(* and "start" (the start of trading).  Time is left out but for what it   *)
(* decides: `old` is the bound of an entry, `stale` the 30 s of buttons,   *)
(* `paused` a 429's pause, `window` the stop's window.  The token bucket   *)
(* and the gap between two edits of a chat only delay a slot, which may    *)
(* come at any time.                                                       *)
(***************************************************************************)
EXTENDS Integers, Sequences, FiniteSets, SequencesExt

CONSTANTS Users, Waits, UserOf, \* a wait is a message of a user
          Kinds,                \* "list", "door", "analysis": where a wait started
          MayStop,              \* whether the bot stops
          NoWait,
          DrawnAs,              \* the media a handler may draw a wait as
          ReadSlots,            \* resolveConcurrency
          FailuresMax,          \* editFailuresMax
          MaxPauses,            \* bound: 429 answers
          MaxCaptions           \* bound: captions of one wait

VARIABLES
  entry,    \* entries: the wait of each user, NoWait without one
  wait,     \* what the bot keeps of each wait
  job,      \* the edit in flight of each wait
  queue,    \* the pace: the waiters by priority, "edit" or "freeze" of a wait
  pace,     \* a 429's pause
  tick,     \* the tick in flight and the housekeeping it has decided
  freeze,   \* leaving, the chain of freezes and what its head does
  stop,     \* the stop and its drain
  msg,      \* what Telegram shows
  recorded  \* shownSignals: the waits whose directions were remembered

vars == <<entry, wait, job, queue, pace, tick, freeze, stop, msg, recorded>>

Ending   == {"step", "refusal", "start"}
Screens  == {"none", "scan", "others", "list"} \cup Ending
Medias   == {"none", "text", "animation", "still", "photo"}
Edits    == {"finish", "refuse", "list", "signal", "others", "othersOff", "caption"}
Stages   == {"none", "slot", "reads", "queue", "send", "again", "resend"}
NoJob    == [stage |-> "none", kind |-> "none", as |-> "none", media |-> "none", queue |-> "none"]

Init ==
  /\ entry = [u \in Users |-> NoWait]
  /\ wait = [w \in Waits |->
       [state |-> "new", kind |-> "none", media |-> "none", drawn |-> "none", others |-> "done",
        final |-> FALSE, failures |-> 0, captions |-> 0, old |-> FALSE, stale |-> FALSE]]
  /\ job = [w \in Waits |-> NoJob]
  /\ queue = [signal |-> <<>>, housekeeping |-> <<>>]
  /\ pace = [paused |-> FALSE, pauses |-> 0]
  /\ tick = [at |-> "idle", signals |-> {}, later |-> {}]
  /\ freeze = [leaving |-> {}, chain |-> <<>>, at |-> "idle", lost |-> {}]
  /\ stop = [at |-> "run", window |-> TRUE, todo |-> {}, after |-> {}, send |-> {}, skipped |-> {}]
  /\ msg = [w \in Waits |-> [screen |-> "none", media |-> "none"]]
  /\ recorded = {}

Stopped  == stop.at # "run"
Entries  == {entry[u] : u \in Users} \ {NoWait}
Live(w)  == ~Stopped /\ entry[UserOf[w]] = w
Busy(w)  == job[w].stage # "none"

\* Mutant: the stop forgets the edits in flight
Slotted_Never(w) == FALSE

\* the launched edit has sent, or asks for the slot of its second try
Slotted(w) == job[w].stage \in {"send", "again", "resend"}

\* still waiting: a list without its pairs, or a pair
Waiting(w) == wait[w].kind # "list" \/ wait[w].drawn # "list"

EndMedia(w) == IF wait[w].media = "text" THEN "text" ELSE "still"

-----------------------------------------------------------------------------
(* The entries *)

FirstScreens(kind) ==
  CASE kind = "list" -> {"scan", "list"} [] kind = "door" -> {"scan", "others"} [] OTHER -> {"scan"}

Registered(kind, media, screen) ==
  [state |-> "waiting", kind |-> kind, media |-> media, drawn |-> screen,
   others |-> CASE kind = "analysis" -> "pending"
                [] screen = "others" -> "shown"
                [] OTHER -> "done",
   final |-> FALSE, failures |-> 0, captions |-> 0, old |-> FALSE, stale |-> FALSE]

\* a handler drew the screen and registers its wait; the user's handlers run
\* one at a time, and each left the wait before it
Register(w) ==
  /\ wait[w].state = "new"
  /\ entry[UserOf[w]] = NoWait
  /\ ~Stopped
  /\ \E kind \in Kinds : \E screen \in FirstScreens(kind), media \in DrawnAs :
       /\ screen = "list" => media = "text"
       /\ wait' = [wait EXCEPT ![w] = Registered(kind, media, screen)]
       /\ msg' = [msg EXCEPT ![w] = [screen |-> screen, media |-> media]]
       /\ recorded' = IF screen = "scan" THEN recorded ELSE recorded \cup {w}
  /\ entry' = [entry EXCEPT ![UserOf[w]] = w]
  /\ UNCHANGED <<job, queue, pace, tick, freeze, stop>>

\* end(): the entry of this wait, if it still is the user's
Without(w) == IF entry[UserOf[w]] = w THEN [entry EXCEPT ![UserOf[w]] = NoWait] ELSE entry

\* a button or a command: the entry ends, its animation waits for the still
Leave(w) ==
  /\ Live(w)
  /\ entry' = Without(w)
  /\ wait' = [wait EXCEPT ![w].state = "left"]
  /\ freeze' = IF wait[w].media # "animation" THEN freeze
               ELSE [freeze EXCEPT !.leaving = @ \cup {w}, !.chain = Append(@, w)]
  /\ UNCHANGED <<job, queue, pace, tick, stop, msg, recorded>>

\* time: the bound of an entry, and the 30 s of its buttons
Age(w) ==
  /\ wait[w].state = "waiting" /\ ~Stopped
  /\ \/ ~wait[w].old /\ wait' = [wait EXCEPT ![w].old = TRUE]
     \/ /\ ~wait[w].stale
        /\ wait[w].drawn = "list" \/ wait[w].others = "shown"
        /\ wait' = [wait EXCEPT ![w].stale = TRUE]
  /\ UNCHANGED <<entry, job, queue, pace, tick, freeze, stop, msg, recorded>>

-----------------------------------------------------------------------------
(* The tick *)

TickStarts ==
  /\ ~Stopped /\ tick.at = "idle" /\ Entries # {} /\ ~pace.paused
  /\ tick' = [tick EXCEPT !.at = "reading"]
  /\ UNCHANGED <<entry, wait, job, queue, pace, freeze, stop, msg, recorded>>

\* What a tick may decide for a wait: by the clock alone, and with its reads
\* (a signal, the pair closed, other pairs with a signal).  "none" is nothing.
ByOthers(w, read) ==
  CASE wait[w].others = "pending" /\ read -> {"others", "noOthers"}
    [] wait[w].others = "shown" /\ wait[w].stale -> {"othersOff"}
    [] OTHER -> {"none"}

Decisions(w, read) ==
  IF wait[w].old THEN {"finish"}
  ELSE IF wait[w].kind = "list"
       THEN IF wait[w].drawn = "list" THEN {IF wait[w].stale THEN "finish" ELSE "none"}
            ELSE {"none"} \cup (IF read THEN {"list"} ELSE {})
       ELSE ByOthers(w, read) \cup (IF read THEN {"refuse", "signal"} ELSE {})

\* the screen an edit draws, and the media its message gets
ScreenOf(w, kind) ==
  CASE kind = "finish" -> "start"
    [] kind = "refuse" -> "refusal"
    [] kind = "signal" -> "step"
    [] kind = "othersOff" -> "scan"
    [] kind = "caption" -> wait[w].drawn
    [] OTHER -> kind

MediaOf(w, kind) ==
  IF kind \in {"finish", "refuse", "list", "signal"} THEN EndMedia(w) ELSE wait[w].media

Asked(w, kind) ==
  [stage |-> "queue", kind |-> kind, as |-> ScreenOf(w, kind),
   media |-> IF kind = "signal" /\ wait[w].kind = "analysis" THEN "photo" ELSE MediaOf(w, kind),
   queue |-> IF kind \in {"list", "signal"} THEN "signal" ELSE "housekeeping"]

\* the waiters asked for by a set of waits, in some order
Queued(kind, ws) == [queue EXCEPT ![kind] = @ \o SetToSeq({<<"edit", w>> : w \in ws})]


\* The reads are in: every free entry is decided before any await, and the
\* signal edits are launched.  An edit of a list asks for its slot at once.
Decide ==
  /\ tick.at = "reading"
  /\ \E read \in BOOLEAN,
        chosen \in [Entries -> Edits \cup {"none", "noOthers"}] :
       LET now == {w \in Entries : Live(w) /\ ~Busy(w)} IN
       /\ \A w \in Entries : chosen[w] \in IF w \in now THEN Decisions(w, read) ELSE {"none"}
       /\ wait' = [w \in Waits |->
            IF w \in Entries /\ chosen[w] = "noOthers"
              THEN [wait[w] EXCEPT !.others = "done"] ELSE wait[w]]
       /\ job' = [w \in Waits |->
            CASE w \notin Entries -> job[w]
              [] chosen[w] = "list" -> Asked(w, "list")
              [] chosen[w] = "signal" -> [Asked(w, "signal") EXCEPT !.stage = "slot"]
              [] OTHER -> job[w]]
       /\ queue' = Queued("signal", {w \in Entries : chosen[w] = "list"})
       /\ tick' = [at |-> "signals",
                   signals |-> {w \in Entries : chosen[w] = "signal"},
                   later |-> {<<w, chosen[w]>> : w \in {e \in Entries :
                     chosen[e] \in {"finish", "refuse", "others", "othersOff"}}}]
  /\ UNCHANGED <<entry, pace, freeze, stop, msg, recorded>>

\* The signal edits' reads are done: the housekeeping edits and the captions
\* ask for their slots.  A caption's read of the entry is the tick's.
TickEnds ==
  /\ tick.at = "signals" /\ tick.signals = {}
  /\ LET kinds == {p \in tick.later : Live(p[1])}
         ws    == {p[1] : p \in kinds}
         due   == {w \in Entries \ ws : Live(w) /\ ~Busy(w) /\ Waiting(w)
                                        /\ wait[w].captions < MaxCaptions}
     IN \E redraw \in {{}} \cup {{w} : w \in due} :
          /\ job' = [w \in Waits |->
               IF w \in ws THEN Asked(w, (CHOOSE p \in kinds : p[1] = w)[2])
               ELSE IF w \in redraw THEN Asked(w, "caption") ELSE job[w]]
          /\ wait' = [w \in Waits |->
               IF w \in redraw THEN [wait[w] EXCEPT !.captions = @ + 1] ELSE wait[w]]
          /\ queue' = Queued("housekeeping", ws \cup redraw)
  /\ tick' = [at |-> "idle", signals |-> {}, later |-> {}]
  /\ UNCHANGED <<entry, pace, freeze, stop, msg, recorded>>

-----------------------------------------------------------------------------
(* The reads of a signal edit, ReadSlots at once *)

Reading == {w \in Waits : job[w].stage = "reads"}

Ended(w) == [job EXCEPT ![w] = NoJob]

\* a read slot, and the entry still to be edited
ReadStarts(w) ==
  /\ job[w].stage = "slot"
  /\ Cardinality(Reading) < ReadSlots
  /\ IF Live(w) THEN job' = [job EXCEPT ![w].stage = "reads"] /\ UNCHANGED tick
     ELSE job' = Ended(w) /\ tick' = [tick EXCEPT !.signals = @ \ {w}]
  /\ UNCHANGED <<entry, wait, queue, pace, freeze, stop, msg, recorded>>

\* The access read, for an analysis after its signal: the next step or the card
\* asks for its slot; an analysis without a signal after all is decided again
\* for its other pairs' buttons.
ReadEnds(w) ==
  /\ job[w].stage = "reads"
  /\ tick' = [tick EXCEPT !.signals = @ \ {w}]
  /\ \/ /\ ~Live(w)
        /\ job' = Ended(w)
        /\ UNCHANGED <<wait, queue>>
     \/ /\ Live(w)
        /\ job' = [job EXCEPT ![w].stage = "queue"]
        /\ queue' = Queued("signal", {w})
        /\ UNCHANGED wait
     \/ /\ Live(w) /\ wait[w].kind = "analysis"
        /\ \E kind \in ByOthers(w, TRUE) :
             /\ job' = IF kind \in {"others", "othersOff"}
                         THEN [job EXCEPT ![w] = [Asked(w, kind) EXCEPT !.queue = "signal"]]
                         ELSE Ended(w)
             /\ queue' = IF kind \in {"others", "othersOff"} THEN Queued("signal", {w}) ELSE queue
             /\ wait' = IF kind = "noOthers" THEN [wait EXCEPT ![w].others = "done"] ELSE wait
  /\ UNCHANGED <<entry, pace, freeze, stop, msg, recorded>>

-----------------------------------------------------------------------------
(* The pace *)

Wanted(p) == IF p[1] = "edit" THEN Live(p[2]) ELSE ~Stopped /\ p[2] \in freeze.leaving
Due(q)    == {i \in 1..Len(q) : Wanted(q[i])}
First(q)  == q[CHOOSE i \in Due(q) : \A j \in Due(q) : i <= j]
Minus(q, p) == SelectSeq(q, LAMBDA e : e # p)

NextPriority == IF Due(queue.signal) # {} THEN "signal" ELSE "housekeeping"

\* one slot: the first waiter still wanted, the signal edits before the rest
Grant ==
  /\ ~Stopped /\ ~pace.paused
  /\ Due(queue[NextPriority]) # {}
  /\ LET p == First(queue[NextPriority])
         w == p[2]
     IN /\ queue' = [queue EXCEPT ![NextPriority] = Minus(@, p)]
        /\ IF p[1] = "edit"
             THEN /\ job' = [job EXCEPT ![w].stage = IF @ = "queue" THEN "send" ELSE "resend"]
                  /\ UNCHANGED freeze
             ELSE /\ freeze' = [freeze EXCEPT !.leaving = @ \ {w}, !.at = "send"]
                  /\ UNCHANGED job
  /\ UNCHANGED <<entry, wait, pace, tick, stop, msg, recorded>>

\* a waiter whose entry ended before its turn
Drop ==
  /\ ~Stopped
  /\ \E kind \in {"signal", "housekeeping"} : \E p \in ToSet(queue[kind]) :
       /\ ~Wanted(p) /\ p[1] = "edit"
       /\ queue' = [queue EXCEPT ![kind] = Minus(@, p)]
       /\ job' = Ended(p[2])
  /\ UNCHANGED <<entry, wait, pace, tick, freeze, stop, msg, recorded>>

PauseEnds ==
  /\ pace.paused
  /\ pace' = [pace EXCEPT !.paused = FALSE]
  /\ UNCHANGED <<entry, wait, job, queue, tick, freeze, stop, msg, recorded>>

-----------------------------------------------------------------------------
(* An edit at Telegram *)

Paused == [pace EXCEPT !.paused = TRUE, !.pauses = @ + 1]

\* markDrawn, and what the decision remembers of a drawn edit; the card's photo
\* is not marked.  A drawn finish ends the wait for good.
DrawnWait(w, media) ==
  LET kind  == job[w].kind
      final == job[w].as \in Ending IN
  [wait[w] EXCEPT
    !.drawn = IF media = "photo" THEN @ ELSE job[w].as,
    !.media = IF media = "photo" THEN @ ELSE media,
    !.others = CASE kind = "others" -> "shown" [] kind = "othersOff" -> "done" [] OTHER -> @,
    !.stale = @ /\ kind \notin {"others", "list"},
    !.failures = IF media = "photo" THEN @ ELSE 0,
    !.final = @ \/ final,
    !.state = IF final /\ @ = "waiting" THEN "over" ELSE @]

Recorded(w) == job[w].kind \in {"list", "others"} \/ (job[w].kind = "signal" /\ wait[w].kind = "analysis")

Ends(w) ==
  /\ entry' = Without(w)
  /\ job' = Ended(w)
  /\ wait' = [wait EXCEPT ![w].state = IF @ = "waiting" THEN "over" ELSE @]

\* done, or «message is not modified»
Drawn(w, media) ==
  /\ msg' = [msg EXCEPT ![w] = [screen |-> job[w].as, media |-> media]]
  /\ wait' = [wait EXCEPT ![w] = DrawnWait(w, media)]
  /\ entry' = IF job[w].as \in Ending THEN Without(w) ELSE entry
  /\ recorded' = IF Recorded(w) THEN recorded \cup {w} ELSE recorded
  /\ job' = Ended(w)
  /\ UNCHANGED <<queue, pace, freeze>>

\* a transport failure, the edit applied or not: retried FailuresMax times
Failed(w, media) ==
  /\ msg' \in {msg, [msg EXCEPT ![w] = [screen |-> job[w].as, media |-> media]]}
  /\ IF wait[w].failures + 1 >= FailuresMax THEN Ends(w)
     ELSE /\ wait' = [wait EXCEPT ![w].failures = @ + 1]
          /\ job' = Ended(w)
          /\ UNCHANGED entry
  /\ UNCHANGED <<queue, pace, freeze, recorded>>

\* the message gone, the bot blocked
Gone(w) == Ends(w) /\ UNCHANGED <<queue, pace, freeze, msg, recorded>>

TooMany(w) ==
  /\ pace.pauses < MaxPauses
  /\ pace' = Paused
  /\ job' = Ended(w)
  /\ UNCHANGED <<entry, wait, queue, freeze, msg, recorded>>

\* The media refused for its file: the same screen without new media, through
\* a slot of its own; a card's caption goes as a text.  A closed pace or an
\* ended entry ends it unsent.
FileRefused(w) ==
  /\ job[w].media # "text" /\ job[w].media # wait[w].media
  /\ IF Live(w)
       THEN /\ job' = [job EXCEPT ![w].stage = "again",
                                  ![w].media = IF @ = "photo" THEN EndMedia(w) ELSE wait[w].media]
            /\ queue' = Queued(job[w].queue, {w})
       ELSE job' = Ended(w) /\ UNCHANGED queue
  /\ UNCHANGED <<entry, wait, pace, freeze, msg, recorded>>

Answer(w) ==
  /\ job[w].stage \in {"send", "resend"}
  /\ \/ Drawn(w, job[w].media)
     \/ Failed(w, job[w].media)
     \/ Gone(w)
     \/ TooMany(w)
     \/ FileRefused(w)
  /\ UNCHANGED <<tick, stop>>

-----------------------------------------------------------------------------
(* The still of a wait the user left, one at a time *)

FreezeAsks ==
  /\ freeze.at = "idle" /\ freeze.chain # <<>>
  /\ LET w == Head(freeze.chain) IN
     IF Stopped \/ w \notin freeze.leaving
       THEN freeze' = [freeze EXCEPT !.chain = Tail(@)] /\ UNCHANGED queue
       ELSE /\ freeze' = [freeze EXCEPT !.at = "queue"]
            /\ queue' = [queue EXCEPT !.housekeeping = Append(@, <<"freeze", w>>)]
  /\ UNCHANGED <<entry, wait, job, pace, tick, stop, msg, recorded>>

PutBack(w, next) == IF Stopped THEN next ELSE [next EXCEPT !.leaving = @ \cup {w}]

\* the start of trading on the still; a 429 puts the wait back unless the bot stops
FreezeAnswer ==
  /\ freeze.at = "send"
  /\ LET w    == Head(freeze.chain)
         next == [freeze EXCEPT !.at = "idle"]
     IN IF wait[w].drawn = "start" /\ wait[w].media = "still"
          THEN freeze' = next /\ UNCHANGED <<msg, pace>>
          ELSE \/ /\ msg' = [msg EXCEPT ![w] = [screen |-> "start", media |-> "still"]]
                  /\ freeze' = next
                  /\ UNCHANGED pace
               \/ /\ freeze' = [next EXCEPT !.lost = @ \cup {w}]
                  /\ UNCHANGED msg
                  /\ UNCHANGED pace
               \/ /\ pace.pauses < MaxPauses
                  /\ pace' = Paused
                  /\ freeze' = PutBack(w, next)
                  /\ UNCHANGED msg
  /\ UNCHANGED <<entry, wait, job, queue, tick, stop, recorded>>

-----------------------------------------------------------------------------
(* The stop *)

Remaining == Entries \cup freeze.leaving

\* close(): an edit that waits for its slot ends unsent
Closed(j) == IF j.stage \in {"queue", "again"} THEN NoJob ELSE j

Stop ==
  /\ MayStop /\ ~Stopped
  /\ stop' = [stop EXCEPT !.at = "drain", !.todo = Remaining]
  /\ entry' = [u \in Users |-> NoWait]
  /\ wait' = [w \in Waits |-> IF w \in Entries \cup freeze.leaving
                                 THEN [wait[w] EXCEPT !.state = "stopped"] ELSE wait[w]]
  /\ queue' = [signal |-> <<>>, housekeeping |-> <<>>]
  /\ job' = [w \in Waits |-> Closed(job[w])]
  /\ freeze' = [freeze EXCEPT !.leaving = {}, !.at = IF @ = "queue" THEN "idle" ELSE @]
  /\ UNCHANGED <<pace, tick, msg, recorded>>

\* the window closes while messages are left
WindowEnds ==
  /\ stop.at = "drain" /\ stop.window
  /\ stop' = [stop EXCEPT !.window = FALSE]
  /\ UNCHANGED <<entry, wait, job, queue, pace, tick, freeze, msg, recorded>>

\* a message that shows the start of trading already, or a final screen
Settled(w) == wait[w].final \/ (wait[w].drawn = "start" /\ wait[w].media = EndMedia(w))

CanSend == stop.window /\ ~pace.paused

\* The next message of the drain.  One with an edit in flight is decided after
\* that edit; a pause or the end of the window gives the others up.
Drain(w) ==
  /\ stop.at = "drain" /\ w \in stop.todo
  /\ CanSend
  /\ stop' = IF Slotted(w)
               THEN [stop EXCEPT !.todo = @ \ {w}, !.after = @ \cup {w}]
             ELSE IF Settled(w) THEN [stop EXCEPT !.todo = @ \ {w}]
             ELSE [stop EXCEPT !.todo = @ \ {w}, !.send = @ \cup {w}]
  /\ UNCHANGED <<entry, wait, job, queue, pace, tick, freeze, msg, recorded>>

DrainGivesUp ==
  /\ stop.at = "drain" /\ stop.todo # {} /\ ~CanSend
  /\ stop' = [stop EXCEPT !.todo = {}, !.skipped = @ \cup stop.todo]
  /\ UNCHANGED <<entry, wait, job, queue, pace, tick, freeze, msg, recorded>>

DrainAfter(w) ==
  /\ w \in stop.after /\ ~Busy(w)
  /\ stop' = [stop EXCEPT
       !.after = @ \ {w},
       !.send = IF CanSend /\ ~Settled(w) THEN @ \cup {w} ELSE @,
       !.skipped = IF CanSend THEN @ ELSE @ \cup {w}]
  /\ UNCHANGED <<entry, wait, job, queue, pace, tick, freeze, msg, recorded>>

DrainAnswer(w) ==
  /\ w \in stop.send
  /\ \/ /\ msg' = [msg EXCEPT ![w] = [screen |-> "start", media |-> EndMedia(w)]]
        /\ stop' = [stop EXCEPT !.send = @ \ {w}]
        /\ UNCHANGED pace
     \/ /\ stop' = [stop EXCEPT !.send = @ \ {w}, !.skipped = @ \cup {w}]
        /\ \/ pace' = pace
           \/ pace.pauses < MaxPauses /\ pace' = Paused
        /\ UNCHANGED msg
  /\ UNCHANGED <<entry, wait, job, queue, tick, freeze, recorded>>

Stops ==
  /\ stop.at = "drain"
  /\ stop.todo = {} /\ stop.after = {} /\ stop.send = {}
  /\ tick.at = "idle" /\ freeze.chain = <<>> /\ freeze.at = "idle"
  /\ \A w \in Waits : ~Busy(w)
  /\ stop' = [stop EXCEPT !.at = "done"]
  /\ UNCHANGED <<entry, wait, job, queue, pace, tick, freeze, msg, recorded>>

Next ==
  \/ \E w \in Waits :
       \/ Register(w) \/ Leave(w) \/ Age(w)
       \/ ReadStarts(w) \/ ReadEnds(w) \/ Answer(w)
       \/ Drain(w) \/ DrainAfter(w) \/ DrainAnswer(w)
  \/ TickStarts \/ Decide \/ TickEnds
  \/ Grant \/ Drop \/ PauseEnds
  \/ FreezeAsks \/ FreezeAnswer
  \/ Stop \/ WindowEnds \/ DrainGivesUp \/ Stops

Spec == Init /\ [][Next]_vars

-----------------------------------------------------------------------------
(* Properties *)

Jobs == [stage : Stages, kind : Edits \cup {"none"}, as : Screens, media : Medias,
         queue : {"none", "signal", "housekeeping"}]

\* The state keeps its types, and a waiter of the pace is an edit that waits for
\* its slot, in the queue of its launch's priority (edit-pacer.ts, launch).
WaitTypeOK ==
  /\ entry \in [Users -> Waits \cup {NoWait}]
  /\ \A w \in Waits : job[w] \in Jobs
  /\ \A u \in Users : entry[u] # NoWait => UserOf[entry[u]] = u
  /\ \A w \in Waits :
       /\ wait[w].drawn \in Screens /\ wait[w].media \in Medias
       /\ msg[w].screen \in Screens /\ msg[w].media \in Medias
       /\ (job[w].stage \in {"queue", "again"}) =
            (<<"edit", w>> \in ToSet(queue.signal) \cup ToSet(queue.housekeeping))
  /\ IsInjective(queue.signal) /\ IsInjective(queue.housekeeping)

\* The drain never edits a message while another edit of it is at Telegram, the
\* tick's or a still's: which of the two shows last would be chance (drainEdits).
EditsApart ==
  \A w \in stop.send :
    /\ job[w].stage \notin {"send", "again", "resend"}
    /\ ~(freeze.at = "send" /\ Head(freeze.chain) = w)

\* A message that shows the next step, the card or a refusal keeps it: neither a
\* later tick nor the drain draws over a final screen of a user who did not leave
\* (drainEdits, W48).
FinalStays ==
  [][\A w \in Waits : wait[w].final /\ wait[w].state # "left" => msg'[w] = msg[w]]_vars

\* The directions a start may take are remembered only of a screen that is on the
\* message: a refused, paused or lost edit records nothing (apply, resolve).
RecordedWhenShown ==
  [][\A w \in recorded' \ recorded : msg'[w].screen \in {"list", "others", "step"}]_vars

\* No edit of the wait - a tick's, a second try, a still, the stop's - is sent
\* inside a 429's pause (pump, freeze, drainEdits).
PauseHolds ==
  [][pace.paused =>
       /\ \A w \in Waits : job'[w].stage \in {"send", "resend"} => job[w].stage = job'[w].stage
       /\ freeze'.at = "send" => freeze.at = "send"
       /\ stop'.send \subseteq stop.send]_vars

\* After the stop no message the bot still watched, nor one left on the animation,
\* shows a wait, unless its edit failed, a pause came or the window closed.
NoWaitAfterStop ==
  stop.at = "done" =>
    \A w \in Waits : wait[w].state = "stopped" /\ w \notin stop.skipped => msg[w].screen \in Ending

=============================================================================
