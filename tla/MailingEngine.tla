--------------------------- MODULE MailingEngine ---------------------------
(***************************************************************************)
(* The mailing engine of the backend (apps/backend/src/mailing/engine.ts,  *)
(* packages/db/src/mailing-ops.ts, delivery-ops.ts).  A planner pass turns *)
(* the facts of one user into jobs, one statement a kind; the sender       *)
(* claims one job at a time, marks it sent before it reaches Telegram, and *)
(* writes what Telegram answered.  The claim is one READ COMMITTED         *)
(* statement that locks the jobs and nothing else: what it reads of the    *)
(* user, of the facts and of the window is of its snapshot.  Meanwhile the *)
(* user changes the level, bars the bot and comes back, a process stops or *)
(* dies, and a second one runs beside it during a deploy.                  *)
(***************************************************************************)
EXTENDS Integers, Sequences, Functions

CONSTANTS Mailers,
          Kinds,           \* the kinds in the planner's order, one key each
          Important,       \* planned and claimed at any level
          Replans,         \* a canceled job of the key is taken back
          MaxAttempts,
          MaxMailFaults    \* bound: refusals, lost answers, failed statements, stops

Keys == Range(Kinds)
Ordinary == Keys \ Important

ASSUME MailingAssumption ==
  /\ Len(Kinds) \in Nat \ {0} /\ DOMAIN Kinds = 1..Len(Kinds) /\ IsInjective(Kinds)
  /\ Important \subseteq Keys /\ Replans \subseteq Keys /\ "none" \notin Keys
  /\ MaxAttempts \in Nat \ {0} /\ MaxMailFaults \in Nat

VARIABLES
  fact,      \* fact[k]: "none", "holds" (the scenario applies) or "over"
  job,       \* notification_jobs: one row a key, "none" without
  user,      \* level, leaving: the transaction of an `off` is open, telegram_blocked_at;
             \* barred: what Telegram knows; news: updates on the way
  proc,      \* each process: its pass, its wake, its sender's step; due and gone: what its
             \* claim's snapshot held, the jobs to send and those to cancel
  received,  \* ghost: how often Telegram may have delivered each key
  dropped,   \* ghost: the keys whose pending job an `off` canceled
  since,     \* ghost: the ordinary keys each process delivered under the present `off` or `reduced`
  begun,     \* ghost: whose claim or send was under way when the level was set or the window began
  mailFaults

ghosts == <<received, dropped, since, begun>>
mailingVars == <<fact, job, user, proc, received, dropped, since, begun, mailFaults>>

NoJob == [status |-> "none", waits |-> FALSE, fresh |-> FALSE, attempts |-> 0, unknown |-> FALSE]
IdleMailer == [at |-> "up", pass |-> 0, woken |-> FALSE, step |-> "idle", key |-> "none",
               due |-> {}, gone |-> {}, answer |-> "none", paused |-> FALSE]

MailingInit ==
  /\ fact = [k \in Keys |-> "none"]
  /\ job = [k \in Keys |-> NoJob]
  /\ user = [level |-> "all", leaving |-> FALSE, blocked |-> FALSE, barred |-> FALSE, news |-> <<>>]
  /\ proc = [p \in Mailers |-> IdleMailer]
  /\ received = [k \in Keys |-> 0]
  /\ dropped = {}
  /\ since = [p \in Mailers |-> {}]
  /\ begun = {}
  /\ mailFaults = 0

Fault == mailFaults < MaxMailFaults /\ mailFaults' = mailFaults + 1
Up(p) == proc[p].at = "up"

-----------------------------------------------------------------------------
(* The planner *)

\* reachable() for an important kind, deliverable() for any other
MayPlan(k) == ~user.blocked /\ (k \in Important \/ user.level # "off")

\* a new row, or a canceled one of a replanned kind; a sent or failed one is final
Planned(k) ==
  IF job[k].status = "none" \/ (k \in Replans /\ job[k].status = "canceled")
    THEN [NoJob EXCEPT !.status = "pending"] ELSE job[k]

\* planTick: at start and on the interval; one pass at a time
PassStarts(p) ==
  /\ Up(p) /\ proc[p].pass = 0
  /\ proc' = [proc EXCEPT ![p].pass = 1, ![p].woken = FALSE]
  /\ UNCHANGED <<fact, job, user, ghosts, mailFaults>>

\* after the pass: one more when a wake came meanwhile, none after stop()
NextPass(p) == IF proc[p].woken /\ Up(p) THEN 1 ELSE 0

AfterPass(p) == [proc EXCEPT ![p].pass = NextPass(p), ![p].woken = FALSE]

\* one kind's statement
PlanKind(p) ==
  LET n == proc[p].pass
      k == Kinds[n] IN
  /\ n > 0 /\ proc[p].at # "down"
  /\ job' = IF fact[k] = "holds" /\ MayPlan(k) THEN [job EXCEPT ![k] = Planned(k)] ELSE job
  /\ proc' = IF n = Len(Kinds) THEN AfterPass(p) ELSE [proc EXCEPT ![p].pass = n + 1]
  /\ UNCHANGED <<fact, user, ghosts, mailFaults>>

PlanFails(p) ==
  /\ proc[p].pass > 0 /\ proc[p].at # "down" /\ Fault
  /\ proc' = AfterPass(p)
  /\ UNCHANGED <<fact, job, user, ghosts>>

\* wakePlan() of one process: a pass now, or one more after the pass in flight
Woken(p) ==
  IF ~Up(p) THEN proc
  ELSE IF proc[p].pass = 0 THEN [proc EXCEPT ![p].pass = 1]
  ELSE [proc EXCEPT ![p].woken = TRUE]

-----------------------------------------------------------------------------
(* The facts *)

\* A fact is committed; for an important kind the writer's process wakes the planner.
FactHolds(k, p) ==
  /\ fact[k] = "none" /\ Up(p)
  /\ fact' = [fact EXCEPT ![k] = "holds"]
  /\ proc' = IF k \in Important THEN Woken(p) ELSE proc
  /\ UNCHANGED <<job, user, ghosts, mailFaults>>

\* the scenario stops applying, or a replanned one applies again
FactTurns(k) ==
  /\ fact[k] # "none" /\ Fault
  /\ fact' = [fact EXCEPT ![k] = IF @ = "holds" THEN "over" ELSE "holds"]
  /\ UNCHANGED <<job, user, proc, ghosts>>

-----------------------------------------------------------------------------
(* The sender *)

\* sendTick: one batch at a time, none while Telegram's pause runs
TickStarts(p) ==
  /\ Up(p) /\ proc[p].step = "idle" /\ ~proc[p].paused
  /\ proc' = [proc EXCEPT ![p].step = "pace"]
  /\ UNCHANGED <<fact, job, user, ghosts, mailFaults>>

\* after the gap: a stop during the sleep claims nothing more
Paced(p) ==
  /\ proc[p].step = "pace" /\ proc[p].at # "down"
  /\ proc' = [proc EXCEPT ![p].step = IF Up(p) THEN "claim" ELSE "idle"]
  /\ UNCHANGED <<fact, job, user, ghosts, mailFaults>>

\* Mutant: a send whose outcome is unknown does not count
InWindow_Answered == \E k \in Ordinary : job[k].status = "sent" /\ job[k].fresh /\ ~job[k].unknown

\* the window of `reduced`: an ordinary job sent in the last day
InWindow == \E k \in Ordinary : job[k].status = "sent" /\ job[k].fresh

\* acceptsJob
Accepts(k) ==
  /\ ~user.blocked
  /\ k \in Important \/ user.level = "all" \/ (user.level = "reduced" /\ ~InWindow)

Pending(k) == job[k].status = "pending" /\ ~job[k].waits
Stale(k) == fact[k] # "holds"

\* The claim's snapshot: the due jobs of a user who accepts them, those that no longer
\* apply apart.
ClaimReads(p) ==
  /\ proc[p].step = "claim" /\ proc[p].at # "down"
  /\ LET due == {k \in Keys : Pending(k) /\ Accepts(k)} IN
     proc' = [proc EXCEPT ![p].step = "lock", ![p].due = {k \in due : ~Stale(k)},
                          ![p].gone = {k \in due : Stale(k)}]
  /\ UNCHANGED <<fact, job, user, ghosts, mailFaults>>

\* The ordinary keys of p's claim past its snapshot, or of its send.
InHand(p) == Ordinary \cap (IF proc[p].step = "send" THEN {proc[p].key} ELSE proc[p].due)
Busy == {p \in Mailers : InHand(p) # {}}

\* sent with an unknown outcome, before anything reaches Telegram
Marked(k) == [job[k] EXCEPT !.status = "sent", !.fresh = TRUE, !.unknown = TRUE]

\* skip locked: what another claim has locked
LockedBeside(p) == UNION {proc[q].due \cup proc[q].gone : q \in Mailers \ {p}}

ClaimEnds(p, step, key) ==
  [proc EXCEPT ![p].step = step, ![p].key = key, ![p].due = {}, ![p].gone = {}]

\* The rows locked are read again, the user's is not: of those still pending and due the
\* ones that did not apply are canceled, the first of the rest is claimed.  (A row put
\* off and due again since the snapshot would not be locked; it may be here.)
Claim(p) ==
  /\ proc[p].step = "lock" /\ proc[p].at # "down"
  /\ \E skipped \in SUBSET LockedBeside(p) :
       LET left == {k \in proc[p].due \ skipped : Pending(k)}
           swept == [k \in Keys |-> IF k \in proc[p].gone \ skipped /\ Pending(k)
                                    THEN [job[k] EXCEPT !.status = "canceled"] ELSE job[k]] IN
       \/ /\ left = {}
          /\ job' = swept /\ proc' = ClaimEnds(p, "idle", "none")
          /\ UNCHANGED begun
       \/ \E k \in left :
            /\ job' = [swept EXCEPT ![k] = Marked(k)]
            /\ proc' = ClaimEnds(p, "send", k)
            /\ begun' = IF k \in Ordinary /\ user.level = "reduced" /\ ~InWindow
                        THEN Busy ELSE begun
  /\ UNCHANGED <<fact, user, received, dropped, since, mailFaults>>

ClaimFails(p) ==
  /\ proc[p].step \in {"claim", "lock"} /\ proc[p].at # "down" /\ Fault
  /\ proc' = ClaimEnds(p, "idle", "none")
  /\ UNCHANGED <<fact, job, user, ghosts>>

\* the next job of the batch, or the batch is full
NextJob == {"pace", "idle"}

Answered(p, answer) == [proc EXCEPT ![p].step = "settle", ![p].answer = answer]

\* the message or its picture cannot be built: nothing reaches Telegram
BuildFails(p) ==
  /\ proc[p].step = "send" /\ proc[p].at # "down" /\ Fault
  /\ proc' = Answered(p, "retry")
  /\ UNCHANGED <<fact, job, user, ghosts>>

\* Telegram delivers the message
Reaches(p) ==
  /\ received' = [received EXCEPT ![proc[p].key] = @ + 1]
  /\ since' = IF user.level # "all" THEN [since EXCEPT ![p] = @ \cup InHand(p)] ELSE since

\* Mutant: an unknown outcome is tried again
Lost_Retried(p) == Answered(p, "retry")

\* no answer, or a 5xx: the job is left as the claim wrote it
Lost(p) == [proc EXCEPT ![p].step = "pace", ![p].key = "none"]

\* The send and Telegram's answer.
Send(p) ==
  /\ proc[p].step = "send" /\ proc[p].at # "down"
  /\ \/ \* accepted
        ~user.barred /\ Reaches(p) /\ proc' = Answered(p, "delivered") /\ UNCHANGED mailFaults
     \/ \* accepted, the answer lost
        ~user.barred /\ Fault /\ Reaches(p) /\ proc' = Lost(p)
     \/ \* never arrived, or a 5xx
        Fault /\ proc' = Lost(p) /\ UNCHANGED <<received, since>>
     \/ \* 403
        user.barred /\ proc' = Answered(p, "refused") /\ UNCHANGED <<received, since, mailFaults>>
     \/ \* 429, or another refusal of this call
        Fault /\ proc' \in {Answered(p, "deferred"), Answered(p, "retry")}
        /\ UNCHANGED <<received, since>>
  /\ UNCHANGED <<fact, job, user, dropped, begun>>

Spent(k) == job[k].attempts + 1

Retried(k) ==
  [NoJob EXCEPT !.status = IF Spent(k) >= MaxAttempts THEN "failed" ELSE "pending",
                !.waits = TRUE, !.attempts = Spent(k)]

\* settleMailingJob: only the row the claim marked
Settled(k, answer) ==
  IF job[k].status # "sent" \/ ~job[k].unknown THEN job[k]
  ELSE CASE answer = "delivered" -> [job[k] EXCEPT !.unknown = FALSE]
         [] answer = "refused" -> [NoJob EXCEPT !.status = "failed", !.attempts = Spent(k)]
         [] answer = "deferred" ->
              [NoJob EXCEPT !.status = "pending", !.waits = TRUE, !.attempts = job[k].attempts]
         [] answer = "retry" -> Retried(k)

\* a 403 is recorded next; a 429 ends the batch
AfterSettle(p) ==
  CASE proc[p].answer = "refused" -> {"mark"}
    [] proc[p].answer = "deferred" -> {"idle"}
    [] OTHER -> NextJob

\* a settle that fails leaves the row as it is; what the answer asks of the sender still happens
Settle(p) ==
  /\ proc[p].step = "settle" /\ proc[p].at # "down"
  /\ \/ /\ job' = [job EXCEPT ![proc[p].key] = Settled(proc[p].key, proc[p].answer)]
        /\ UNCHANGED mailFaults
     \/ Fault /\ UNCHANGED job
  /\ \E s \in AfterSettle(p) :
       proc' = [proc EXCEPT ![p].step = s, ![p].answer = "none", ![p].key = "none",
                            ![p].paused = @ \/ proc[p].answer = "deferred"]
  /\ UNCHANGED <<fact, user, ghosts>>

\* cancelPendingNotificationJobs
Canceled(except) ==
  [k \in Keys |-> IF job[k].status = "pending" /\ k \notin except
                    THEN [job[k] EXCEPT !.status = "canceled"] ELSE job[k]]

\* recordTelegramSendFailure: the user is marked; it never throws
Mark(p) ==
  /\ proc[p].step = "mark" /\ proc[p].at # "down"
  /\ \/ ~user.leaving /\ UNCHANGED mailFaults
        /\ user' = [user EXCEPT !.blocked = TRUE] /\ job' = Canceled({})
     \/ Fault /\ UNCHANGED <<user, job>>
  /\ \E s \in NextJob : proc' = [proc EXCEPT ![p].step = s]
  /\ UNCHANGED <<fact, ghosts>>

-----------------------------------------------------------------------------
(* The user *)

\* the level is committed; what reaches the user under it is counted from here
LevelIs(level) ==
  IF level = user.level THEN UNCHANGED <<since, begun>>
  ELSE since' = [p \in Mailers |-> {}] /\ begun' = IF level = "all" THEN {} ELSE Busy

\* setNotificationLevel
SetLevel(level) ==
  /\ level \in {"all", "reduced"} \ {user.level} /\ ~user.leaving /\ Fault
  /\ user' = [user EXCEPT !.level = level]
  /\ LevelIs(level)
  /\ UNCHANGED <<fact, job, proc, received, dropped>>

\* `off` first holds the user's row and cancels what is pending but the important kinds;
\* a planner or a claim still reads the level before it.
TurnOff ==
  /\ ~user.leaving /\ Fault
  /\ user' = [user EXCEPT !.leaving = TRUE]
  /\ job' = Canceled(Important)
  /\ dropped' = dropped \cup {k \in Ordinary : job[k].status = "pending"}
  /\ UNCHANGED <<fact, proc, received, since, begun>>

OffCommits ==
  /\ user.leaving
  /\ user' = [user EXCEPT !.level = "off", !.leaving = FALSE]
  /\ LevelIs("off")
  /\ UNCHANGED <<fact, job, proc, received, dropped, mailFaults>>

\* the user bars the bot, or lets it in again; Telegram tells the bot
Bar ==
  /\ Len(user.news) < 2 /\ Fault
  /\ user' = [user EXCEPT !.barred = ~@,
                          !.news = Append(@, IF user.barred THEN "member" ELSE "kicked")]
  /\ UNCHANGED <<fact, job, proc, ghosts>>

\* POST /users/chat-member: markTelegramBlocked, markTelegramReachable
ChatMember ==
  /\ user.news # <<>> /\ ~user.leaving
  /\ user' = [user EXCEPT !.blocked = Head(user.news) = "kicked", !.news = Tail(@)]
  /\ job' = IF Head(user.news) = "kicked" THEN Canceled({}) ELSE job
  /\ UNCHANGED <<fact, proc, ghosts, mailFaults>>

\* an update the bot could not record
NewsLost ==
  /\ user.news # <<>> /\ Fault
  /\ user' = [user EXCEPT !.news = Tail(@)]
  /\ UNCHANGED <<fact, job, proc, ghosts>>

\* /start, /settings: the upsert clears the mark; a user who barred the bot cannot write
Writes ==
  /\ ~user.barred /\ user.blocked /\ ~user.leaving
  /\ user' = [user EXCEPT !.blocked = FALSE]
  /\ UNCHANGED <<fact, job, proc, ghosts, mailFaults>>

-----------------------------------------------------------------------------
(* Time and processes *)

\* a retry's or a deferral's delay, Telegram's pause, the day of `reduced`
DueAgain(k) ==
  /\ job[k].status = "pending" /\ job[k].waits
  /\ job' = [job EXCEPT ![k].waits = FALSE]
  /\ UNCHANGED <<fact, user, proc, ghosts, mailFaults>>

PauseEnds(p) ==
  /\ proc[p].paused
  /\ proc' = [proc EXCEPT ![p].paused = FALSE]
  /\ UNCHANGED <<fact, job, user, ghosts, mailFaults>>

\* a send takes seconds, the window a day
WindowPasses(k) ==
  /\ job[k].status = "sent" /\ job[k].fresh /\ \A p \in Mailers : proc[p].key # k
  /\ job' = [job EXCEPT ![k].fresh = FALSE]
  /\ UNCHANGED <<fact, user, proc, ghosts, mailFaults>>

\* stop() waits for the pass and for the sender's step
Stop(p) ==
  /\ Up(p) /\ Fault
  /\ proc' = [proc EXCEPT ![p].at = "stopping"]
  /\ UNCHANGED <<fact, job, user, ghosts>>

Stopped(p) ==
  /\ proc[p].at = "stopping" /\ proc[p].pass = 0 /\ proc[p].step = "idle"
  /\ proc' = [proc EXCEPT ![p] = [IdleMailer EXCEPT !.at = "down"]]
  /\ UNCHANGED <<fact, job, user, ghosts, mailFaults>>

Crash(p) ==
  /\ proc[p].at # "down" /\ Fault
  /\ proc' = [proc EXCEPT ![p] = [IdleMailer EXCEPT !.at = "down"]]
  /\ UNCHANGED <<fact, job, user, ghosts>>

\* a pass at start()
Restart(p) ==
  /\ proc[p].at = "down"
  /\ proc' = [proc EXCEPT ![p] = [IdleMailer EXCEPT !.pass = 1]]
  /\ UNCHANGED <<fact, job, user, ghosts, mailFaults>>

Planner(p) == PassStarts(p) \/ PlanKind(p) \/ PlanFails(p)
Sender(p) ==
  \/ TickStarts(p) \/ Paced(p) \/ ClaimReads(p) \/ Claim(p) \/ ClaimFails(p)
  \/ BuildFails(p) \/ Send(p) \/ Settle(p) \/ Mark(p) \/ PauseEnds(p)

MailingNext ==
  \/ \E p \in Mailers :
       Planner(p) \/ Sender(p) \/ Stop(p) \/ Stopped(p) \/ Crash(p) \/ Restart(p)
  \/ \E k \in Keys :
       FactTurns(k) \/ DueAgain(k) \/ WindowPasses(k) \/ \E p \in Mailers : FactHolds(k, p)
  \/ \E level \in {"all", "reduced"} : SetLevel(level)
  \/ TurnOff \/ OffCommits \/ Bar \/ ChatMember \/ NewsLost \/ Writes

MailingSpec == MailingInit /\ [][MailingNext]_mailingVars

-----------------------------------------------------------------------------
(* Properties *)

MailingTypeOK ==
  /\ fact \in [Keys -> {"none", "holds", "over"}]
  /\ \A k \in Keys :
       /\ job[k].status \in {"none", "pending", "sent", "failed", "canceled"}
       /\ job[k].attempts \in 0..MaxAttempts
       /\ job[k].unknown => job[k].status = "sent"
  /\ \A p \in Mailers :
       /\ proc[p].pass \in 0..Len(Kinds)
       /\ proc[p].step \in {"send", "settle"} <=> proc[p].key # "none"

\* "Nothing is sent twice either way": whatever is lost, refused, replanned or cut by
\* a crash, and beside a second process, a key reaches the user at most once
\* (claimMailingJob marks before the send; MAILING_OUTCOME_UNKNOWN is final).
NeverTwice == \A k \in Keys : received[k] <= 1

\* A job that waits when the user says `off` never goes out, even when the level comes
\* back later (setNotificationLevel cancels it, and its key stays taken).
OffDrops == \A k \in dropped \ Replans : received[k] = 0

\* Once `off` is committed a process delivers an ordinary job only when its claim or its send
\* was under way at that moment, and one only: the risk docs/mailing.md:823-826 accepts ("one
\* message ... never two").  A job that was out and came back refused or deferred is not
\* claimed again.
OffStops ==
  user.level = "off" => \A p \in Mailers :
    /\ since[p] # {} => p \in begun
    /\ \A j, k \in since[p] : j = k

\* A `reduced` user gets one ordinary job within the day, its answer known or not.  A second
\* one comes only from another process, and only when both claims were past their snapshot
\* as the level was set or as the day's first job was claimed: the risk
\* docs/mailing.md:819-822 accepts ("two claims of one `reduced` user at the same instant").
ReducedOnce ==
  user.level = "reduced" => \A p, q \in Mailers : \A j \in since[p], k \in since[q] :
    job[j].fresh /\ job[k].fresh /\ j # k => p # q /\ {p, q} \subseteq begun

\* Nothing is claimed or sent while the process waits as long as Telegram asked it to.
PauseHolds ==
  \A p \in Mailers : proc[p].paused => proc[p].step \notin {"pace", "claim", "lock", "send"}

\* No job reaches its user twice, what `off` dropped stays dropped, `off` and `reduced` are kept
\* but for the claims under way, and so is a pause of Telegram.
MailingSafe == MailingTypeOK /\ NeverTwice /\ OffDrops /\ OffStops /\ ReducedOnce /\ PauseHolds

=============================================================================
