------------------------------ MODULE StaffLogin ------------------------------
(***************************************************************************)
(* The transactions of one staff member's logins and sessions: the password, *)
(* the code and the link that become sessions, the requests under them, and  *)
(* the three changes that invalidate everything issued before.  Statements    *)
(* run under READ COMMITTED: an UPDATE picks its rows from the committed      *)
(* state it starts in, waits for each row another transaction holds, and      *)
(* looks at that row once more; a joined row is not looked at again.          *)
(***************************************************************************)
EXTENDS Naturals, FiniteSets

CONSTANTS
  Connections,                    \* connections of the backend, the staff bot and the CLI
  Challenges, Links, Sessions,    \* ids: staff_login_challenges, staff_login_links, staff_sessions
  Begun,                          \* the rows that exist at the start
  Ops,                            \* the transactions of a run
  MaxEpoch                        \* bound: invalidations

Ids == Challenges \cup Links \cup Sessions

AllOps == {"login", "wrong", "press", "deny", "complete", "issue", "follow", "request", "logout",
           "revoke", "change", "disable", "reset"}

NoId == "no id"

ASSUME StaffAssumption ==
  /\ MaxEpoch \in Nat /\ Ops \subseteq AllOps /\ Begun \subseteq Ids
  /\ Challenges \cap Links = {} /\ Challenges \cap Sessions = {} /\ Links \cap Sessions = {}
  /\ NoId \notin Ids

VARIABLES
  staff,      \* the row: active, locked, the password, and (ghost) the number of invalidations
  row,        \* the committed rows: status, (ghost) the epoch and the id they come from
  overdue,    \* the rows whose expires_at has passed
  tx          \* each connection's transaction

staffVars == <<staff, row, overdue, tx>>

Unused == [status |-> "unused", epoch |-> 0, from |-> NoId]
NoTx == [op |-> "none", id |-> NoId, at |-> "idle", seen |-> 0, active |-> FALSE, past |-> {},
         todo |-> {}, staff |-> FALSE, own |-> [i \in {} |-> Unused]]

Open == {"pending", "confirmed", "sent"}

FirstStatus(i) ==
  CASE i \in Sessions -> "live" [] i \in Links -> "issued" [] i \in Challenges -> "pending"

StaffInit ==
  /\ staff = [active |-> TRUE, locked |-> FALSE, password |-> 0, epoch |-> 0]
  /\ row = [i \in Ids |-> IF i \in Begun THEN [Unused EXCEPT !.status = FirstStatus(i)] ELSE Unused]
  /\ overdue = {}
  /\ tx = [p \in Connections |-> NoTx]

-----------------------------------------------------------------------------
(* Rows, locks and statements                                              *)

\* The row as the transaction of p sees it: its own writes over the committed ones.
Sees(p, i) == IF i \in DOMAIN tx[p].own THEN tx[p].own[i] ELSE row[i]

Holders(p, i) == {q \in Connections \ {p} : i \in DOMAIN tx[q].own}
StaffHolders(p) == {q \in Connections \ {p} : tx[q].staff}

\* The transaction of p after it wrote (and so locked) row i.
Wrote(p, i, r) ==
  [tx[p] EXCEPT !.own = [j \in DOMAIN tx[p].own \cup {i} |-> IF j = i THEN r ELSE tx[p].own[j]]]

Set(t, p) == tx' = [tx EXCEPT ![p] = t]

\* now() is the start of the transaction: what is overdue by it stays as it is for its statements.
BeginTx(p, op, i, at) ==
  /\ tx[p].at = "idle" /\ op \in Ops
  /\ Set([NoTx EXCEPT !.op = op, !.id = i, !.at = at, !.seen = staff.password,
                      !.active = staff.active, !.past = overdue], p)
  /\ UNCHANGED <<staff, row, overdue>>

Publish(p, own) == row' = [i \in Ids |-> IF i \in DOMAIN own THEN own[i] ELSE row[i]]

Commit(p) == Publish(p, tx[p].own) /\ Set(NoTx, p) /\ UNCHANGED <<staff, overdue>>

\* A refusal, an error or a lost connection.
Rollback(p) ==
  /\ tx[p].at # "idle"
  /\ Set(NoTx, p) /\ UNCHANGED <<staff, row, overdue>>

\* FOR NO KEY UPDATE on the staff row, and the snapshot of the next statement.
LockStaff(p, next) ==
  /\ StaffHolders(p) = {}
  /\ Set([tx[p] EXCEPT !.staff = TRUE, !.active = staff.active, !.at = next], p)
  /\ UNCHANGED <<staff, row, overdue>>

\* An UPDATE of several rows starts.
Statement(p, rows, next) ==
  /\ Set([tx[p] EXCEPT !.todo = rows, !.at = next], p)
  /\ UNCHANGED <<staff, row, overdue>>

\* It takes one of them: the row is written if it still matches once it is free.
Take(p, from, status) ==
  \E i \in tx[p].todo :
    /\ Holders(p, i) = {}
    /\ LET r == Sees(p, i)
           t == IF r.status \in from THEN Wrote(p, i, [r EXCEPT !.status = status]) ELSE tx[p]
       IN Set([t EXCEPT !.todo = @ \ {i}], p)
    /\ UNCHANGED <<staff, row, overdue>>

Fresh(ids) ==
  {i \in ids : row[i].status = "unused" /\ \A q \in Connections : i \notin DOMAIN tx[q].own}

-----------------------------------------------------------------------------
(* The password                                                            *)

\* findStaffForLogin, then the derivation: the hash it ran against is tx.seen.
BeginLogin(p) == staff.active /\ ~staff.locked /\ BeginTx(p, "login", NoId, "derived")

StillVerified(p) ==
  staff.password = tx[p].seen /\ staff.active /\ ~staff.locked

\* startLoginChallenge: its transaction begins after the derivation.
StartLogin(p) ==
  /\ tx[p].op = "login" /\ tx[p].at = "derived"
  /\ Set([tx[p] EXCEPT !.past = overdue, !.at = "claim"], p)
  /\ UNCHANGED <<staff, row, overdue>>

\* The CAS on the staff row, its lock held to the end.
ClaimStaff(p) ==
  /\ tx[p].at = "claim" /\ StaffHolders(p) = {} /\ StillVerified(p)
  /\ Set([tx[p] EXCEPT !.staff = TRUE, !.at = "expire",
            !.todo = {c \in tx[p].past \cap Challenges : row[c].status \in Open}], p)
  /\ UNCHANGED <<staff, row, overdue>>

ExpireOne(p) ==
  tx[p].at = "expire" /\ Take(p, Open, "closed")

OpenChallenges(p) == {c \in Challenges : Sees(p, c).status \in Open}

\* The open challenge is used again; otherwise a new one.  The lockout is cleared either way.
OpenChallenge(p) ==
  /\ tx[p].at = "expire" /\ tx[p].todo = {}
  /\ IF OpenChallenges(p) # {} THEN Publish(p, tx[p].own)
     ELSE \E c \in Fresh(Challenges) :
            Publish(p, Wrote(p, c, [status |-> "pending", epoch |-> staff.epoch,
                                    from |-> NoId]).own)
  /\ staff' = [staff EXCEPT !.locked = FALSE]
  /\ Set(NoTx, p) /\ UNCHANGED overdue

\* countPasswordFailure: one UPDATE under the same conditions; the fifth failure locks the account.
CountFailure(p) ==
  /\ staff.active /\ ~staff.locked /\ StaffHolders(p) = {} /\ tx[p].at = "idle" /\ "wrong" \in Ops
  /\ staff' = [staff EXCEPT !.locked = TRUE]
  /\ UNCHANGED <<row, overdue, tx>>

LockoutEnds ==
  /\ staff.locked
  /\ staff' = [staff EXCEPT !.locked = FALSE] /\ UNCHANGED <<row, overdue, tx>>

-----------------------------------------------------------------------------
(* The code and the link                                                   *)

\* A CAS of one row joined with staff: the join is of the statement's snapshot (tx.active).
Cas(p, from) ==
  /\ Holders(p, tx[p].id) = {}
  /\ tx[p].active /\ tx[p].id \notin tx[p].past
  /\ row[tx[p].id].status \in from

\* confirmChallengeFromTelegram while no code arrived, and markChallengeCodeSent.
Press(p) ==
  /\ tx[p].op = "press" /\ Cas(p, {"pending", "confirmed"})
  /\ \E s \in {"confirmed", "sent"} :
       Publish(p, Wrote(p, tx[p].id, [row[tx[p].id] EXCEPT !.status = s]).own)
  /\ Set(NoTx, p) /\ UNCHANGED <<staff, overdue>>

\* denyChallengeFromTelegram.
Deny(p) ==
  /\ tx[p].op = "deny" /\ Cas(p, Open)
  /\ Publish(p, Wrote(p, tx[p].id, [row[tx[p].id] EXCEPT !.status = "closed"]).own)
  /\ Set(NoTx, p) /\ UNCHANGED <<staff, overdue>>

Spendable(p, from) == Cas(p, from)

\* completeLogin with the right code, completeLinkLogin: the row is spent, the session follows
\* in the same transaction.
Spend(p) ==
  /\ tx[p].at = "begun"
  /\ \/ tx[p].op = "complete" /\ Spendable(p, {"sent"})
     \/ tx[p].op = "follow" /\ Spendable(p, {"issued"})
  /\ Set([Wrote(p, tx[p].id, [row[tx[p].id] EXCEPT !.status = "spent"]) EXCEPT !.at = "spent"], p)
  /\ UNCHANGED <<staff, row, overdue>>

\* The last wrong code.
Exhaust(p) ==
  /\ tx[p].op = "complete" /\ tx[p].at = "begun" /\ Cas(p, {"sent"})
  /\ Publish(p, Wrote(p, tx[p].id, [row[tx[p].id] EXCEPT !.status = "closed"]).own)
  /\ Set(NoTx, p) /\ UNCHANGED <<staff, overdue>>

InsertSession(p) ==
  /\ tx[p].at = "spent"
  /\ \E s \in Fresh(Sessions) :
       Publish(p, Wrote(p, s, [status |-> "live", epoch |-> row[tx[p].id].epoch,
                               from |-> tx[p].id]).own)
  /\ Set(NoTx, p) /\ UNCHANGED <<staff, overdue>>

\* issueLoginLink: a lockout does not close this path, the limit of links may (Rollback).
ClaimOwner(p) ==
  /\ tx[p].op = "issue" /\ tx[p].at = "begun" /\ staff.active /\ StaffHolders(p) = {}
  /\ Set([tx[p] EXCEPT !.staff = TRUE, !.at = "supersede",
            !.todo = {l \in Links : row[l].status = "issued"}], p)
  /\ UNCHANGED <<staff, row, overdue>>

SupersedeOne(p) ==
  tx[p].at = "supersede" /\ Take(p, {"issued"}, "closed")

InsertLink(p) ==
  /\ tx[p].at = "supersede" /\ tx[p].todo = {}
  /\ \E l \in Fresh(Links) :
       Publish(p, Wrote(p, l, [status |-> "issued", epoch |-> staff.epoch, from |-> NoId]).own)
  /\ Set(NoTx, p) /\ UNCHANGED <<staff, overdue>>

-----------------------------------------------------------------------------
(* Requests under a session                                                *)

TakesStaff(op) == op \in {"revoke", "change"}

\* runAsStaff({lockStaff}).
Own(p) ==
  /\ tx[p].op \in {"revoke", "change"} /\ tx[p].at = "begun" /\ TakesStaff(tx[p].op)
  /\ LockStaff(p, "owned")

\* The touch: the session is live, and its row is held to the end.
Touch(p) ==
  /\ tx[p].op \in {"request", "logout", "revoke", "change"}
  /\ tx[p].at = IF TakesStaff(tx[p].op) THEN "owned" ELSE "begun"
  /\ Cas(p, {"live"})
  /\ Set([Wrote(p, tx[p].id, row[tx[p].id]) EXCEPT !.at = "touched"], p)
  /\ UNCHANGED <<staff, row, overdue>>

Answer(p) == tx[p].op = "request" /\ tx[p].at = "touched" /\ Commit(p)

\* endStaffSession.
LogOut(p) ==
  /\ tx[p].op = "logout" /\ tx[p].at = "touched"
  /\ Publish(p, Wrote(p, tx[p].id, [Sees(p, tx[p].id) EXCEPT !.status = "revoked"]).own)
  /\ Set(NoTx, p) /\ UNCHANGED <<staff, overdue>>

\* revokeStaffSession: another session of the list, while it is live.
BeginRevoke(p) ==
  /\ tx[p].op = "revoke" /\ tx[p].at = "touched"
  /\ \E s \in Sessions : row[s].status = "live" /\ s \notin tx[p].past
                       /\ Statement(p, {s}, "revoke")

RevokeOne(p) == tx[p].at = "revoke" /\ Take(p, {"live"}, "revoked")

EndRevoke(p) == tx[p].at = "revoke" /\ tx[p].todo = {} /\ Commit(p)

-----------------------------------------------------------------------------
(* The changes that invalidate                                             *)

\* disableStaffAccount, resetStaffPassword.
BeginCli(p) ==
  /\ tx[p].op \in {"disable", "reset"} /\ tx[p].at = "begun" /\ staff.epoch < MaxEpoch
  /\ LockStaff(p, "changed")

\* applyStaffPasswordChange: the CAS on the hash the derivation verified.
ChangePassword(p) ==
  /\ tx[p].op = "change" /\ tx[p].at = "touched" /\ StaffHolders(p) = {}
  /\ StillVerified(p) /\ staff.epoch < MaxEpoch
  /\ Set([tx[p] EXCEPT !.staff = TRUE, !.at = "changed"], p)
  /\ UNCHANGED <<staff, row, overdue>>

\* Mutant: the links stay issued.
CloseLinks_None(p) ==
  tx[p].at = "challenges" /\ tx[p].todo = {} /\ Statement(p, {}, "links")

\* invalidateIssued: the challenges, then the links, then the sessions.
CloseChallenges(p) ==
  /\ tx[p].at = "changed"
  /\ Statement(p, {c \in Challenges : row[c].status \in Open}, "challenges")

CloseLinks(p) ==
  /\ tx[p].at = "challenges" /\ tx[p].todo = {}
  /\ Statement(p, {l \in Links : row[l].status = "issued"}, "links")

RevokeSessions(p) ==
  /\ tx[p].at = "links" /\ tx[p].todo = {}
  /\ Statement(p, {s \in Sessions : /\ row[s].status = "live" /\ s \notin tx[p].past
                                    /\ (tx[p].op = "change" => s # tx[p].id)}, "sessions")

InvalidateOne(p) ==
  \/ tx[p].at = "challenges" /\ Take(p, Open, "closed")
  \/ tx[p].at = "links" /\ Take(p, {"issued"}, "closed")
  \/ tx[p].at = "sessions" /\ Take(p, {"live"}, "revoked")

\* The session that made the change goes on, under the new epoch.
CommitInvalidation(p) ==
  /\ tx[p].at = "sessions" /\ tx[p].todo = {}
  /\ staff' = [active |-> tx[p].op # "disable" /\ staff.active,
               locked |-> tx[p].op = "disable" /\ staff.locked,
               password |-> IF tx[p].op = "disable" THEN staff.password ELSE staff.epoch + 1,
               epoch |-> staff.epoch + 1]
  /\ Publish(p, [i \in DOMAIN tx[p].own |->
                   IF tx[p].op = "change" /\ i = tx[p].id
                   THEN [tx[p].own[i] EXCEPT !.epoch = staff.epoch + 1] ELSE tx[p].own[i]])
  /\ Set(NoTx, p) /\ UNCHANGED overdue

-----------------------------------------------------------------------------
TimeRunsOut(i) ==
  /\ row[i].status \in Open \cup {"issued", "live"} /\ i \notin overdue
  /\ overdue' = overdue \cup {i} /\ UNCHANGED <<staff, row, tx>>

\* A request arrives for a row that looks right in the committed state.
BeginAny(p) ==
  \/ BeginLogin(p)
  \/ \E c \in Challenges :
       row[c].status \in {"pending", "confirmed"} /\ BeginTx(p, "press", c, "begun")
  \/ \E c \in Challenges : row[c].status \in Open /\ BeginTx(p, "deny", c, "begun")
  \/ \E c \in Challenges : row[c].status = "sent" /\ BeginTx(p, "complete", c, "begun")
  \/ \E l \in Links : row[l].status = "issued" /\ BeginTx(p, "follow", l, "begun")
  \/ BeginTx(p, "issue", NoId, "begun")
  \/ \E s \in Sessions, op \in {"request", "logout", "revoke", "change"} :
       row[s].status = "live" /\ BeginTx(p, op, s, "begun")
  \/ \E op \in {"disable", "reset"} : BeginTx(p, op, NoId, "begun")

StaffNext ==
  \/ \E p \in Connections :
       \/ BeginAny(p) \/ Rollback(p)
       \/ StartLogin(p) \/ ClaimStaff(p) \/ ExpireOne(p) \/ OpenChallenge(p) \/ CountFailure(p)
       \/ Press(p) \/ Deny(p) \/ Spend(p) \/ Exhaust(p) \/ InsertSession(p)
       \/ ClaimOwner(p) \/ SupersedeOne(p) \/ InsertLink(p)
       \/ Own(p) \/ Touch(p) \/ Answer(p) \/ LogOut(p)
       \/ BeginRevoke(p) \/ RevokeOne(p) \/ EndRevoke(p)
       \/ BeginCli(p) \/ ChangePassword(p) \/ CloseChallenges(p) \/ CloseLinks(p)
       \/ RevokeSessions(p) \/ InvalidateOne(p) \/ CommitInvalidation(p)
  \/ LockoutEnds
  \/ \E i \in Ids : TimeRunsOut(i)

StaffSpec == StaffInit /\ [][StaffNext]_staffVars

-----------------------------------------------------------------------------
\* One transaction holds a row at a time, and only rows of the tables it writes.
StaffTypeOK ==
  /\ staff \in [active : BOOLEAN, locked : BOOLEAN, password : 0..MaxEpoch, epoch : 0..MaxEpoch]
  /\ \A i \in Ids : row[i].epoch <= staff.epoch
  /\ overdue \subseteq Ids
  /\ \A p, q \in Connections : p # q =>
       /\ DOMAIN tx[p].own \cap DOMAIN tx[q].own = {} /\ ~(tx[p].staff /\ tx[q].staff)

\* Nothing issued under credentials that were changed or disabled still works: no session, no open
\* challenge, no link, however its login raced the change (staff-ops.ts:1161).
NothingOutlivesChange ==
  /\ \A s \in Sessions \ overdue : row[s].status = "live" => row[s].epoch = staff.epoch
  /\ \A i \in Challenges \cup Links :
       row[i].status \in Open \cup {"issued"} => row[i].epoch = staff.epoch

\* A code or a link becomes one session at most, whatever requests carry it (staff-ops.ts:703,
\* staff-link-ops.ts:228).
OneSessionPerLogin ==
  \A s, t \in Sessions : s # t /\ row[s].from # NoId => row[s].from # row[t].from

\* While a request does its work its session is live and its credentials are the current ones: a
\* revoke or a disable is committed before the touch or after the answer (staff-ops.ts:882).
WorkIsUnderLiveSession ==
  \A p \in Connections : tx[p].at = "touched" /\ tx[p].id \notin overdue =>
    row[tx[p].id].status = "live" /\ row[tx[p].id].epoch = staff.epoch

\* A lockout ends with its time or with new credentials, never by a password that was right
\* before it began (staff-ops.ts:352).
LockoutStands ==
  [][staff.locked /\ ~staff'.locked =>
       \/ LockoutEnds
       \/ \E p \in Connections : tx[p].op = "reset" /\ staff'.epoch > staff.epoch]_staffVars

\* p is about to lock the staff row.
WantsStaff(p) ==
  \/ tx[p].at = "claim"
  \/ tx[p].at = "begun" /\ tx[p].op \in {"issue", "revoke", "change", "disable", "reset"}
  \/ tx[p].at = "touched" /\ tx[p].op = "change"

\* The rows p is about to lock.
Wants(p) ==
  CASE tx[p].at \in {"expire", "supersede", "revoke", "challenges", "links", "sessions"} ->
         tx[p].todo
    [] tx[p].at \in {"begun", "owned"} /\ ~WantsStaff(p) -> {tx[p].id} \ {NoId}
    [] OTHER -> {}

\* Who p waits for.
WaitsFor(p) ==
  (UNION {Holders(p, i) : i \in Wants(p)}) \cup {q \in StaffHolders(p) : WantsStaff(p)}

\* No set of these transactions waits for itself (staff-ops.ts:1161, staff-ops.ts:891).
StaffNoWaitCycle ==
  \A S \in SUBSET Connections : S # {} => \E p \in S : WaitsFor(p) \cap S = {}

\* Nothing outlives a change of the credentials, a login becomes one session, requests work under
\* a live one, a lockout stands, and the transactions never wait in a circle.
StaffSafe ==
  /\ [](StaffTypeOK /\ NothingOutlivesChange /\ OneSessionPerLogin /\ WorkIsUnderLiveSession
        /\ StaffNoWaitCycle)
  /\ LockoutStands

=============================================================================
