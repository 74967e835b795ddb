---------------------------- MODULE TokenService ----------------------------
(***************************************************************************)
(* One broker account's token pair and the callers that ask for its access  *)
(* token: the fast read without a lock, the flight under the row lock, the   *)
(* exchange at the broker, and the second transaction when the pair is lost. *)
(*                                                                         *)
(* A refresh token is single-use: the broker rotates the pair and answers    *)
(* invalid_grant to the old one.  Pairs are numbered as they are issued.     *)
(* A step between two awaits is an action; a transaction's writes are kept   *)
(* in the caller until its COMMIT, while other processes read the old row.   *)
(***************************************************************************)
EXTENDS Naturals, FiniteSets

CONSTANTS
  Callers, Procs, NoCaller,
  ProcOf,          \* the backend process of a caller
  PolicyOf,        \* AccessTokenOptions of a caller
  KeyOf,           \* the encryption key a process holds
  LegacyRow,       \* the row was linked before the hash column existed
  ServiceRow,      \* service_since is set
  MaxPairs,        \* bound: pairs the broker issues
  MaxFaults,       \* bound: failed commits, failed second transactions, crashes
  MaxEdits         \* bound: logins, blocks

VARIABLES
  row,        \* broker_accounts: what the token service reads and writes
  blocked,    \* users.status = blocked
  lock,       \* who holds the row FOR NO KEY UPDATE
  flight,     \* the flight of the account in each process
  call,       \* what each caller is doing and what it remembers
  issued,     \* pairs the broker issued so far
  spent,      \* refresh tokens the broker consumed
  replayed,   \* a spent refresh token was presented
  excused,    \* a pair was lost where no code could record it
  faults, edits

vars == <<row, blocked, lock, flight, call, issued, spent, replayed, excused, faults, edits>>

Pairs    == 1..MaxPairs
Ages     == {"valid", "due", "expired"}   \* due: inside renewAheadMs, outside the skew
Reasons  == {"none", "storage_inconsistent", "refresh_expired", "refresh_invalid_grant",
             "refresh_outcome_unknown"}
Results  == {"none", "ok", "threw", "user_blocked", "account_pending", "account_revoked",
             "not_service", "key_unavailable", "refresh_needed", "refresh_rate_limited"}
Policies == [mayRefresh : BOOLEAN, refuses : BOOLEAN, serviceOnly : BOOLEAN]
Rows     == [status : {"pending", "active", "revoked"}, reason : Reasons, pair : Pairs,
             hash : 0..MaxPairs, access : Ages, aged : BOOLEAN, intact : BOOLEAN,
             key : {KeyOf[p] : p \in Procs}]

TokenAssumption ==
  /\ NoCaller \notin Callers
  /\ ProcOf \in [Callers -> Procs]
  /\ PolicyOf \in [Callers -> Policies]
  /\ Procs \subseteq DOMAIN KeyOf
  /\ MaxPairs \in Nat \ {0} /\ MaxFaults \in Nat /\ MaxEdits \in Nat
  /\ {LegacyRow, ServiceRow} \subseteq BOOLEAN

NoCall == [pc |-> "idle", refused |-> 0, read |-> 0, held |-> 0, hash |-> 0, tx |-> {},
           exchanged |-> FALSE, late |-> FALSE, relinked |-> FALSE, result |-> "none", pair |-> 0,
           fast |-> FALSE]

Init ==
  /\ row \in {[status |-> s, reason |-> "none", pair |-> 1,
               hash |-> IF LegacyRow THEN 0 ELSE 1, access |-> "valid", aged |-> FALSE,
               intact |-> i, key |-> KeyOf[p]]
              : s \in {"pending", "active"}, i \in BOOLEAN, p \in Procs}
  /\ blocked = FALSE
  /\ lock = NoCaller
  /\ flight = [p \in Procs |-> NoCaller]
  /\ call = [c \in Callers |-> NoCall]
  /\ issued = 1
  /\ spent = {}
  /\ replayed = FALSE
  /\ excused = FALSE
  /\ faults = 0
  /\ edits = 0

Fault == faults < MaxFaults /\ faults' = faults + 1
Edit  == edits < MaxEdits /\ edits' = edits + 1

brokerVars == <<issued, spent, replayed>>

-----------------------------------------------------------------------------
(* What a read of the row says                                              *)

NotService(c) ==
  PolicyOf[c].mayRefresh /\ PolicyOf[c].serviceOnly /\ ~ServiceRow

\* renewAheadOf: the keeper's is a day, everyone else's the skew.
Fresh(c, r) ==
  \/ r.access = "valid"
  \/ r.access = "due" /\ ~(PolicyOf[c].mayRefresh /\ PolicyOf[c].serviceOnly)

\* readStoredToken: a hit, or anything else is decided under the lock.
FastHit(c) ==
  /\ ~blocked
  /\ row.status = "active"
  /\ ~NotService(c)
  /\ row.key = KeyOf[ProcOf[c]]
  /\ row.hash = row.pair
  /\ row.intact
  /\ Fresh(c, row)

Goes(c, pc) == call' = [call EXCEPT ![c].pc = pc]

\* A caller comes; when it reports a refused token, which one.
Begin(c) ==
  /\ call[c].pc = "idle"
  /\ \E n \in IF PolicyOf[c].refuses THEN 1..issued ELSE {0} :
       call' = [call EXCEPT ![c] = [NoCall EXCEPT !.pc = "start", !.refused = n,
                                                  !.late = blocked]]
  /\ UNCHANGED <<row, blocked, lock, flight, brokerVars, excused, faults, edits>>

\* The loop's head: no flight of the process, or wait for it.  A report goes to the lock.
EnsureFreshAccessToken(c) ==
  LET p == ProcOf[c] IN
  /\ call[c].pc = "start"
  /\ flight[p] = NoCaller
  /\ IF PolicyOf[c].refuses
     THEN Goes(c, "locking") /\ flight' = [flight EXCEPT ![p] = c]
     ELSE Goes(c, "reading") /\ UNCHANGED flight
  /\ UNCHANGED <<row, blocked, lock, brokerVars, excused, faults, edits>>

\* The one statement of the fast path runs at the database.
ReadStoredToken(c) ==
  /\ call[c].pc = "reading"
  /\ call' = [call EXCEPT ![c].pc = "read", ![c].read = IF FastHit(c) THEN row.pair ELSE 0]
  /\ UNCHANGED <<row, blocked, lock, flight, brokerVars, excused, faults, edits>>

\* The answer is back: a flight that began meanwhile drops it; a miss becomes the flight.
FastAnswer(c) ==
  LET p == ProcOf[c] IN
  /\ call[c].pc = "read"
  /\ IF flight[p] # NoCaller
     THEN Goes(c, "start") /\ UNCHANGED flight
     ELSE IF call[c].read # 0
     THEN /\ call' = [call EXCEPT ![c].pc = "done", ![c].result = "ok",
                                  ![c].pair = call[c].read, ![c].fast = TRUE]
          /\ UNCHANGED flight
     ELSE Goes(c, "locking") /\ flight' = [flight EXCEPT ![p] = c]
  /\ UNCHANGED <<row, blocked, lock, brokerVars, excused, faults, edits>>

-----------------------------------------------------------------------------
(* The flight: one transaction under the row lock                           *)

\* lockAccountForRefresh, first statement.  late: the block was committed before the grant.
LockAccount(c) ==
  /\ call[c].pc = "locking"
  /\ lock = NoCaller
  /\ lock' = c
  /\ call' = [call EXCEPT ![c].pc = "locked", ![c].late = blocked]
  /\ UNCHANGED <<row, blocked, flight, brokerVars, excused, faults, edits>>

\* The transaction ends here with these writes and this answer.
Ends(c, writes, result, n) ==
  call' = [call EXCEPT ![c].pc = "commit", ![c].tx = writes, ![c].result = result,
                       ![c].pair = n]

RevokedBy(r, reason) == [r EXCEPT !.status = "revoked", !.reason = reason]
Revokes(c, reason)   == Ends(c, {RevokedBy(row, reason)}, "account_revoked", 0)

\* The token must be exchanged: markAccessTokenExpired is in r when it was refused.
NeedsExchange(c, r) ==
  IF ~PolicyOf[c].mayRefresh
  THEN Ends(c, {r}, "refresh_needed", 0)
  ELSE IF r.aged
  THEN Ends(c, {RevokedBy(r, "refresh_expired")}, "account_revoked", 0)
  ELSE call' = [call EXCEPT ![c].pc = "exchange", ![c].tx = {r}, ![c].held = r.pair,
                            ![c].hash = r.hash]

Backfilled(r) == [r EXCEPT !.hash = IF r.hash = 0 THEN r.pair ELSE r.hash]

\* What is decided once the row is locked and the user's status is known.
DecideRow(c, userBlocked) ==
  IF userBlocked THEN Ends(c, {}, "user_blocked", 0)
  ELSE IF row.status = "pending" THEN Ends(c, {}, "account_pending", 0)
  ELSE IF row.status = "revoked" THEN Ends(c, {}, "account_revoked", 0)
  ELSE IF NotService(c) THEN Ends(c, {}, "not_service", 0)
  ELSE IF row.key # KeyOf[ProcOf[c]] THEN Ends(c, {}, "key_unavailable", 0)
  ELSE IF ~row.intact THEN Revokes(c, "storage_inconsistent")
  ELSE IF ~Fresh(c, row) THEN NeedsExchange(c, row)
  ELSE IF call[c].refused = row.pair
  THEN NeedsExchange(c, [row EXCEPT !.access = "expired"])
  ELSE Ends(c, {Backfilled(row)}, "ok", row.pair)

\* refreshUnderLock up to the exchange: the status is a statement of its own.
Decide(c) ==
  /\ call[c].pc = "locked"
  /\ DecideRow(c, blocked)
  /\ UNCHANGED <<row, blocked, lock, flight, brokerVars, excused, faults, edits>>

\* external: the broker handles the refresh token it was sent.
BrokerRotates(c) ==
  /\ call[c].pc = "exchange"
  /\ call[c].held \notin spent
  /\ issued < MaxPairs
  /\ spent' = spent \cup {call[c].held}
  /\ issued' = issued + 1
  /\ \/ call' = [call EXCEPT ![c].pc = "rotated", ![c].pair = issued + 1]
     \/ Goes(c, "unknown")
  /\ UNCHANGED <<row, blocked, lock, flight, replayed, excused, faults, edits>>

BrokerRefuses(c) ==
  /\ call[c].pc = "exchange"
  /\ call[c].held \in spent
  /\ replayed' = TRUE
  /\ Goes(c, "invalid")
  /\ UNCHANGED <<row, blocked, lock, flight, issued, spent, excused, faults, edits>>

BrokerFails(c) ==
  /\ call[c].pc = "exchange"
  /\ \E pc \in {"limited", "unknown"} : Goes(c, pc)
  /\ UNCHANGED <<row, blocked, lock, flight, brokerVars, excused, faults, edits>>

TheRow(c) == CHOOSE r \in call[c].tx : TRUE

\* The exchange was refused or its outcome is unknown.
ExchangeFailed(c) ==
  /\ \/ /\ call[c].pc = "limited"
        /\ Ends(c, call[c].tx, "refresh_rate_limited", 0)
     \/ /\ call[c].pc = "invalid"
        /\ Ends(c, {RevokedBy(TheRow(c), "refresh_invalid_grant")}, "account_revoked", 0)
     \/ /\ call[c].pc = "unknown"
        /\ call' = [call EXCEPT ![c].pc = "commit", ![c].exchanged = TRUE,
                                ![c].tx = {RevokedBy(TheRow(c), "refresh_outcome_unknown")},
                                ![c].result = "account_revoked", ![c].pair = 0]
  /\ UNCHANGED <<row, blocked, lock, flight, brokerVars, excused, faults, edits>>

Rotated(c, r) == [r EXCEPT !.pair = call[c].pair, !.hash = call[c].pair, !.access = "valid",
                           !.aged = FALSE, !.intact = TRUE, !.key = KeyOf[ProcOf[c]]]

\* applyRotatedTokens, then the user's status once more.
ApplyRotatedTokens(c) ==
  /\ call[c].pc = "rotated"
  /\ call' = [call EXCEPT ![c].pc = "commit", ![c].exchanged = TRUE,
                          ![c].tx = {Rotated(c, TheRow(c))},
                          ![c].result = IF blocked THEN "user_blocked" ELSE "ok",
                          ![c].pair = IF blocked THEN 0 ELSE @]
  /\ UNCHANGED <<row, blocked, lock, flight, brokerVars, excused, faults, edits>>

\* runFlight's finally.
Leaves(c) == flight' = [flight EXCEPT ![ProcOf[c]] = NoCaller]

Commit(c) ==
  /\ call[c].pc = "commit"
  /\ row' = IF call[c].tx = {} THEN row ELSE TheRow(c)
  /\ lock' = NoCaller
  /\ Leaves(c)
  /\ call' = [call EXCEPT ![c].pc = "done", ![c].tx = {}]
  /\ UNCHANGED <<blocked, brokerVars, excused, faults, edits>>

\* exchanged: the pair was rotated, or pairMayBeSpent.
PairLost(c) == call[c].exchanged

\* A write or the COMMIT fails: a lost pair is abandoned, the rest throws.  The database may
\* have committed all the same, when only its answer was lost.
CommitFails(c) ==
  /\ call[c].pc = "commit"
  /\ Fault
  /\ lock' = NoCaller
  /\ \/ UNCHANGED row
     \/ call[c].tx # {} /\ row' = TheRow(c)
  /\ IF PairLost(c)
     THEN /\ call' = [call EXCEPT ![c].pc = "abandon", ![c].tx = {}, ![c].pair = 0]
          /\ UNCHANGED flight
     ELSE /\ call' = [call EXCEPT ![c].pc = "done", ![c].tx = {}, ![c].result = "threw",
                                  ![c].pair = 0]
          /\ Leaves(c)
  /\ UNCHANGED <<blocked, brokerVars, excused, edits>>

-----------------------------------------------------------------------------
(* The second transaction                                                   *)

\* Mutant: the row is revoked whatever pair it holds by now.
SameToken_Any(c) == TRUE

\* refresh_token_hash is not distinct from the one the caller held.
SameToken(c) == row.hash = call[c].hash

\* abandonLostPair: revoked, already_revoked and changed.
AbandonLostPair(c) ==
  /\ call[c].pc = "abandon"
  /\ lock = NoCaller
  /\ LET revokes == row.status = "active" /\ SameToken(c)
         gone    == revokes \/ row.status = "revoked"
     IN  /\ row' = IF revokes THEN RevokedBy(row, "refresh_outcome_unknown") ELSE row
         /\ call' = [call EXCEPT ![c].pc = "done",
                                 ![c].result = IF gone THEN "account_revoked" ELSE "threw"]
  /\ Leaves(c)
  /\ UNCHANGED <<blocked, lock, brokerVars, excused, faults, edits>>

AbandonFails(c) ==
  /\ call[c].pc = "abandon"
  /\ Fault
  /\ excused' = TRUE
  /\ call' = [call EXCEPT ![c].pc = "done", ![c].result = "threw"]
  /\ Leaves(c)
  /\ UNCHANGED <<row, blocked, lock, brokerVars, edits>>

\* A process dies with its calls; a pair it had rotated is lost with it.
Crash(p) ==
  LET mine == {c \in Callers : ProcOf[c] = p /\ call[c].pc \notin {"idle", "done"}} IN
  /\ mine # {}
  /\ Fault
  /\ call' = [c \in Callers |-> IF c \in mine THEN [NoCall EXCEPT !.pc = "done",
                                                          !.result = "threw"] ELSE call[c]]
  /\ lock' = IF lock \in mine THEN NoCaller ELSE lock
  /\ flight' = [flight EXCEPT ![p] = NoCaller]
  /\ excused' = (excused \/ \E c \in mine : call[c].held \in spent)
  /\ UNCHANGED <<row, blocked, brokerVars, edits>>

-----------------------------------------------------------------------------
(* Everybody else                                                           *)

\* The clock: the access token comes due and expires, the refresh token ages.
TimePasses ==
  /\ lock = NoCaller
  /\ \/ row.access = "valid" /\ row' = [row EXCEPT !.access = "due"]
     \/ row.access = "due" /\ row' = [row EXCEPT !.access = "expired"]
     \/ row.access = "expired" /\ ~row.aged /\ row' = [row EXCEPT !.aged = TRUE]
  /\ UNCHANGED <<blocked, lock, flight, call, brokerVars, excused, faults, edits>>

\* Nothing under src/ sets a block today; every reader is written for one.
Block ==
  /\ Edit
  /\ ~blocked
  /\ blocked' = TRUE
  /\ UNCHANGED <<row, lock, flight, call, brokerVars, excused, faults>>

\* linkBrokerAccount on an existing row: a new pair, a pending account stays pending.
Relink(p, activate) ==
  /\ Edit
  /\ ~blocked
  /\ lock = NoCaller
  /\ issued < MaxPairs
  /\ issued' = issued + 1
  /\ row' = [status |-> IF ~activate /\ row.status = "pending" THEN "pending" ELSE "active",
             reason |-> "none", pair |-> issued + 1, hash |-> issued + 1, access |-> "valid",
             aged |-> FALSE, intact |-> TRUE, key |-> KeyOf[p]]
  /\ call' = [c \in Callers |-> IF call[c].held # 0 /\ call[c].pc # "done"
                                THEN [call[c] EXCEPT !.relinked = TRUE] ELSE call[c]]
  /\ UNCHANGED <<blocked, lock, flight, spent, replayed, excused, faults>>

ConfirmBrokerAccount ==
  /\ Edit
  /\ ~blocked
  /\ lock = NoCaller
  /\ row.status = "pending"
  /\ row' = [row EXCEPT !.status = "active"]
  /\ UNCHANGED <<blocked, lock, flight, call, brokerVars, excused, faults>>

Call(c) ==
  \/ EnsureFreshAccessToken(c) \/ ReadStoredToken(c) \/ FastAnswer(c)
  \/ LockAccount(c) \/ Decide(c)
  \/ BrokerRotates(c) \/ BrokerRefuses(c) \/ BrokerFails(c)
  \/ ExchangeFailed(c) \/ ApplyRotatedTokens(c)
  \/ Commit(c) \/ AbandonLostPair(c)

Next ==
  \/ \E c \in Callers : Begin(c) \/ Call(c) \/ CommitFails(c) \/ AbandonFails(c)
  \/ \E p \in Procs : Crash(p)
  \/ TimePasses \/ Block \/ ConfirmBrokerAccount
  \/ \E p \in Procs, activate \in BOOLEAN : Relink(p, activate)

Spec == Init /\ [][Next]_vars

-----------------------------------------------------------------------------
(* Properties                                                               *)

\* Types, and the lock: only the flight of a process holds the row.
TypeOK ==
  /\ row \in Rows
  /\ issued \in Pairs /\ spent \subseteq 1..issued
  /\ lock \in Callers \cup {NoCaller}
  /\ \A c \in Callers : call[c].result \in Results /\ call[c].tx \subseteq Rows
  /\ lock # NoCaller => flight[ProcOf[lock]] = lock

\* A consumed refresh token is presented again only after a process died, or the second
\* transaction failed, with the rotated pair in memory: ExchangedPair and abandonLostPair
\* (token-service.ts:69, :383) cover every other way to lose it.
NoReplay == replayed => excused

\* The pair a login just stored is never revoked for somebody else's exchange: a revocation for
\* a failed exchange finds the very pair that was presented (revokeAccountIfUnchanged).
LoginSurvives ==
  [][\A c \in Callers :
       (/\ row.status = "active" /\ row'.status = "revoked"
        /\ row'.reason \in {"refresh_invalid_grant", "refresh_outcome_unknown"}
        /\ call[c].pc # "done" /\ call'[c].pc = "done")
       => row.pair = call[c].held]_vars

\* A block committed before the lock was granted, or before the call came, is seen: no token is
\* handed out and none is exchanged (oauth-ops.ts:327, #239).
BlockIsSeen ==
  \A c \in Callers : call[c].late => call[c].result # "ok" /\ call[c].pc # "exchange"

\* A fast hit is not the token a flight of the same process is replacing at that moment
\* (token-service.ts:104, S5 and S6).
HitIsNotBeingReplaced ==
  [][\A c, d \in Callers :
       (/\ call[c].pc = "read" /\ call'[c].result = "ok" /\ ProcOf[d] = ProcOf[c]
        /\ call[d].pc \in {"exchange", "rotated", "unknown", "commit"})
       => call'[c].pair # call[d].held]_vars

\* One account's token pair, whatever flights, logins and crashes do to it: no consumed
\* refresh token is presented again, no block is overlooked, a login is not undone by somebody
\* else's failed exchange, no hit is the token being replaced.
TokensSafe ==
  []TypeOK /\ []NoReplay /\ []BlockIsSeen /\ LoginSurvives /\ HitIsNotBeingReplaced

=============================================================================
