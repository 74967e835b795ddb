------------------------- MODULE DepositModeSwitch --------------------------
(***************************************************************************)
(* The switch to real trading after a deposit.  A pass of each backend       *)
(* process lists the attributed deposits with no outcome and attempts them   *)
(* one by one; an attempt reads the deposit, then locks the users row and    *)
(* decides, writes and commits under it.  In between the user sets the mode, *)
(* starts and stops sessions, and another process attempts the same deposit. *)
(***************************************************************************)
EXTENDS Naturals, FiniteSets

CONSTANTS
  SwitchUsers, SwitchAccounts,
  Owner,            \* the user of an account
  SwitchDeposits,   \* verified ones, 1..n in the order of created_at
  AccountOf,        \* the account of a deposit
  Processes,
  DemoOnly,         \* the processes started with DEMO_ONLY
  ScanLimit,        \* DEPOSIT_MODE_SWITCH_SCAN_LIMIT
  MaxSets,          \* bound: mode changes by users
  MaxThrows,        \* bound: attempts that throw, processes that restart
  MaxEvents         \* bound: users blocked, accounts revoked

SwitchAssumption ==
  /\ Owner \in [SwitchAccounts -> SwitchUsers]
  /\ SwitchDeposits \subseteq Nat \ {0} /\ IsFiniteSet(SwitchDeposits)
  /\ AccountOf \in [SwitchDeposits -> SwitchAccounts]
  /\ DemoOnly \subseteq Processes
  /\ ScanLimit \in Nat \ {0}
  /\ MaxSets \in Nat /\ MaxThrows \in Nat /\ MaxEvents \in Nat

Modes == {"demo", "real"}
Outcomes ==
  {"switched", "already_real", "user_blocked", "account_inactive", "demo_only", "superseded"}

VARIABLES
  mode, switchBlocked, \* users
  active,           \* the accounts with status active
  session,          \* the mode of an account's active session, or "none"
  attributed,       \* deposits with a user
  outcome,          \* deposit_events.mode_switch, or "none"
  pass,             \* a process's tick: its candidates left and the deposit it has read
  heldBack,         \* per process: deposits held back after a throw
  sets, throws, events

switchVars ==
  <<mode, switchBlocked, active, session, attributed, outcome, pass, heldBack, sets, throws, events>>

Idle == [left |-> {}, read |-> 0]

UserOf(d) == Owner[AccountOf[d]]
Running(u) == \E a \in SwitchAccounts : Owner[a] = u /\ session[a] # "none"
Waiting(d) == d \in attributed /\ outcome[d] = "none"

SwitchInit ==
  /\ mode = [u \in SwitchUsers |-> "demo"]
  /\ switchBlocked = {}
  /\ active = SwitchAccounts
  /\ session = [a \in SwitchAccounts |-> "none"]
  /\ attributed = {}
  /\ outcome = [d \in SwitchDeposits |-> "none"]
  /\ pass = [p \in Processes |-> Idle]
  /\ heldBack = [p \in Processes |-> {}]
  /\ sets = 0 /\ throws = 0 /\ events = 0

-----------------------------------------------------------------------------
(* The user                                                                 *)

\* markUserDepositModeSwitches
Superseded(u) == {d \in SwitchDeposits : UserOf(d) = u /\ Waiting(d)}

\* setTradingMode, a change: the mode, the sessions, the waiting deposits.  DEMO_ONLY refuses real.
SetMode(u, m) ==
  /\ mode[u] # m /\ sets < MaxSets
  /\ m = "real" => Processes # DemoOnly
  /\ mode' = [mode EXCEPT ![u] = m]
  /\ session' = [a \in SwitchAccounts |-> IF Owner[a] = u THEN "none" ELSE session[a]]
  /\ outcome' = [d \in SwitchDeposits |-> IF d \in Superseded(u) THEN "superseded" ELSE outcome[d]]
  /\ sets' = sets + 1
  /\ UNCHANGED <<switchBlocked, active, attributed, pass, heldBack, throws, events>>

\* createTradingSession, with the users row held: one active session an account.
StartSession(a) ==
  LET u == Owner[a] IN
  /\ u \notin switchBlocked /\ a \in active /\ session[a] = "none"
  /\ mode[u] = "real" => Processes # DemoOnly
  /\ session' = [session EXCEPT ![a] = mode[u]]
  /\ UNCHANGED <<mode, switchBlocked, active, attributed, outcome, pass, heldBack, sets, throws,
                 events>>

\* stopTradingSession, stopUserSessions, stopExpiredSessions: the CAS on active, no users lock.
StopSession(a) ==
  /\ session[a] # "none"
  /\ session' = [session EXCEPT ![a] = "none"]
  /\ UNCHANGED <<mode, switchBlocked, active, attributed, outcome, pass, heldBack, sets, throws,
                 events>>

BlockOwner(u) ==
  /\ u \notin switchBlocked /\ events < MaxEvents
  /\ switchBlocked' = switchBlocked \cup {u} /\ events' = events + 1
  /\ UNCHANGED <<mode, active, session, attributed, outcome, pass, heldBack, sets, throws>>

\* revokeAccount: the sessions stay, their next decision stops them.
RevokeOwned(a) ==
  /\ a \in active /\ events < MaxEvents
  /\ active' = active \ {a} /\ events' = events + 1
  /\ UNCHANGED <<mode, switchBlocked, session, attributed, outcome, pass, heldBack, sets, throws>>

\* recordPostback with an owner, attachDepositsToAccount
Attribute(d) ==
  /\ d \notin attributed
  /\ attributed' = attributed \cup {d}
  /\ UNCHANGED <<mode, switchBlocked, active, session, outcome, pass, heldBack, sets, throws,
                 events>>

-----------------------------------------------------------------------------
(* The pass                                                                 *)

\* listDepositsAwaitingModeSwitch: the oldest of those that wait.
Candidates ==
  {d \in SwitchDeposits :
     /\ Waiting(d)
     /\ Cardinality({e \in SwitchDeposits : Waiting(e) /\ e < d}) < ScanLimit}

StartTick(p) ==
  /\ pass[p] = Idle /\ Candidates # {}
  /\ pass' = [pass EXCEPT ![p].left = Candidates]
  /\ UNCHANGED <<mode, switchBlocked, active, session, attributed, outcome, heldBack, sets, throws,
                 events>>

\* The pass has no deposit in hand; d is the next it takes.
AtCandidate(p, d) ==
  /\ pass[p].read = 0
  /\ d \in pass[p].left
  /\ \A e \in pass[p].left : d <= e

SkipHeld(p, d) ==
  /\ AtCandidate(p, d) /\ d \in heldBack[p]
  /\ pass' = [pass EXCEPT ![p].left = @ \ {d}]
  /\ UNCHANGED <<mode, switchBlocked, active, session, attributed, outcome, heldBack, sets, throws,
                 events>>

\* switchTradingModeOnDeposit with DEMO_ONLY: the row alone, no lock.
CloseDemoOnly(p, d) ==
  /\ AtCandidate(p, d) /\ p \in DemoOnly
  /\ outcome' = IF outcome[d] = "none" THEN [outcome EXCEPT ![d] = "demo_only"] ELSE outcome
  /\ pass' = [pass EXCEPT ![p].left = @ \ {d}]
  /\ UNCHANGED <<mode, switchBlocked, active, session, attributed, heldBack, sets, throws, events>>

\* The transaction reads the deposit; one with an outcome is gone.
ReadDeposit(p, d) ==
  /\ AtCandidate(p, d) /\ p \notin DemoOnly /\ d \notin heldBack[p]
  /\ pass' = [pass EXCEPT ![p] = [left |-> @.left \ {d}, read |-> IF Waiting(d) THEN d ELSE 0]]
  /\ UNCHANGED <<mode, switchBlocked, active, session, attributed, outcome, heldBack, sets, throws,
                 events>>

SessionActive(u) == Running(u)

\* What the attempt reads under the users lock, in the order it reads it.
Verdict(d) ==
  LET u == UserOf(d) IN
  IF u \in switchBlocked THEN "user_blocked"
  ELSE IF mode[u] = "real" THEN "already_real"
  ELSE IF AccountOf[d] \notin active THEN "account_inactive"
  ELSE IF SessionActive(u) THEN "session_active"
  ELSE "switched"

\* Mutant: the outcome is written over the one another writer left.
Unmarked_Any(d) == TRUE

\* markDepositModeSwitch: only where mode_switch is null; otherwise the attempt rolls back.
Unmarked(d) == outcome[d] = "none"

DecideSwitch(p) ==
  LET d == pass[p].read
      v == Verdict(d)
      writes == v # "session_active" /\ Unmarked(d)
  IN
  /\ d # 0
  /\ outcome' = IF writes THEN [outcome EXCEPT ![d] = v] ELSE outcome
  /\ mode' = IF writes /\ v = "switched" THEN [mode EXCEPT ![UserOf(d)] = "real"] ELSE mode
  /\ pass' = [pass EXCEPT ![p].read = 0]
  /\ UNCHANGED <<switchBlocked, active, session, attributed, heldBack, sets, throws, events>>

\* The attempt throws before its commit: the candidate is held back, in memory.
Throw(p) ==
  /\ pass[p].read # 0 /\ throws < MaxThrows
  /\ heldBack' = [heldBack EXCEPT ![p] = @ \cup {pass[p].read}]
  /\ pass' = [pass EXCEPT ![p].read = 0]
  /\ throws' = throws + 1
  /\ UNCHANGED <<mode, switchBlocked, active, session, attributed, outcome, sets, events>>

\* DEPOSIT_MODE_SWITCH_RETRY_MS later
HoldEnds(p) ==
  /\ heldBack[p] # {}
  /\ heldBack' = [heldBack EXCEPT ![p] = {}]
  /\ UNCHANGED <<mode, switchBlocked, active, session, attributed, outcome, pass, sets, throws,
                 events>>

\* The process ends between two transactions, or inside one that rolls back, and starts again.
Restart(p) ==
  /\ pass[p] # Idle /\ throws < MaxThrows
  /\ pass' = [pass EXCEPT ![p] = Idle]
  /\ heldBack' = [heldBack EXCEPT ![p] = {}]
  /\ throws' = throws + 1
  /\ UNCHANGED <<mode, switchBlocked, active, session, attributed, outcome, sets, events>>

SwitchNext ==
  \/ \E u \in SwitchUsers : BlockOwner(u) \/ \E m \in Modes : SetMode(u, m)
  \/ \E a \in SwitchAccounts : StartSession(a) \/ StopSession(a) \/ RevokeOwned(a)
  \/ \E d \in SwitchDeposits : Attribute(d)
  \/ \E p \in Processes :
       \/ StartTick(p) \/ DecideSwitch(p) \/ Throw(p) \/ HoldEnds(p) \/ Restart(p)
       \/ \E d \in SwitchDeposits : SkipHeld(p, d) \/ CloseDemoOnly(p, d) \/ ReadDeposit(p, d)

SwitchSpec == SwitchInit /\ [][SwitchNext]_switchVars

-----------------------------------------------------------------------------
SwitchTypeOK ==
  /\ mode \in [SwitchUsers -> Modes] /\ session \in [SwitchAccounts -> Modes \cup {"none"}]
  /\ outcome \in [SwitchDeposits -> Outcomes \cup {"none"}]
  /\ \A p \in Processes : pass[p].read \in {0} \cup attributed /\ pass[p].left \subseteq attributed
  /\ \A d \in SwitchDeposits : outcome[d] # "none" => d \in attributed

\* A session runs in the mode of its user, whoever changed it and when
\* (trading-session-ops.ts:123-125, user-ops.ts:360-362).
SessionRunsInMode == \A a \in SwitchAccounts : session[a] \in {"none", mode[Owner[a]]}

\* One payment switches the mode at most once and a decision stands: an outcome is never written
\* over (deposit-mode-switch-ops.ts:8-10).
OutcomeStands ==
  [][\A d \in SwitchDeposits : outcome[d] # "none" => outcome'[d] = outcome[d]]_switchVars

\* A mode changes either for exactly one deposit, from demo to real and under no session, or by
\* the user, who leaves no session and no waiting deposit behind (user-ops.ts:321-325).
ModeChangesForAReason ==
  [][\A u \in SwitchUsers : mode'[u] # mode[u] =>
       LET mine == {d \in SwitchDeposits : UserOf(d) = u}
           fell == {d \in mine : outcome[d] = "none" /\ outcome'[d] = "switched"}
       IN  \/ mode'[u] = "real" /\ Cardinality(fell) = 1 /\ ~Running(u)
           \/ /\ \A a \in SwitchAccounts : Owner[a] = u => session'[a] = "none"
              /\ \A d \in mine \cap attributed : outcome'[d] # "none"]_switchVars

\* A session runs in its user's mode, a deposit's outcome stands, and a mode changes for one deposit
\* without a session or by its user, whatever the processes, users and blocks do in between.
SwitchSafe ==
  []SwitchTypeOK /\ []SessionRunsInMode /\ OutcomeStands /\ ModeChangesForAReason

=============================================================================
