------------------------------ MODULE RowsProofs ------------------------------
(***************************************************************************)
(* The transactions that share rows: no set of them waits for itself, for    *)
(* any users, accounts, invitations and processes; nothing issued to a staff *)
(* member outlives the change of the credentials it was issued under; and a  *)
(* mailing's messages reach nobody twice.                                    *)
(***************************************************************************)
EXTENDS LockOrder, StaffLogin, MailingEngine, WellFoundedInduction, TLAPS

-----------------------------------------------------------------------------
(* Every lock that can be waited for lies above the locks its transaction   *)
(* has, in one order of all rows.  The users come first, the newest user    *)
(* first among them.                                                        *)

TablesAfterUsers ==
  {"accounts", "sessions", "intents", "trades", "deposits", "payments", "jobs"}

Place ==
  [table \in TablesAfterUsers |->
     CASE table = "accounts" -> 1
       [] table = "sessions" -> 2
       [] table = "intents" -> 3
       [] table = "trades" -> 4
       [] table \in {"deposits", "payments", "jobs"} -> 5]

\* The order of the rows.
Rank(r) == IF r[1] = "users" THEN Newest - r[2] ELSE Newest + Place[r[1]]

Rows == ({"users"} \X Users) \cup (TablesAfterUsers \X (Users \cup Accounts))

\* The modes each table is locked in.
IsLock(l) ==
  /\ l.row \in Rows /\ l.mode \in {"key share", "share", "no key update", "update"}
  /\ l.mode = "key share" => l.row[1] \in {"users", "accounts"}
  /\ l.mode = "share" => l.row[1] = "accounts"
  /\ l.mode = "update" => l.row[1] \in {"intents", "trades"}

\* Lock i of t makes a lock t has stronger.
Upgrades(t, i) ==
  \E k \in 1..(i - 1) :
    t[k].row = t[i].row /\ t[k].mode \in Exclusive /\ t[i].row[1] \in {"intents", "trades"}

\* l lies above m, or one of them neither waits nor is waited for.
After(m, l) ==
  l.mode = "key share" \/ m.mode = "key share" \/ Rank(m.row) < Rank(l.row)

\* Lock i of t lies above what t has.
InPlace(t, i) ==
  Upgrades(t, i) \/ \A k \in 1..(i - 1) : After(t[k], t[i])

Ordered(t) == \A i \in 1..Len(t) : IsLock(t[i]) /\ InPlace(t, i)

-----------------------------------------------------------------------------
(* The order, on the locks of one transaction                              *)

\* Where the rows of each table lie.
LEMMA Ranks ==
  /\ \A u \in Users : Rank(<<"users", u>>) = Newest - u /\ Newest - u \in 0..Newest
  /\ \A k : /\ Rank(<<"accounts", k>>) = Newest + 1
            /\ Rank(<<"sessions", k>>) = Newest + 2
            /\ Rank(<<"intents", k>>) = Newest + 3
            /\ Rank(<<"trades", k>>) = Newest + 4
            /\ Rank(<<"deposits", k>>) = Newest + 5
            /\ Rank(<<"payments", k>>) = Newest + 5
            /\ Rank(<<"jobs", k>>) = Newest + 5
<1>1. ASSUME NEW u \in Users PROVE Rank(<<"users", u>>) = Newest - u /\ Newest - u \in 0..Newest
  BY LockAssumption DEF Rank, Users
<1>2. /\ Place["accounts"] = 1 /\ Place["sessions"] = 2 /\ Place["intents"] = 3
      /\ Place["trades"] = 4 /\ Place["deposits"] = 5 /\ Place["payments"] = 5 /\ Place["jobs"] = 5
  BY DEF Place, TablesAfterUsers
<1>3. ASSUME NEW k, NEW table \in TablesAfterUsers
      PROVE  Rank(<<table, k>>) = Newest + Place[table]
  BY DEF Rank, TablesAfterUsers
<1> QED
  BY <1>1, <1>2, <1>3 DEF TablesAfterUsers

\* The rows the transactions lock.
LEMMA RowsOf ==
  /\ \A u \in Users : <<"users", u>> \in Rows
  /\ \A k \in Users \cup Accounts, table \in TablesAfterUsers : <<table, k>> \in Rows
BY DEF Rows

\* A transaction of one lock is in order.
LEMMA OneOrdered ==
  ASSUME NEW l, IsLock(l)
  PROVE  Ordered(<<l>>)
<1> DEFINE t == <<l>>
<1>1. Len(t) = 1 /\ t[1] = l
  OBVIOUS
<1> HIDE DEF t
<1>2. IsLock(t[1]) /\ InPlace(t, 1)
  BY <1>1 DEF InPlace
<1> QED
  BY <1>1, <1>2 DEF Ordered, t

\* The same with two locks.
LEMMA TwoOrdered ==
  ASSUME NEW l, NEW m, IsLock(l), IsLock(m),
         After(l, m)
  PROVE  Ordered(<<l, m>>)
<1> DEFINE t == <<l, m>>
<1>1. Len(t) = 2 /\ t[1] = l /\ t[2] = m
  OBVIOUS
<1> HIDE DEF t
<1>2. IsLock(t[1]) /\ InPlace(t, 1)
  BY <1>1 DEF InPlace
<1>3. IsLock(t[2]) /\ InPlace(t, 2)
  <2>1. \A j \in 1..(2 - 1) : j = 1
    OBVIOUS
  <2> QED
    BY <1>1, <2>1 DEF InPlace
<1> QED
  BY <1>1, <1>2, <1>3 DEF Ordered, t

\* The same with three locks.
LEMMA ThreeOrdered ==
  ASSUME NEW l, NEW m, NEW n, IsLock(l), IsLock(m), IsLock(n),
         After(l, m), After(l, n), After(m, n)
  PROVE  Ordered(<<l, m, n>>)
<1> DEFINE t == <<l, m, n>>
<1>1. Len(t) = 3 /\ t[1] = l /\ t[2] = m /\ t[3] = n
  OBVIOUS
<1> HIDE DEF t
<1>2. IsLock(t[1]) /\ InPlace(t, 1)
  BY <1>1 DEF InPlace
<1>3. IsLock(t[2]) /\ InPlace(t, 2)
  <2>1. \A j \in 1..(2 - 1) : j = 1
    OBVIOUS
  <2> QED
    BY <1>1, <2>1 DEF InPlace
<1>4. IsLock(t[3]) /\ InPlace(t, 3)
  <2>1. \A j \in 1..(3 - 1) : j = 1 \/ j = 2
    OBVIOUS
  <2> QED
    BY <1>1, <2>1 DEF InPlace
<1> QED
  BY <1>1, <1>2, <1>3, <1>4 DEF Ordered, t

\* The same with four locks.
LEMMA FourOrdered ==
  ASSUME NEW l, NEW m, NEW n, NEW o, IsLock(l), IsLock(m), IsLock(n), IsLock(o),
         After(l, m), After(l, n), After(l, o), After(m, n), After(m, o), After(n, o)
  PROVE  Ordered(<<l, m, n, o>>)
<1> DEFINE t == <<l, m, n, o>>
<1>1. Len(t) = 4 /\ t[1] = l /\ t[2] = m /\ t[3] = n /\ t[4] = o
  OBVIOUS
<1> HIDE DEF t
<1>2. IsLock(t[1]) /\ InPlace(t, 1)
  BY <1>1 DEF InPlace
<1>3. IsLock(t[2]) /\ InPlace(t, 2)
  <2>1. \A j \in 1..(2 - 1) : j = 1
    OBVIOUS
  <2> QED
    BY <1>1, <2>1 DEF InPlace
<1>4. IsLock(t[3]) /\ InPlace(t, 3)
  <2>1. \A j \in 1..(3 - 1) : j = 1 \/ j = 2
    OBVIOUS
  <2> QED
    BY <1>1, <2>1 DEF InPlace
<1>5. IsLock(t[4]) /\ InPlace(t, 4)
  <2>1. \A j \in 1..(4 - 1) : j = 1 \/ j = 2 \/ j = 3
    OBVIOUS
  <2> QED
    BY <1>1, <2>1 DEF InPlace
<1> QED
  BY <1>1, <1>2, <1>3, <1>4, <1>5 DEF Ordered, t

-----------------------------------------------------------------------------
(* The transactions                                                        *)

\* What a lock is made of.
LEMMA LockFields ==
  \A table, key :
    /\ NoKeyUpdate(table, key).row = <<table, key>> /\ NoKeyUpdate(table, key).mode = "no key update"
    /\ ForUpdate(table, key).row = <<table, key>> /\ ForUpdate(table, key).mode = "update"
BY DEF NoKeyUpdate, ForUpdate

\* The locks the statements take.
LEMMA Locks ==
  /\ \A u \in Users : IsLock(NoKeyUpdate("users", u)) /\ IsLock(KeyShare("users", u))
  /\ \A k \in Users \cup Accounts :
       /\ \A table \in TablesAfterUsers : IsLock(NoKeyUpdate(table, k))
       /\ IsLock(KeyShare("accounts", k)) /\ IsLock(Share("accounts", k))
       /\ IsLock(ForUpdate("intents", k)) /\ IsLock(ForUpdate("trades", k))
<1>1. ASSUME NEW u \in Users
      PROVE  IsLock(NoKeyUpdate("users", u)) /\ IsLock(KeyShare("users", u))
  BY RowsOf DEF IsLock, NoKeyUpdate, KeyShare
<1>2. ASSUME NEW k \in Users \cup Accounts, NEW table \in TablesAfterUsers
      PROVE  IsLock(NoKeyUpdate(table, k))
  BY RowsOf DEF IsLock, NoKeyUpdate
<1>3. "accounts" \in TablesAfterUsers /\ "intents" \in TablesAfterUsers /\ "trades" \in TablesAfterUsers
  BY DEF TablesAfterUsers
<1>4. ASSUME NEW k \in Users \cup Accounts
      PROVE  /\ IsLock(KeyShare("accounts", k)) /\ IsLock(Share("accounts", k))
             /\ IsLock(ForUpdate("intents", k)) /\ IsLock(ForUpdate("trades", k))
  <2>1. <<"accounts", k>> \in Rows /\ <<"intents", k>> \in Rows /\ <<"trades", k>> \in Rows
    BY <1>3, RowsOf
  <2> QED
    BY <2>1 DEF IsLock, KeyShare, Share, ForUpdate
<1> QED
  BY <1>1, <1>2, <1>4

\* What may be taken after what.
LEMMA Afters ==
  ASSUME NEW u \in Users, NEW k, NEW j
  PROVE  /\ \A table \in TablesAfterUsers : 
              /\ After(NoKeyUpdate("users", u), NoKeyUpdate(table, k))
              /\ After(NoKeyUpdate("users", u), ForUpdate(table, k))
         /\ \A m, n \in TablesAfterUsers :
              Place[m] < Place[n] =>
                /\ After(NoKeyUpdate(m, k), NoKeyUpdate(n, j))
                /\ After(NoKeyUpdate(m, k), ForUpdate(n, j))
                /\ After(ForUpdate(m, k), ForUpdate(n, j))
                /\ After(Share(m, k), NoKeyUpdate(n, j))
         /\ \A l, m : After(l, KeyShare(m, k)) /\ After(KeyShare(m, k), l)
<1>1. Newest - u \in 0..Newest /\ Newest \in Nat /\ Rank(<<"users", u>>) = Newest - u
  BY Ranks, LockAssumption
<1>2. \A table \in TablesAfterUsers : \A i : Rank(<<table, i>>) = Newest + Place[table]
  BY DEF Rank, TablesAfterUsers
<1>3. \A table \in TablesAfterUsers : Place[table] \in 1..5
  BY DEF Place, TablesAfterUsers
<1> QED
  BY <1>1, <1>2, <1>3 DEF After, NoKeyUpdate, ForUpdate, Share, KeyShare

\* The numbers of the tables.
LEMMA Places ==
  /\ TablesAfterUsers = {"accounts", "sessions", "intents", "trades", "deposits", "payments", "jobs"}
  /\ Place["accounts"] = 1 /\ Place["sessions"] = 2 /\ Place["intents"] = 3
  /\ Place["trades"] = 4 /\ Place["deposits"] = 5 /\ Place["payments"] = 5 /\ Place["jobs"] = 5
BY DEF Place, TablesAfterUsers

\* The one that locks rows again, for what its first statements have already.
LEMMA ConcludeOrdered == ASSUME NEW a \in Accounts PROVE Ordered(ConcludeReconciled(a))
<1> DEFINE u == OwnerOf[a]
           c == ConcludeReconciled(a)
<1>1. /\ Len(c) = 6 /\ c[1] = NoKeyUpdate("users", u) /\ c[2] = NoKeyUpdate("intents", a)
      /\ c[3] = NoKeyUpdate("trades", a) /\ c[4] = KeyShare("accounts", a)
      /\ c[5] = ForUpdate("intents", a) /\ c[6] = ForUpdate("trades", a)
  BY DEF ConcludeReconciled
<1>2. u \in Users /\ a \in Users \cup Accounts
  BY LockAssumption
<1> HIDE DEF c, u
<1>3. \A i \in 1..6 : IsLock(c[i])
  <2>1. \A i \in 1..6 : i = 1 \/ i = 2 \/ i = 3 \/ i = 4 \/ i = 5 \/ i = 6
    OBVIOUS
  <2> QED
    BY <1>1, <1>2, <2>1, Locks, Places
<1>4. After(c[1], c[2]) /\ After(c[1], c[3]) /\ After(c[2], c[3])
  BY <1>1, <1>2, Afters, Places
<1>5. \A i \in 1..3 : After(c[i], c[4])
  BY <1>1, <1>2, Afters
<1>6. InPlace(c, 1) /\ InPlace(c, 4)
  BY <1>5 DEF InPlace
<1>7. InPlace(c, 2)
  <2>1. \A j \in 1..(2 - 1) : j = 1
    OBVIOUS
  <2> QED
    BY <1>4, <2>1 DEF InPlace
<1>8. InPlace(c, 3)
  <2>1. \A j \in 1..(3 - 1) : j = 1 \/ j = 2
    OBVIOUS
  <2> QED
    BY <1>4, <2>1 DEF InPlace
<1>9. InPlace(c, 5)
  <2>1. 2 \in 1..(5 - 1)
    OBVIOUS
  <2>2. c[2].row = <<"intents", a>> /\ c[2].mode \in Exclusive /\ c[5].row = <<"intents", a>>
    BY ZenonT(60), <1>1, LockFields DEF Exclusive
  <2>3. c[5].row[1] = "intents"
    BY <2>2
  <2> QED
    BY <2>1, <2>2, <2>3 DEF InPlace, Upgrades
<1>10. InPlace(c, 6)
  <2>1. 3 \in 1..(6 - 1)
    OBVIOUS
  <2>2. c[3].row = <<"trades", a>> /\ c[3].mode \in Exclusive /\ c[6].row = <<"trades", a>>
    BY ZenonT(60), <1>1, LockFields DEF Exclusive
  <2>3. c[6].row[1] = "trades"
    BY <2>2
  <2> QED
    BY <2>1, <2>2, <2>3 DEF InPlace, Upgrades
<1>11. \A i \in 1..6 : i = 1 \/ i = 2 \/ i = 3 \/ i = 4 \/ i = 5 \/ i = 6
  OBVIOUS
<1>12. Ordered(c)
  BY <1>1, <1>3, <1>6, <1>7, <1>8, <1>9, <1>10, <1>11 DEF Ordered
<1> QED
  BY <1>12 DEF c

\* The transactions of an account take their locks in the order of the rows.
LEMMA AccountOrdered == ASSUME NEW a \in Accounts, NEW t \in OfAccount(a) PROVE Ordered(t)
<1> DEFINE u == OwnerOf[a]
<1>u. u \in Users /\ a \in Users \cup Accounts
  BY LockAssumption
<1> USE <1>u, Locks, Afters, Places
<1> HIDE DEF u
<1>1. Ordered(CreateIntent(a))
  BY ThreeOrdered DEF CreateIntent, u
<1>2. Ordered(CreateSessionIntent(a))
  BY FourOrdered DEF CreateSessionIntent, u
<1>3. Ordered(Transition(a))
  BY OneOrdered DEF Transition, u
<1>4. Ordered(RejectIntent(a))
  BY TwoOrdered DEF RejectIntent, u
<1>5. Ordered(SettleIntent(a))
  BY ThreeOrdered DEF SettleIntent, u
<1>6. Ordered(AcceptIntent(a))
  BY ThreeOrdered DEF AcceptIntent, u
<1>7. Ordered(HaltAccount(a))
  BY TwoOrdered DEF HaltAccount, u
<1>8. Ordered(CreateSession(a))
  BY ThreeOrdered DEF CreateSession, u
<1>9. Ordered(StopSession(a))
  BY OneOrdered DEF StopSession, u
<1>10. Ordered(SetTradingMode(a))
  BY ThreeOrdered DEF SetTradingMode, u
<1>11. Ordered(SwitchOnDeposit(a))
  BY TwoOrdered DEF SwitchOnDeposit, u
<1>12. Ordered(CloseDeposit(a))
  BY OneOrdered DEF CloseDeposit, u
<1>13. Ordered(RecordPostback(a))
  BY ThreeOrdered DEF RecordPostback, u
<1>14. Ordered(RefreshToken(a))
  BY OneOrdered DEF RefreshToken, u
<1>15. Ordered(ConcludeReconciled(a))
  BY ConcludeOrdered
<1> QED
  BY <1>1, <1>2, <1>3, <1>4, <1>5, <1>6, <1>7, <1>8, <1>9, <1>10, <1>11, <1>12, <1>13, <1>14, <1>15 DEF OfAccount

\* So do the transactions of a user.
LEMMA UserOrdered == ASSUME NEW u \in Users, NEW t \in OfUser(u) PROVE Ordered(t)
<1> USE Locks, Afters, Places
<1>1. Ordered(StarPayment(u))
  BY TwoOrdered DEF StarPayment
<1>2. Ordered(AdjustTokens(u))
  BY OneOrdered DEF AdjustTokens
<1>3. Ordered(CancelMailing(u))
  BY TwoOrdered DEF CancelMailing
<1> QED
  BY <1>1, <1>2, <1>3 DEF OfUser

\* And the links: an invited user is newer than its inviter.
LEMMA LinkOrdered ==
  ASSUME NEW a \in Accounts
  PROVE  /\ \A u \in Users : Ordered(LinkAccount(u, a))
         /\ \A u \in DOMAIN Inviter : Ordered(LinkReferred(u, a))
<1> USE Locks, Afters, Places
<1>1. ASSUME NEW u \in Users PROVE Ordered(LinkAccount(u, a))
  BY ThreeOrdered DEF LinkAccount
<1>2. ASSUME NEW u \in DOMAIN Inviter PROVE Ordered(LinkReferred(u, a))
  <2>1. u \in Users /\ Inviter[u] \in Users /\ Inviter[u] < u
    BY LockAssumption
  <2>2. Newest - u < Newest - Inviter[u]
    BY <2>1, LockAssumption DEF Users
  <2>3. After(NoKeyUpdate("users", u), NoKeyUpdate("users", Inviter[u]))
    BY <2>1, <2>2, Ranks DEF After, NoKeyUpdate
  <2> QED
    BY <2>1, <2>3, FourOrdered DEF LinkReferred
<1> QED
  BY <1>1, <1>2

\* So do all transactions.
LEMMA AllOrdered == \A t \in Transactions \cup {<<>>} : Ordered(t)
<1>1. Ordered(<<>>)
  BY DEF Ordered
<1>2. ASSUME NEW t \in Transactions PROVE Ordered(t)
  <2> DEFINE ByAccounts == {OfAccount(a) : a \in Accounts}
             ByUsers == {OfUser(u) : u \in Users}
             LinkRows == {LinkAccount(u, a) : u \in Users, a \in Accounts}
             Referred == {LinkReferred(u, a) : u \in DOMAIN Inviter, a \in Accounts}
  <2>1. CASE t \in UNION ByAccounts
    BY <2>1, AccountOrdered
  <2>2. CASE t \in UNION ByUsers
    BY <2>2, UserOrdered
  <2>3. CASE t \in LinkRows
    BY <2>3, LinkOrdered
  <2>4. CASE t \in Referred
    BY <2>4, LinkOrdered
  <2>5. t \in (UNION ByAccounts) \cup (UNION ByUsers) \cup LinkRows \cup Referred
    BY DEF Transactions
  <2> HIDE DEF ByAccounts, ByUsers, LinkRows, Referred
  <2> QED
    BY <2>1, <2>2, <2>3, <2>4, <2>5
<1> QED
  BY <1>1, <1>2

\* Every transaction is a sequence.
LEMMA AllSequences == \A t \in Transactions \cup {<<>>} : Len(t) \in Nat
BY DEF Transactions, OfAccount, OfUser, CreateIntent, CreateSessionIntent, Transition, RejectIntent,
   AcceptIntent, SettleIntent, ConcludeReconciled, HaltAccount, CreateSession, StopSession,
   SetTradingMode, SwitchOnDeposit, CloseDeposit, RecordPostback, RefreshToken, StarPayment,
   AdjustTokens, CancelMailing, LinkAccount, LinkReferred

-----------------------------------------------------------------------------
(* The steps                                                               *)

\* Each process is in a transaction and has a prefix of its locks, whatever it waits for: no two
\* have one row for an update (the locks of PostgreSQL, used by trade-intent-ops.ts:132).
THEOREM LocksTyped == Spec => []LocksTypeOK
<1>1. Init => LocksTypeOK
  BY DEF Init, LocksTypeOK, RowsExclusive, Held
<1>2. LocksTypeOK /\ [Next]_vars => LocksTypeOK'
  <2> SUFFICES ASSUME LocksTypeOK, [Next]_vars PROVE LocksTypeOK'
    OBVIOUS
  <2> USE DEF LocksTypeOK
  <2>1. ASSUME NEW p \in Procs, NEW t \in Transactions, Begin(p, t) PROVE LocksTypeOK'
    <3>1. locks' \in [Procs -> Transactions \cup {<<>>}]
      BY <2>1 DEF Begin
    <3>2. taken[p] = 0
      BY <2>1, Len(<<>>) = 0 DEF Begin
    <3>3. \A q \in Procs : taken'[q] <= Len(locks'[q])
      BY <2>1, <3>2, AllSequences DEF Begin
    <3>4. \A q \in Procs : Held(q)' = Held(q)
      BY <2>1, <3>2 DEF Begin, Held
    <3> QED
      BY <2>1, <3>1, <3>3, <3>4 DEF Begin, RowsExclusive
  <2>2. ASSUME NEW p \in Procs, Acquire(p) PROVE LocksTypeOK'
    <3>1. taken' \in [Procs -> Nat] /\ UNCHANGED locks
      BY <2>2 DEF Acquire
    <3>2. \A q \in Procs : taken'[q] <= Len(locks'[q])
      BY <2>2, AllSequences DEF Acquire, Waiting
    <3>3. \A q \in Procs : q # p => Held(q)' = Held(q)
      BY <2>2 DEF Acquire, Held
    <3>4. Held(p)' = Held(p) \cup {Wanted(p)}
      BY <2>2 DEF Acquire, Held, Wanted, Waiting
    <3>5. \A q \in Procs : q # p => \A l \in Held(q) : ~Conflict(l, Wanted(p))
      BY <2>2 DEF Acquire, Blocks
    <3>6. \A l, m : {l.mode, m.mode} \subseteq Exclusive /\ l.row = m.row => Conflict(l, m)
      BY DEF Exclusive, Conflict, ConflictsWith
    <3> QED
      BY SMTT(30), <3>1, <3>2, <3>3, <3>4, <3>5, <3>6 DEF RowsExclusive
  <2>3. ASSUME NEW p \in Procs, End(p) PROVE LocksTypeOK'
    <3>1. locks' \in [Procs -> Transactions \cup {<<>>}] /\ taken' \in [Procs -> Nat]
      BY <2>3 DEF End
    <3>2. \A q \in Procs : taken'[q] <= Len(locks'[q])
      BY <2>3, Len(<<>>) = 0 DEF End
    <3>3. \A q \in Procs : Held(q)' \subseteq Held(q)
      BY <2>3 DEF End, Held
    <3> QED
      BY <3>1, <3>2, <3>3 DEF RowsExclusive
  <2>4. CASE UNCHANGED vars
    BY <2>4 DEF vars, RowsExclusive, Held
  <2> QED
    BY <2>1, <2>2, <2>3, <2>4 DEF Next
<1> QED
  BY <1>1, <1>2, PTL DEF Spec

-----------------------------------------------------------------------------
(* The waits                                                               *)

\* Who waits wants a lock of the order, above those it has or on a row it has for an update.
LEMMA WantedInPlace ==
  ASSUME LocksTypeOK, NEW p \in Procs, Waiting(p)
  PROVE  /\ taken[p] + 1 \in 1..Len(locks[p]) /\ IsLock(Wanted(p)) /\ InPlace(locks[p], taken[p] + 1)
         /\ \A l \in Held(p) : IsLock(l)
<1>1. locks[p] \in Transactions \cup {<<>>} /\ Len(locks[p]) \in Nat /\ taken[p] \in Nat
  BY AllSequences DEF LocksTypeOK
<1>2. taken[p] + 1 \in 1..Len(locks[p]) /\ \A k \in 1..taken[p] : k \in 1..Len(locks[p])
  BY <1>1 DEF Waiting
<1>3. Ordered(locks[p])
  BY <1>1, AllOrdered
<1> QED
  BY <1>2, <1>3 DEF Ordered, Wanted, Held

\* A lock made stronger is never waited for: no other process has a lock of that row.
LEMMA UpgradesDoNotWait ==
  ASSUME LocksTypeOK, NEW p \in Procs, NEW q \in Procs, Waiting(p), Blocks(q, p), Waiting(q)
  PROVE  ~Upgrades(locks[p], taken[p] + 1)
<1> SUFFICES ASSUME Upgrades(locks[p], taken[p] + 1) PROVE FALSE
  OBVIOUS
<1>1. PICK l \in Held(q) : Conflict(l, Wanted(p))
  BY DEF Blocks
<1>2. taken[p] \in Nat
  BY DEF LocksTypeOK
<1>3. PICK k \in 1..taken[p] : /\ locks[p][k].row = Wanted(p).row /\ locks[p][k].mode \in Exclusive
                             /\ Wanted(p).row[1] \in {"intents", "trades"}
  BY <1>2 DEF Upgrades, Wanted
<1>4. locks[p][k] \in Held(p)
  BY <1>3 DEF Held
<1>5. IsLock(l) /\ l.row = Wanted(p).row
  BY <1>1, WantedInPlace DEF Conflict
<1>6. l.mode \in Exclusive
  BY <1>3, <1>5 DEF IsLock, Exclusive
<1> QED
  BY <1>1, <1>3, <1>4, <1>5, <1>6 DEF LocksTypeOK, RowsExclusive, Blocks

\* The locks of a process lie below a lock it waits for.
LEMMA WaitersClimb ==
  ASSUME LocksTypeOK, NEW p \in Procs, NEW q \in Procs, NEW r \in Procs,
         Waiting(p), Waiting(q), Waiting(r), Blocks(q, p), Blocks(r, q)
  PROVE  Rank(Wanted(p).row) < Rank(Wanted(q).row)
<1>1. PICK l \in Held(q) : Conflict(l, Wanted(p))
  BY DEF Blocks
<1>2. PICK k \in 1..taken[q] : l = locks[q][k]
  BY DEF Held
<1>3. taken[q] \in Nat
  BY DEF LocksTypeOK
<1>4. PICK m \in Held(r) : Conflict(m, Wanted(q))
  BY DEF Blocks
<1>5. IsLock(l) /\ IsLock(m) /\ IsLock(Wanted(p)) /\ IsLock(Wanted(q))
  BY <1>1, <1>4, WantedInPlace
<1>6. l.mode # "key share"
  BY <1>1, <1>5 DEF Conflict, ConflictsWith, IsLock
<1>7. Wanted(q).mode # "key share"
  BY <1>4, <1>5 DEF Conflict, ConflictsWith, IsLock
<1>8. After(l, Wanted(q))
  <2>1. InPlace(locks[q], taken[q] + 1) /\ ~Upgrades(locks[q], taken[q] + 1)
    BY WantedInPlace, UpgradesDoNotWait
  <2>2. k \in 1..((taken[q] + 1) - 1)
    BY <1>3
  <2> QED
    BY <1>2, <2>1, <2>2 DEF InPlace, Wanted
<1> QED
  BY <1>1, <1>6, <1>7, <1>8 DEF After, Conflict

\* The order has a last row.
LEMMA RankBounds ==
  ASSUME NEW r \in Rows PROVE Rank(r) \in Int /\ Newest + 5 - Rank(r) \in Nat
<1>1. CASE r \in {"users"} \X Users
  BY <1>1, LockAssumption DEF Rank, Users
<1>2. CASE r \in TablesAfterUsers \X (Users \cup Accounts)
  BY <1>2, LockAssumption DEF Rank, Place, TablesAfterUsers
<1> QED
  BY <1>1, <1>2 DEF Rows

\* The last row anyone of S waits for is not held by a process of S.
LEMMA NobodyWaitsForever == LocksTypeOK => NoWaitCycle
<1> SUFFICES ASSUME LocksTypeOK, NEW S \in SUBSET Procs, S # {},
                    \A p \in S : \E q \in S : Blocks(q, p)
             PROVE  FALSE
  BY DEF NoWaitCycle
<1> DEFINE Height(p) == Newest + 5 - Rank(Wanted(p).row)
           Heights == {Height(p) : p \in S}
<1>1. \A p \in S : Waiting(p)
  BY DEF Blocks
<1>2. \A p \in S : Height(p) \in Nat
  BY <1>1, WantedInPlace, RankBounds DEF IsLock
<1>3. Heights \subseteq Nat /\ Heights # {}
  BY <1>2
<1>4. PICK h \in Heights : \A g \in Heights : ~(<<g, h>> \in OpToRel(<, Nat))
  BY <1>3, NatLessThanWellFounded, WFMin
<1>5. PICK p \in S : h = Height(p)
  BY <1>4
<1>6. PICK q \in S : Blocks(q, p)
  OBVIOUS
<1>7. PICK r \in S : Blocks(r, q)
  OBVIOUS
<1>8. Rank(Wanted(p).row) < Rank(Wanted(q).row)
  BY <1>1, <1>6, <1>7, WaitersClimb
<1>9. Height(q) < Height(p)
  <2>1. Wanted(p).row \in Rows /\ Wanted(q).row \in Rows
    BY <1>1, WantedInPlace DEF IsLock
  <2>2. Rank(Wanted(p).row) \in Int /\ Rank(Wanted(q).row) \in Int
    BY <2>1, RankBounds
  <2> QED
    BY <1>8, <2>2, LockAssumption
<1>10. <<Height(q), h>> \in OpToRel(<, Nat)
  BY <1>2, <1>3, <1>5, <1>9 DEF OpToRel
<1> QED
  BY <1>4, <1>10

\* No set of transactions waits for itself, for any users, accounts, invitations and processes
\* (trade-intent-ops.ts:132, trade-intent-ops.ts:516, referral-reward-ops.ts:31).
THEOREM NoDeadlock == Spec => []NoWaitCycle
BY LocksTyped, NobodyWaitsForever, PTL

-----------------------------------------------------------------------------
(* The staff logins: what holds in every state                             *)

IssuedRows ==
  [status : {"unused", "pending", "confirmed", "sent", "issued", "live", "spent", "closed", "revoked"},
   epoch : 0..MaxEpoch, from : Challenges \cup Links \cup {NoId}]

\* The rows a transaction has written.
Owns == UNION {[D -> IssuedRows] : D \in SUBSET Ids}

Transacts ==
  [op : AllOps \cup {"none"}, id : Ids \cup {NoId},
   at : {"idle", "derived", "claim", "expire", "begun", "spent", "supersede", "owned", "touched",
         "revoke", "changed", "challenges", "links", "sessions"},
   seen : Nat, active : BOOLEAN, past : SUBSET Ids, todo : SUBSET Ids, staff : BOOLEAN, own : Owns]

\* The steps of an invalidation, the staff row held.
Closing == {"changed", "challenges", "links", "sessions"}

\* Which steps each transaction has, and the row it carries.
StagesOK(t) ==
  /\ t.op = "none" <=> t.at = "idle"
  /\ t.op = "login" <=> t.at \in {"derived", "claim", "expire"}
  /\ t.op \in {"wrong", "press", "deny"} => t.at = "begun"
  /\ t.op \in {"complete", "follow"} => t.at \in {"begun", "spent"}
  /\ t.op = "issue" => t.at \in {"begun", "supersede"}
  /\ t.op \in {"request", "logout"} => t.at \in {"begun", "touched"}
  /\ t.op = "revoke" => t.at \in {"begun", "owned", "touched", "revoke"}
  /\ t.op = "change" => t.at \in {"begun", "owned", "touched"} \cup Closing
  /\ t.op \in {"disable", "reset"} => t.at \in {"begun"} \cup Closing

CarriesOK(t) ==
  /\ t.op \in {"press", "deny", "complete"} => t.id \in Challenges
  /\ t.op = "follow" => t.id \in Links
  /\ t.op \in {"request", "logout", "revoke", "change"} => t.id \in Sessions
  /\ t.op \in {"none", "login", "issue", "disable", "reset"} => t.id = NoId

\* What it holds and what it has yet to take.
HoldsOK(t) ==
  /\ t.staff <=> \/ t.at \in {"expire", "supersede", "owned", "revoke"} \cup Closing
                 \/ t.at = "touched" /\ t.op \in {"revoke", "change"}
  /\ t.at \in {"idle", "derived", "claim", "begun", "owned"} => DOMAIN t.own = {}
  /\ t.at \in {"spent", "touched"} => DOMAIN t.own = {t.id}
  /\ t.at = "touched" => t.own[t.id].status = "live"
  /\ t.at = "spent" => t.own[t.id].status = "spent"
  /\ t.at \in Closing => \A i \in DOMAIN t.own :
       t.own[i].status \in {"closed", "revoked"} \/ (t.op = "change" /\ i = t.id)
  /\ t.at \in Closing /\ t.op = "change" => t.id \in DOMAIN t.own /\ t.own[t.id].status = "live"
  /\ \A i \in DOMAIN t.own : t.own[i].status = "spent" => t.at = "spent"
  /\ t.at \in {"expire", "challenges"} => t.todo \subseteq Challenges
  /\ t.at \in {"supersede", "links"} => t.todo \subseteq Links
  /\ t.at \in {"revoke", "sessions"} => t.todo \subseteq Sessions
  /\ t.at = "sessions" /\ t.op = "change" => t.id \notin t.todo

\* What a row may become.
Moves(i, r, o) ==
  /\ o.epoch = r.epoch /\ o.from = r.from
  /\ \/ i \in Challenges /\ r.status \in Open /\ o.status \in {"closed", "spent"}
     \/ i \in Links /\ r.status = "issued" /\ o.status \in {"closed", "spent"}
     \/ i \in Sessions /\ r.status = "live" /\ o.status \in {"live", "revoked"}

WritesOK(t) == \A i \in DOMAIN t.own : Moves(i, row[i], t.own[i])

\* What the lock of the staff row keeps as it was.
KeepsOK(t) ==
  /\ t.past \subseteq overdue
  /\ t.at = "expire" => ~staff.locked
  /\ t.at \in Closing => staff.epoch < MaxEpoch /\ (t.op = "change" => ~staff.locked)

\* An invalidation has, or is about to take, every row that its statements close.
CoversOK(t) ==
  /\ t.at = "challenges" =>
       \A i \in Challenges : row[i].status \in Open => i \in t.todo \cup DOMAIN t.own
  /\ t.at \in {"links", "sessions"} =>
       \A i \in Challenges : row[i].status \in Open => i \in DOMAIN t.own
  /\ t.at = "links" =>
       \A i \in Links : row[i].status = "issued" => i \in t.todo \cup DOMAIN t.own
  /\ t.at = "sessions" =>
       /\ \A i \in Links : row[i].status = "issued" => i \in DOMAIN t.own
       /\ \A i \in Sessions \ overdue : row[i].status = "live" => i \in t.todo \cup DOMAIN t.own

StageOK(t) == t \in Transacts /\ StagesOK(t) /\ CarriesOK(t) /\ HoldsOK(t)
TxOK(t) == StageOK(t) /\ WritesOK(t) /\ KeepsOK(t) /\ CoversOK(t)

StaffRowOK == staff \in [active : BOOLEAN, locked : BOOLEAN, password : 0..MaxEpoch, epoch : 0..MaxEpoch]

\* A row has the states of its table.
IssuedOK ==
  /\ row \in [Ids -> IssuedRows] /\ overdue \subseteq Ids
  /\ \A i \in Ids : row[i].epoch <= staff.epoch
  /\ \A i \in Challenges : row[i].status \in Open \cup {"unused", "spent", "closed"}
  /\ \A i \in Links : row[i].status \in {"unused", "issued", "spent", "closed"}
  /\ \A i \in Sessions : row[i].status \in {"unused", "live", "revoked"}

\* What a session came from is spent.
OriginsOK ==
  /\ \A s \in Sessions : row[s].from # NoId => row[row[s].from].status = "spent"
  /\ OneSessionPerLogin

\* A row, and the staff row, are in one transaction at a time.
LocksOK ==
  \A p, q \in Connections : p # q =>
    DOMAIN tx[p].own \cap DOMAIN tx[q].own = {} /\ ~(tx[p].staff /\ tx[q].staff)

TxsOK == tx \in [Connections -> Transacts] /\ \A p \in Connections : TxOK(tx[p])

StaffInv == StaffRowOK /\ IssuedOK /\ OriginsOK /\ NothingOutlivesChange /\ TxsOK /\ LocksOK

-----------------------------------------------------------------------------
(* The rows of a transaction                                               *)

LEMMA OwnsAre ==
  ASSUME NEW f \in Owns
  PROVE  DOMAIN f \subseteq Ids /\ \A i \in DOMAIN f : f[i] \in IssuedRows
BY DEF Owns

LEMMA OwnsHave ==
  ASSUME NEW D, D \subseteq Ids, NEW f \in [D -> IssuedRows] PROVE f \in Owns
BY DEF Owns

\* One more row written.
LEMMA WroteIs ==
  ASSUME NEW p \in Connections, tx[p] \in Transacts, NEW i \in Ids, NEW r \in IssuedRows
  PROVE  /\ Wrote(p, i, r) = [tx[p] EXCEPT !.own = Wrote(p, i, r).own]
         /\ Wrote(p, i, r).own \in Owns
         /\ DOMAIN Wrote(p, i, r).own = DOMAIN tx[p].own \cup {i}
         /\ Wrote(p, i, r).own[i] = r
         /\ \A j \in DOMAIN tx[p].own \ {i} : Wrote(p, i, r).own[j] = tx[p].own[j]
<1> DEFINE D == DOMAIN tx[p].own \cup {i}
           f == [j \in D |-> IF j = i THEN r ELSE tx[p].own[j]]
<1>1. tx[p].own \in Owns
  BY DEF Transacts
<1>2. D \subseteq Ids /\ f \in [D -> IssuedRows]
  BY <1>1, OwnsAre
<1>3. f \in Owns
  BY <1>2, OwnsHave
<1>4. Wrote(p, i, r).own = f
  BY DEF Wrote, Transacts
<1> HIDE DEF f
<1>5. Wrote(p, i, r) = [tx[p] EXCEPT !.own = f]
  BY DEF Wrote, f
<1> QED
  BY <1>3, <1>4, <1>5 DEF f

-----------------------------------------------------------------------------
(* One transaction moves, and nothing is committed                         *)

LEMMA TxMoves ==
  ASSUME StaffInv, NEW p \in Connections, NEW t, TxOK(t), tx' = [tx EXCEPT ![p] = t],
         \A q \in Connections \ {p} : DOMAIN t.own \cap DOMAIN tx[q].own = {} /\ ~(t.staff /\ tx[q].staff),
         UNCHANGED <<staff, row, overdue>>
  PROVE  StaffInv'
<1>1. t \in Transacts /\ tx \in [Connections -> Transacts]
  BY DEF TxOK, StageOK, StaffInv, TxsOK
<1>2. tx' \in [Connections -> Transacts] /\ tx'[p] = t /\ \A q \in Connections \ {p} : tx'[q] = tx[q]
  BY <1>1
<1>3. \A q \in Connections : TxOK(tx'[q])
  BY <1>2 DEF StaffInv, TxsOK
<1>4. TxsOK'
  BY <1>2, <1>3 DEF TxsOK, TxOK, WritesOK, KeepsOK, CoversOK
<1>5. LocksOK'
  BY <1>2 DEF StaffInv, LocksOK
<1>6. StaffRowOK' /\ IssuedOK' /\ OriginsOK' /\ NothingOutlivesChange'
  BY DEF StaffInv, StaffRowOK, IssuedOK, OriginsOK, OneSessionPerLogin, NothingOutlivesChange
<1> QED
  BY <1>4, <1>5, <1>6 DEF StaffInv

\* A transaction that holds nothing.
LEMMA NothingHeld ==
  ASSUME NEW t, StageOK(t), t.at \in {"idle", "derived", "claim", "begun"}
  PROVE  /\ DOMAIN t.own = {} /\ ~t.staff
         /\ t.past \subseteq overdue => TxOK(t)
BY DEF StageOK, HoldsOK, TxOK, WritesOK, KeepsOK, CoversOK, Closing

LEMMA EmptyOwn == [i \in {} |-> Unused] \in Owns /\ DOMAIN [i \in {} |-> Unused] = {}
<1>1. [i \in {} |-> Unused] \in [{} -> IssuedRows]
  OBVIOUS
<1> QED
  BY <1>1, OwnsHave

LEMMA NoTxOK == TxOK(NoTx) /\ NoTx \in Transacts /\ DOMAIN NoTx.own = {} /\ ~NoTx.staff /\ NoTx.at = "idle"
<1>1. NoTx \in Transacts
  BY EmptyOwn DEF NoTx, Transacts
<1>2. /\ NoTx.at = "idle" /\ NoTx.op = "none" /\ NoTx.id = NoId /\ ~NoTx.staff /\ DOMAIN NoTx.own = {}
      /\ NoTx.past = {}
  BY EmptyOwn DEF NoTx
<1>3. StageOK(NoTx)
  BY <1>1, <1>2 DEF StageOK, StagesOK, CarriesOK, HoldsOK, Closing
<1> QED
  BY <1>1, <1>2, <1>3, NothingHeld

LEMMA RollbackKeeps ==
  ASSUME StaffInv, NEW p \in Connections, Rollback(p) PROVE StaffInv'
BY NoTxOK, TxMoves DEF Rollback, Set

-----------------------------------------------------------------------------
(* The beginnings                                                          *)

\* The rows that fit an operation.
Fits(op, i, at) ==
  \/ op = "login" /\ i = NoId /\ at = "derived"
  \/ op \in {"press", "deny", "complete"} /\ i \in Challenges /\ at = "begun"
  \/ op = "follow" /\ i \in Links /\ at = "begun"
  \/ op \in {"request", "logout", "revoke", "change"} /\ i \in Sessions /\ at = "begun"
  \/ op \in {"issue", "disable", "reset"} /\ i = NoId /\ at = "begun"

LEMMA BeginKeeps ==
  ASSUME StaffInv, NEW p \in Connections, NEW op, NEW i, NEW at, Fits(op, i, at), BeginTx(p, op, i, at)
  PROVE  StaffInv'
<1> DEFINE t == [NoTx EXCEPT !.op = op, !.id = i, !.at = at, !.seen = staff.password,
                             !.active = staff.active, !.past = overdue]
<1>1. /\ op \in AllOps /\ i \in Ids \cup {NoId} /\ at \in {"derived", "begun"}
      /\ staff.password \in Nat /\ staff.active \in BOOLEAN /\ overdue \in SUBSET Ids
  BY StaffAssumption DEF Fits, AllOps, Ids, StaffInv, StaffRowOK, IssuedOK
<1>2. /\ t \in Transacts /\ t.op = op /\ t.id = i /\ t.at = at /\ t.past = overdue
      /\ ~t.staff /\ DOMAIN t.own = {} /\ t.todo = {}
  BY <1>1, NoTxOK DEF Transacts, NoTx
<1> HIDE DEF t
<1>3. StageOK(t)
  BY <1>1, <1>2 DEF StageOK, StagesOK, CarriesOK, HoldsOK, Closing, Fits
<1>4. TxOK(t)
  BY <1>1, <1>2, <1>3, NothingHeld
<1> QED
  BY <1>2, <1>4, TxMoves DEF BeginTx, Set, t

LEMMA BeginAnyKeeps ==
  ASSUME StaffInv, NEW p \in Connections, BeginAny(p) PROVE StaffInv'
<1>1. CASE BeginLogin(p)
  BY <1>1, BeginKeeps DEF BeginLogin, Fits
<1>2. ASSUME NEW c \in Challenges, NEW op \in {"press", "deny", "complete"}, BeginTx(p, op, c, "begun")
      PROVE  StaffInv'
  BY <1>2, BeginKeeps DEF Fits
<1>3. ASSUME NEW l \in Links, BeginTx(p, "follow", l, "begun") PROVE StaffInv'
  BY <1>3, BeginKeeps DEF Fits
<1>4. ASSUME NEW s \in Sessions, NEW op \in {"request", "logout", "revoke", "change"},
             BeginTx(p, op, s, "begun")
      PROVE  StaffInv'
  BY <1>4, BeginKeeps DEF Fits
<1>5. ASSUME NEW op \in {"issue", "disable", "reset"}, BeginTx(p, op, NoId, "begun") PROVE StaffInv'
  BY <1>5, BeginKeeps DEF Fits
<1> QED
  BY <1>1, <1>2, <1>3, <1>4, <1>5 DEF BeginAny

LEMMA StartLoginKeeps ==
  ASSUME StaffInv, NEW p \in Connections, StartLogin(p) PROVE StaffInv'
<1> DEFINE t == [tx[p] EXCEPT !.past = overdue, !.at = "claim"]
<1>1. TxOK(tx[p]) /\ tx[p] \in Transacts /\ overdue \in SUBSET Ids
  BY DEF StaffInv, TxsOK, IssuedOK
<1>2. DOMAIN tx[p].own = {} /\ ~tx[p].staff
  BY <1>1, NothingHeld DEF StartLogin, TxOK
<1>3. /\ t \in Transacts /\ t.op = "login" /\ t.at = "claim" /\ t.id = tx[p].id /\ t.past = overdue
      /\ t.staff = tx[p].staff /\ t.own = tx[p].own
  BY <1>1 DEF StartLogin, Transacts
<1> HIDE DEF t
<1>4. StageOK(t)
  BY <1>1, <1>2, <1>3 DEF StartLogin, TxOK, StageOK, StagesOK, CarriesOK, HoldsOK, Closing
<1>5. TxOK(t)
  BY <1>3, <1>4, NothingHeld
<1> QED
  BY <1>2, <1>3, <1>5, TxMoves DEF StartLogin, Set, t

-----------------------------------------------------------------------------
(* Statements                                                              *)

\* The transaction takes the staff row.
LEMMA StaffIsFree ==
  ASSUME StaffInv, NEW p \in Connections, StaffHolders(p) = {}
  PROVE  \A q \in Connections \ {p} : ~tx[q].staff
BY DEF StaffHolders

\* What a transaction is in every state.
LEMMA TxIs ==
  ASSUME StaffInv, NEW p \in Connections
  PROVE  /\ tx[p] \in Transacts /\ TxOK(tx[p]) /\ tx[p].own \in Owns
         /\ \A q \in Connections \ {p} : DOMAIN tx[p].own \cap DOMAIN tx[q].own = {}
         /\ tx[p].staff => \A q \in Connections \ {p} : ~tx[q].staff
BY DEF StaffInv, TxsOK, LocksOK, Transacts

LEMMA ClaimStaffKeeps ==
  ASSUME StaffInv, NEW p \in Connections, ClaimStaff(p) PROVE StaffInv'
<1> DEFINE T == {c \in tx[p].past \cap Challenges : row[c].status \in Open}
           t == [tx[p] EXCEPT !.staff = TRUE, !.at = "expire", !.todo = T]
<1>1. tx[p] \in Transacts /\ TxOK(tx[p]) /\ T \subseteq Challenges /\ T \in SUBSET Ids
  BY TxIs DEF Ids
<1>2. DOMAIN tx[p].own = {} /\ tx[p].op = "login" /\ tx[p].id = NoId /\ ~staff.locked
  BY <1>1, NothingHeld DEF ClaimStaff, StillVerified, TxOK, StageOK, StagesOK, CarriesOK
<1> HIDE DEF T
<1>3. /\ t \in Transacts /\ t.op = "login" /\ t.at = "expire" /\ t.id = NoId /\ t.past = tx[p].past
      /\ t.staff /\ t.own = tx[p].own /\ t.todo = T
  BY <1>1, <1>2 DEF Transacts
<1> HIDE DEF t
<1>4. StageOK(t)
  BY <1>1, <1>2, <1>3 DEF StageOK, StagesOK, CarriesOK, HoldsOK, Closing
<1>5. TxOK(t)
  BY <1>1, <1>2, <1>3, <1>4 DEF TxOK, WritesOK, KeepsOK, CoversOK, Closing
<1>6. tx' = [tx EXCEPT ![p] = t] /\ UNCHANGED <<staff, row, overdue>>
  BY DEF ClaimStaff, Set, t, T
<1>7. \A q \in Connections \ {p} : DOMAIN t.own \cap DOMAIN tx[q].own = {} /\ ~(t.staff /\ tx[q].staff)
  BY <1>2, <1>3, StaffIsFree DEF ClaimStaff
<1> QED
  BY <1>5, <1>6, <1>7, TxMoves

LEMMA ClaimOwnerKeeps ==
  ASSUME StaffInv, NEW p \in Connections, ClaimOwner(p) PROVE StaffInv'
<1> DEFINE T == {l \in Links : row[l].status = "issued"}
           t == [tx[p] EXCEPT !.staff = TRUE, !.at = "supersede", !.todo = T]
<1>1. tx[p] \in Transacts /\ TxOK(tx[p]) /\ T \subseteq Links /\ T \in SUBSET Ids
  BY TxIs DEF Ids
<1>2. DOMAIN tx[p].own = {} /\ tx[p].id = NoId
  BY <1>1, NothingHeld DEF ClaimOwner, TxOK, StageOK, CarriesOK
<1> HIDE DEF T
<1>3. /\ t \in Transacts /\ t.op = "issue" /\ t.at = "supersede" /\ t.id = NoId /\ t.past = tx[p].past
      /\ t.staff /\ t.own = tx[p].own /\ t.todo = T
  BY <1>1, <1>2 DEF Transacts, ClaimOwner
<1> HIDE DEF t
<1>4. StageOK(t)
  BY <1>1, <1>2, <1>3 DEF StageOK, StagesOK, CarriesOK, HoldsOK, Closing
<1>5. TxOK(t)
  BY <1>1, <1>2, <1>3, <1>4 DEF TxOK, WritesOK, KeepsOK, CoversOK, Closing
<1>6. tx' = [tx EXCEPT ![p] = t] /\ UNCHANGED <<staff, row, overdue>>
  BY DEF ClaimOwner, Set, t, T
<1>7. \A q \in Connections \ {p} : DOMAIN t.own \cap DOMAIN tx[q].own = {} /\ ~(t.staff /\ tx[q].staff)
  BY <1>2, <1>3, StaffIsFree DEF ClaimOwner
<1> QED
  BY <1>5, <1>6, <1>7, TxMoves

LEMMA OwnKeeps ==
  ASSUME StaffInv, NEW p \in Connections, Own(p) PROVE StaffInv'
<1> DEFINE t == [tx[p] EXCEPT !.staff = TRUE, !.active = staff.active, !.at = "owned"]
<1>1. tx[p] \in Transacts /\ TxOK(tx[p]) /\ staff.active \in BOOLEAN
  BY TxIs DEF StaffInv, StaffRowOK
<1>2. DOMAIN tx[p].own = {} /\ tx[p].id \in Sessions
  BY <1>1, NothingHeld DEF Own, TxOK, StageOK, CarriesOK
<1>3. /\ t \in Transacts /\ t.op = tx[p].op /\ t.at = "owned" /\ t.id = tx[p].id /\ t.past = tx[p].past
      /\ t.staff /\ t.own = tx[p].own
  BY <1>1, <1>2 DEF Transacts
<1> HIDE DEF t
<1>4. StageOK(t)
  BY <1>1, <1>2, <1>3 DEF Own, StageOK, StagesOK, CarriesOK, HoldsOK, Closing
<1>5. TxOK(t)
  BY <1>1, <1>2, <1>3, <1>4 DEF TxOK, WritesOK, KeepsOK, CoversOK, Closing
<1>6. tx' = [tx EXCEPT ![p] = t] /\ UNCHANGED <<staff, row, overdue>>
  BY DEF Own, LockStaff, Set, t
<1>7. \A q \in Connections \ {p} : DOMAIN t.own \cap DOMAIN tx[q].own = {} /\ ~(t.staff /\ tx[q].staff)
  BY <1>2, <1>3, StaffIsFree DEF Own, LockStaff
<1> QED
  BY <1>5, <1>6, <1>7, TxMoves

LEMMA BeginCliKeeps ==
  ASSUME StaffInv, NEW p \in Connections, BeginCli(p) PROVE StaffInv'
<1> DEFINE t == [tx[p] EXCEPT !.staff = TRUE, !.active = staff.active, !.at = "changed"]
<1>1. tx[p] \in Transacts /\ TxOK(tx[p]) /\ staff.active \in BOOLEAN
  BY TxIs DEF StaffInv, StaffRowOK
<1>2. DOMAIN tx[p].own = {} /\ tx[p].id = NoId
  BY <1>1, NothingHeld DEF BeginCli, TxOK, StageOK, CarriesOK
<1>3. /\ t \in Transacts /\ t.op = tx[p].op /\ t.at = "changed" /\ t.id = tx[p].id /\ t.past = tx[p].past
      /\ t.staff /\ t.own = tx[p].own
  BY <1>1, <1>2 DEF Transacts
<1> HIDE DEF t
<1>4. StageOK(t)
  BY <1>1, <1>2, <1>3 DEF BeginCli, StageOK, StagesOK, CarriesOK, HoldsOK, Closing
<1>5. TxOK(t)
  BY <1>1, <1>2, <1>3, <1>4 DEF BeginCli, TxOK, WritesOK, KeepsOK, CoversOK, Closing
<1>6. tx' = [tx EXCEPT ![p] = t] /\ UNCHANGED <<staff, row, overdue>>
  BY DEF BeginCli, LockStaff, Set, t
<1>7. \A q \in Connections \ {p} : DOMAIN t.own \cap DOMAIN tx[q].own = {} /\ ~(t.staff /\ tx[q].staff)
  BY <1>2, <1>3, StaffIsFree DEF BeginCli, LockStaff
<1> QED
  BY <1>5, <1>6, <1>7, TxMoves

LEMMA ChangePasswordKeeps ==
  ASSUME StaffInv, NEW p \in Connections, ChangePassword(p) PROVE StaffInv'
<1> DEFINE t == [tx[p] EXCEPT !.staff = TRUE, !.at = "changed"]
<1>1. tx[p] \in Transacts /\ TxOK(tx[p])
  BY TxIs
<1>2. /\ DOMAIN tx[p].own = {tx[p].id} /\ tx[p].id \in Sessions
      /\ tx[p].own[tx[p].id].status = "live" /\ ~staff.locked
  BY <1>1 DEF ChangePassword, StillVerified, TxOK, StageOK, HoldsOK, CarriesOK
<1>3. /\ t \in Transacts /\ t.op = "change" /\ t.at = "changed" /\ t.id = tx[p].id /\ t.past = tx[p].past
      /\ t.staff /\ t.own = tx[p].own
  BY <1>1, <1>2 DEF ChangePassword, Transacts
<1> HIDE DEF t
<1>4. StageOK(t)
  BY <1>1, <1>2, <1>3 DEF StageOK, StagesOK, CarriesOK, HoldsOK, Closing
<1>5. TxOK(t)
  BY <1>1, <1>2, <1>3, <1>4 DEF ChangePassword, TxOK, WritesOK, KeepsOK, CoversOK, Closing
<1>6. tx' = [tx EXCEPT ![p] = t] /\ UNCHANGED <<staff, row, overdue>>
  BY DEF ChangePassword, Set, t
<1>7. \A q \in Connections \ {p} : DOMAIN t.own \cap DOMAIN tx[q].own = {} /\ ~(t.staff /\ tx[q].staff)
  BY <1>3, StaffIsFree, TxIs DEF ChangePassword
<1> QED
  BY <1>5, <1>6, <1>7, TxMoves

\* An update of several rows begins: what it has to take is what covers its table.
LEMMA StatementKeeps ==
  ASSUME StaffInv, NEW p \in Connections, NEW T \in SUBSET Ids,
         NEW at \in {"revoke", "challenges", "links", "sessions"}, Statement(p, T, at),
         tx[p].staff,
         LET t == [tx[p] EXCEPT !.todo = T, !.at = at] IN StageOK(t) /\ KeepsOK(t) /\ CoversOK(t)
  PROVE  StaffInv'
<1> DEFINE t == [tx[p] EXCEPT !.todo = T, !.at = at]
<1>1. tx[p] \in Transacts /\ TxOK(tx[p])
  BY TxIs
<1>2. t.own = tx[p].own /\ t.staff = tx[p].staff
  BY <1>1 DEF Transacts
<1>3. StageOK(t) /\ KeepsOK(t) /\ CoversOK(t)
  OBVIOUS
<1> HIDE DEF t
<1>4. TxOK(t)
  BY <1>1, <1>2, <1>3 DEF TxOK, WritesOK
<1>5. tx' = [tx EXCEPT ![p] = t] /\ UNCHANGED <<staff, row, overdue>>
  BY DEF Statement, Set, t
<1>6. \A q \in Connections \ {p} : DOMAIN t.own \cap DOMAIN tx[q].own = {} /\ ~(t.staff /\ tx[q].staff)
  BY <1>2, TxIs
<1> QED
  BY <1>4, <1>5, <1>6, TxMoves

LEMMA CloseChallengesKeeps ==
  ASSUME StaffInv, NEW p \in Connections, CloseChallenges(p) PROVE StaffInv'
<1> DEFINE T == {c \in Challenges : row[c].status \in Open}
           t == [tx[p] EXCEPT !.todo = T, !.at = "challenges"]
<1>1. tx[p] \in Transacts /\ TxOK(tx[p]) /\ tx[p].at = "changed" /\ T \in SUBSET Ids /\ T \subseteq Challenges
  BY TxIs DEF CloseChallenges, Ids
<1>2. /\ t \in Transacts /\ t.op = tx[p].op /\ t.id = tx[p].id /\ t.at = "challenges" /\ t.todo = T
      /\ t.staff = tx[p].staff /\ t.own = tx[p].own /\ t.past = tx[p].past
  <2> HIDE DEF T
  <2> QED
    BY <1>1 DEF Transacts
<1>3. CoversOK(t)
  <2> HIDE DEF t
  <2> QED
    BY <1>2 DEF CoversOK
<1> HIDE DEF t, T
<1>4. StageOK(t) /\ KeepsOK(t) /\ tx[p].staff
  BY <1>1, <1>2 DEF TxOK, StageOK, StagesOK, CarriesOK, HoldsOK, KeepsOK, Closing
<1> QED
  BY <1>1, <1>3, <1>4, StatementKeeps DEF CloseChallenges, t, T

LEMMA CloseLinksKeeps ==
  ASSUME StaffInv, NEW p \in Connections, CloseLinks(p) PROVE StaffInv'
<1> DEFINE T == {l \in Links : row[l].status = "issued"}
           t == [tx[p] EXCEPT !.todo = T, !.at = "links"]
<1>1. tx[p] \in Transacts /\ TxOK(tx[p]) /\ tx[p].at = "challenges" /\ T \in SUBSET Ids /\ T \subseteq Links
  BY TxIs DEF CloseLinks, Ids
<1>2. /\ t \in Transacts /\ t.op = tx[p].op /\ t.id = tx[p].id /\ t.at = "links" /\ t.todo = T
      /\ t.staff = tx[p].staff /\ t.own = tx[p].own /\ t.past = tx[p].past
  <2> HIDE DEF T
  <2> QED
    BY <1>1 DEF Transacts
<1>3. CoversOK(t)
  <2> HIDE DEF t
  <2> QED
    BY <1>1, <1>2 DEF CoversOK, TxOK, CloseLinks
<1> HIDE DEF t, T
<1>4. StageOK(t) /\ KeepsOK(t) /\ tx[p].staff
  BY <1>1, <1>2 DEF TxOK, StageOK, StagesOK, CarriesOK, HoldsOK, KeepsOK, Closing
<1> QED
  BY <1>1, <1>3, <1>4, StatementKeeps DEF CloseLinks, t, T

LEMMA RevokeSessionsKeeps ==
  ASSUME StaffInv, NEW p \in Connections, RevokeSessions(p) PROVE StaffInv'
<1> DEFINE T == {s \in Sessions : /\ row[s].status = "live" /\ s \notin tx[p].past
                                  /\ (tx[p].op = "change" => s # tx[p].id)}
           t == [tx[p] EXCEPT !.todo = T, !.at = "sessions"]
<1>1. tx[p] \in Transacts /\ TxOK(tx[p]) /\ tx[p].at = "links" /\ T \in SUBSET Ids /\ T \subseteq Sessions
  BY TxIs DEF RevokeSessions, Ids
<1>2. /\ t \in Transacts /\ t.op = tx[p].op /\ t.id = tx[p].id /\ t.at = "sessions" /\ t.todo = T
      /\ t.staff = tx[p].staff /\ t.own = tx[p].own /\ t.past = tx[p].past
  <2> HIDE DEF T
  <2> QED
    BY <1>1 DEF Transacts
<1>3. tx[p].op = "change" => tx[p].id \notin T /\ tx[p].id \in DOMAIN tx[p].own
  BY <1>1 DEF TxOK, StageOK, HoldsOK, Closing
<1>4. \A i \in Sessions \ overdue : row[i].status = "live" => i \in T \cup DOMAIN tx[p].own
  BY <1>1, <1>3 DEF TxOK, KeepsOK
<1> HIDE DEF t, T
<1>5. CoversOK(t)
  BY <1>1, <1>2, <1>4 DEF CoversOK, TxOK, RevokeSessions
<1>6. StageOK(t) /\ KeepsOK(t) /\ tx[p].staff
  BY <1>1, <1>2, <1>3 DEF TxOK, StageOK, StagesOK, CarriesOK, HoldsOK, KeepsOK, Closing
<1> QED
  BY <1>1, <1>5, <1>6, StatementKeeps DEF RevokeSessions, t, T

LEMMA BeginRevokeKeeps ==
  ASSUME StaffInv, NEW p \in Connections, BeginRevoke(p) PROVE StaffInv'
<1>1. PICK s \in Sessions : Statement(p, {s}, "revoke")
  BY DEF BeginRevoke
<1> DEFINE T == {s}
           t == [tx[p] EXCEPT !.todo = T, !.at = "revoke"]
<1>2. tx[p] \in Transacts /\ TxOK(tx[p]) /\ tx[p].at = "touched" /\ T \in SUBSET Ids /\ T \subseteq Sessions
  BY TxIs DEF BeginRevoke, Ids
<1>3. /\ t \in Transacts /\ t.op = tx[p].op /\ t.id = tx[p].id /\ t.at = "revoke" /\ t.todo = T
      /\ t.staff = tx[p].staff /\ t.own = tx[p].own /\ t.past = tx[p].past
  <2> HIDE DEF T
  <2> QED
    BY <1>2 DEF Transacts
<1> HIDE DEF t, T
<1>4. StageOK(t) /\ KeepsOK(t) /\ tx[p].staff
  BY <1>2, <1>3 DEF BeginRevoke, TxOK, StageOK, StagesOK, CarriesOK, HoldsOK, KeepsOK, Closing
<1>5. CoversOK(t)
  BY <1>3 DEF CoversOK
<1> QED
  BY <1>1, <1>2, <1>4, <1>5, StatementKeeps DEF t, T

-----------------------------------------------------------------------------
(* One row is taken                                                        *)

LEMMA RowIsFree ==
  ASSUME StaffInv, NEW p \in Connections, NEW i, Holders(p, i) = {}
  PROVE  \A q \in Connections \ {p} : i \notin DOMAIN tx[q].own
BY DEF Holders

LEMMA TableOf ==
  /\ \A i \in Challenges : i \in Ids /\ i \notin Links /\ i \notin Sessions
  /\ \A i \in Links : i \in Ids /\ i \notin Challenges /\ i \notin Sessions
  /\ \A i \in Sessions : i \in Ids /\ i \notin Challenges /\ i \notin Links
BY StaffAssumption DEF Ids

\* The row with another status.
LEMMA StatusIs ==
  ASSUME NEW r \in IssuedRows,
         NEW status \in {"unused", "pending", "confirmed", "sent", "issued", "live", "spent", "closed",
                         "revoked"}
  PROVE  LET o == [r EXCEPT !.status = status] IN
         o \in IssuedRows /\ o.status = status /\ o.epoch = r.epoch /\ o.from = r.from
BY DEF IssuedRows

LEMMA SpendKeeps ==
  ASSUME StaffInv, NEW p \in Connections, Spend(p) PROVE StaffInv'
<1> DEFINE i == tx[p].id
           r == [row[i] EXCEPT !.status = "spent"]
           w == Wrote(p, i, r)
           t == [w EXCEPT !.at = "spent"]
<1>1. tx[p] \in Transacts /\ TxOK(tx[p])
  BY TxIs
<1>2. /\ tx[p].op \in {"complete", "follow"} /\ tx[p].at = "begun" /\ DOMAIN tx[p].own = {}
      /\ \/ i \in Challenges /\ row[i].status \in Open
         \/ i \in Links /\ row[i].status = "issued"
      /\ Holders(p, i) = {} /\ ~tx[p].staff
  BY <1>1, NothingHeld DEF Spend, Spendable, Cas, TxOK, StageOK, CarriesOK, Open
<1>3. i \in Ids /\ row[i] \in IssuedRows
  BY <1>2, TableOf DEF StaffInv, IssuedOK
<1>4. r \in IssuedRows /\ r.status = "spent" /\ r.epoch = row[i].epoch /\ r.from = row[i].from
  BY <1>3, StatusIs
<1> HIDE DEF r
<1>5. /\ w = [tx[p] EXCEPT !.own = w.own] /\ w.own \in Owns
      /\ DOMAIN w.own = {i} /\ w.own[i] = r
  BY <1>1, <1>2, <1>3, <1>4, WroteIs
<1> HIDE DEF w
<1>6. /\ t \in Transacts /\ t.op = tx[p].op /\ t.at = "spent" /\ t.id = i /\ t.past = tx[p].past
      /\ t.staff = tx[p].staff /\ t.own = w.own
  BY <1>1, <1>5 DEF Transacts
<1> HIDE DEF t, i
<1>7. StageOK(t)
  BY <1>1, <1>2, <1>4, <1>5, <1>6 DEF StageOK, StagesOK, CarriesOK, HoldsOK, Closing, TxOK, i
<1>8. WritesOK(t)
  BY <1>2, <1>4, <1>5, <1>6 DEF WritesOK, Moves
<1>9. TxOK(t)
  BY <1>1, <1>6, <1>7, <1>8 DEF TxOK, KeepsOK, CoversOK, Closing
<1>10. tx' = [tx EXCEPT ![p] = t] /\ UNCHANGED <<staff, row, overdue>>
  BY DEF Spend, Set, t, w, r, i
<1>11. \A q \in Connections \ {p} : DOMAIN t.own \cap DOMAIN tx[q].own = {} /\ ~(t.staff /\ tx[q].staff)
  BY <1>2, <1>5, <1>6, RowIsFree
<1> QED
  BY <1>9, <1>10, <1>11, TxMoves

LEMMA TouchKeeps ==
  ASSUME StaffInv, NEW p \in Connections, Touch(p) PROVE StaffInv'
<1> DEFINE i == tx[p].id
           w == Wrote(p, i, row[i])
           t == [w EXCEPT !.at = "touched"]
<1>1. tx[p] \in Transacts /\ TxOK(tx[p])
  BY TxIs
<1>2. /\ tx[p].op \in {"request", "logout", "revoke", "change"} /\ tx[p].at \in {"begun", "owned"}
      /\ tx[p].at = "owned" <=> tx[p].op \in {"revoke", "change"}
      /\ i \in Sessions /\ row[i].status = "live" /\ Holders(p, i) = {}
  BY <1>1 DEF Touch, TakesStaff, Cas, TxOK, StageOK, CarriesOK
<1>3. DOMAIN tx[p].own = {} /\ (tx[p].staff <=> tx[p].op \in {"revoke", "change"})
  BY <1>1, <1>2 DEF TxOK, StageOK, HoldsOK, Closing
<1>4. i \in Ids /\ row[i] \in IssuedRows
  BY <1>2, TableOf DEF StaffInv, IssuedOK
<1>5. /\ w = [tx[p] EXCEPT !.own = w.own] /\ w.own \in Owns
      /\ DOMAIN w.own = {i} /\ w.own[i] = row[i]
  BY <1>1, <1>3, <1>4, WroteIs
<1> HIDE DEF w
<1>6. /\ t \in Transacts /\ t.op = tx[p].op /\ t.at = "touched" /\ t.id = i /\ t.past = tx[p].past
      /\ t.staff = tx[p].staff /\ t.own = w.own
  BY <1>1, <1>5 DEF Transacts
<1> HIDE DEF t, i
<1>7. StageOK(t)
  BY <1>1, <1>2, <1>3, <1>5, <1>6 DEF StageOK, StagesOK, CarriesOK, HoldsOK, Closing, TxOK, i
<1>8. WritesOK(t)
  BY <1>2, <1>5, <1>6 DEF WritesOK, Moves
<1>9. TxOK(t)
  BY <1>1, <1>6, <1>7, <1>8 DEF TxOK, KeepsOK, CoversOK, Closing
<1>10. tx' = [tx EXCEPT ![p] = t] /\ UNCHANGED <<staff, row, overdue>>
  BY DEF Touch, Set, t, w, i
<1>11. \A q \in Connections \ {p} : DOMAIN t.own \cap DOMAIN tx[q].own = {} /\ ~(t.staff /\ tx[q].staff)
  BY <1>2, <1>5, <1>6, RowIsFree, TxIs
<1> QED
  BY <1>9, <1>10, <1>11, TxMoves

\* What each statement looks for in its rows, and what it makes of them.
Looks(at, from, status) ==
  \/ at \in {"expire", "challenges"} /\ from = Open /\ status = "closed"
  \/ at \in {"supersede", "links"} /\ from = {"issued"} /\ status = "closed"
  \/ at \in {"revoke", "sessions"} /\ from = {"live"} /\ status = "revoked"

LEMMA TakeKeeps ==
  ASSUME StaffInv, NEW p \in Connections, NEW from, NEW status, Looks(tx[p].at, from, status),
         Take(p, from, status)
  PROVE  StaffInv'
<1>1. PICK i \in tx[p].todo :
        /\ Holders(p, i) = {}
        /\ tx' = [tx EXCEPT ![p] =
                   [(IF Sees(p, i).status \in from
                       THEN Wrote(p, i, [Sees(p, i) EXCEPT !.status = status]) ELSE tx[p])
                    EXCEPT !.todo = @ \ {i}]]
        /\ UNCHANGED <<staff, row, overdue>>
  BY DEF Take, Set
<1> DEFINE at == tx[p].at
           T == tx[p].todo \ {i}
<1>2. tx[p] \in Transacts /\ TxOK(tx[p]) /\ tx[p].own \in Owns
  BY TxIs
<1>3. /\ at \in {"expire", "challenges"} => i \in Challenges
      /\ at \in {"supersede", "links"} => i \in Links
      /\ at \in {"revoke", "sessions"} => i \in Sessions
      /\ at = "sessions" /\ tx[p].op = "change" => i # tx[p].id
      /\ at \in Closing /\ tx[p].op = "change" => tx[p].id \in Sessions
  BY <1>1, <1>2 DEF TxOK, StageOK, HoldsOK, CarriesOK, Closing
<1>4. /\ at \in {"expire", "challenges", "supersede", "links", "revoke", "sessions"} /\ i \in Ids
      /\ T \in SUBSET Ids /\ T \subseteq tx[p].todo
  BY <1>2, <1>3, TableOf DEF Looks, Transacts
<1>5. Sees(p, i) \in IssuedRows
  BY <1>2, <1>4, OwnsAre DEF Sees, StaffInv, IssuedOK
<1>6. tx[p].staff
  BY <1>2, <1>4 DEF TxOK, StageOK, HoldsOK, Closing
<1>7. CASE Sees(p, i).status \in from
  <2> DEFINE r == [Sees(p, i) EXCEPT !.status = status]
             w == Wrote(p, i, r)
             t == [w EXCEPT !.todo = T]
  <2>1. r \in IssuedRows /\ r.status = status /\ r.epoch = Sees(p, i).epoch /\ r.from = Sees(p, i).from
    <3>1. status \in {"closed", "revoked"}
      BY DEF Looks
    <3> QED
      BY <1>5, <3>1 DEF IssuedRows
  <2> HIDE DEF r
  <2>2. /\ w = [tx[p] EXCEPT !.own = w.own] /\ w.own \in Owns
        /\ DOMAIN w.own = DOMAIN tx[p].own \cup {i} /\ w.own[i] = r
        /\ \A j \in DOMAIN tx[p].own \ {i} : w.own[j] = tx[p].own[j]
    BY <1>2, <1>4, <2>1, WroteIs
  <2> HIDE DEF w
  <2>3. tx' = [tx EXCEPT ![p] = t]
    <3>1. w.todo = tx[p].todo
      BY <1>2, <2>2 DEF Transacts
    <3> QED
      BY <1>1, <1>7, <3>1 DEF w, r
  <2>4. /\ t \in Transacts /\ t.op = tx[p].op /\ t.at = at /\ t.id = tx[p].id /\ t.past = tx[p].past
        /\ t.staff = tx[p].staff /\ t.own = w.own /\ t.todo = T
    BY <1>2, <1>4, <2>2 DEF Transacts
  <2> HIDE DEF t
  <2>5. WritesOK(t)
    <3>1. Moves(i, row[i], r)
      <4>1. CASE i \in DOMAIN tx[p].own
        <5>1. Moves(i, row[i], tx[p].own[i]) /\ Sees(p, i) = tx[p].own[i]
          BY <1>2, <4>1 DEF TxOK, WritesOK, Sees
        <5> QED
          BY <1>3, <1>7, <2>1, <5>1, TableOf DEF Moves, Looks, Open
      <4>2. CASE i \notin DOMAIN tx[p].own
        <5>1. Sees(p, i) = row[i]
          BY <4>2 DEF Sees
        <5> QED
          BY <1>3, <1>7, <2>1, <5>1, TableOf DEF Moves, Looks, Open
      <4> QED
        BY <4>1, <4>2
    <3> QED
      BY <1>2, <2>2, <2>4, <3>1 DEF TxOK, WritesOK
  <2>6. HoldsOK(t)
    <3>1. HoldsOK(tx[p])
      BY <1>2 DEF TxOK, StageOK
    <3>2. status \in {"closed", "revoked"}
      BY DEF Looks
    <3>3. tx[p].op = "change" /\ at \in Closing => i # tx[p].id
      BY <1>3, <1>4, TableOf DEF Closing
    <3> QED
      BY <1>4, <2>1, <2>2, <2>4, <3>1, <3>2, <3>3 DEF HoldsOK, Closing
  <2>7. StageOK(t)
    BY <1>2, <2>4, <2>6 DEF TxOK, StageOK, StagesOK, CarriesOK
  <2>8. CoversOK(t)
    <3>1. CoversOK(tx[p])
      BY <1>2 DEF TxOK
    <3>2. DOMAIN t.own = DOMAIN tx[p].own \cup {i} /\ t.todo = tx[p].todo \ {i} /\ t.at = tx[p].at
      BY <2>2, <2>4
    <3> QED
      BY <3>1, <3>2 DEF CoversOK
  <2>9. TxOK(t)
    BY <1>2, <2>4, <2>5, <2>7, <2>8 DEF TxOK, KeepsOK
  <2>10. \A q \in Connections \ {p} : DOMAIN t.own \cap DOMAIN tx[q].own = {} /\ ~(t.staff /\ tx[q].staff)
    <3>1. ASSUME NEW q \in Connections \ {p}
          PROVE  DOMAIN t.own \cap DOMAIN tx[q].own = {}
      <4>1. i \notin DOMAIN tx[q].own
        BY <1>1, RowIsFree
      <4>2. DOMAIN tx[p].own \cap DOMAIN tx[q].own = {}
        BY TxIs
      <4>3. DOMAIN t.own = DOMAIN tx[p].own \cup {i}
        BY <2>2, <2>4
      <4> QED
        BY <4>1, <4>2, <4>3
    <3>2. \A q \in Connections \ {p} : ~(t.staff /\ tx[q].staff)
      BY <2>4, TxIs
    <3> QED
      BY <3>1, <3>2
  <2> QED
    BY <1>1, <2>3, <2>9, <2>10, TxMoves
<1>8. CASE Sees(p, i).status \notin from
  <2> DEFINE t == [tx[p] EXCEPT !.todo = T]
  <2>1. tx' = [tx EXCEPT ![p] = t]
    BY <1>1, <1>8
  <2>2. /\ t \in Transacts /\ t.op = tx[p].op /\ t.at = at /\ t.id = tx[p].id /\ t.past = tx[p].past
        /\ t.staff = tx[p].staff /\ t.own = tx[p].own /\ t.todo = T
    BY <1>2, <1>4 DEF Transacts
  <2> HIDE DEF t
  <2>3. StageOK(t)
    BY <1>2, <1>4, <2>2 DEF TxOK, StageOK, StagesOK, CarriesOK, HoldsOK, Closing
  <2>4. CoversOK(t)
    <3>1. CoversOK(tx[p]) /\ (i \notin DOMAIN tx[p].own => row[i].status \notin from)
      BY <1>2, <1>8 DEF TxOK, Sees
    <3> QED
      BY <1>3, <2>2, <3>1, TableOf DEF CoversOK, Looks
  <2>5. TxOK(t)
    BY <1>2, <2>2, <2>3, <2>4 DEF TxOK, WritesOK, KeepsOK
  <2>6. \A q \in Connections \ {p} : DOMAIN t.own \cap DOMAIN tx[q].own = {} /\ ~(t.staff /\ tx[q].staff)
    BY <2>2, TxIs
  <2> QED
    BY <1>1, <2>1, <2>5, <2>6, TxMoves
<1> QED
  BY <1>7, <1>8

LEMMA TakesKeep ==
  ASSUME StaffInv, NEW p \in Connections,
         ExpireOne(p) \/ SupersedeOne(p) \/ RevokeOne(p) \/ InvalidateOne(p)
  PROVE  StaffInv'
BY TakeKeeps DEF ExpireOne, SupersedeOne, RevokeOne, InvalidateOne, Looks

-----------------------------------------------------------------------------
(* Commits                                                                 *)

LEMMA NoTxStays == TxOK(NoTx)'
<1>1. StageOK(NoTx) /\ NoTx.at = "idle" /\ NoTx.past = {} /\ DOMAIN NoTx.own = {}
  BY NoTxOK DEF TxOK, NoTx
<1> QED
  BY <1>1 DEF TxOK, WritesOK, KeepsOK, CoversOK, Closing

\* What a commit leaves a transaction that goes on: its rows and what its lock guards.
Undisturbed(t) ==
  /\ \A i \in DOMAIN t.own : row'[i] = row[i]
  /\ t.staff =>
       /\ staff'.epoch = staff.epoch /\ (~staff.locked => ~staff'.locked)
       /\ \A i \in Challenges : row'[i].status \in Open => row[i].status \in Open
       /\ \A i \in Links : row'[i].status = "issued" => row[i].status = "issued"
  /\ t.at = "sessions" => \A i \in Sessions : row'[i].status = "live" => row[i].status = "live"

LEMMA OtherKept ==
  ASSUME NEW t, TxOK(t), overdue \subseteq overdue', Undisturbed(t) PROVE TxOK(t)'
<1>1. StageOK(t)'
  BY DEF TxOK
<1>2. t.at \in {"expire"} \cup Closing => t.staff
  BY DEF TxOK, StageOK, HoldsOK
<1>3. WritesOK(t)'
  BY DEF TxOK, WritesOK, Undisturbed
<1>4. KeepsOK(t)'
  BY <1>2 DEF TxOK, KeepsOK, Undisturbed
<1>5. CoversOK(t)'
  BY <1>2 DEF TxOK, CoversOK, Closing, Undisturbed
<1> QED
  BY <1>1, <1>3, <1>4, <1>5 DEF TxOK

\* One transaction ends, and the others go on.
LEMMA TxEnds ==
  ASSUME StaffInv, NEW p \in Connections, tx' = [tx EXCEPT ![p] = NoTx], overdue' = overdue,
         \A q \in Connections \ {p} : Undisturbed(tx[q])
  PROVE  TxsOK' /\ LocksOK'
<1>1. /\ tx' \in [Connections -> Transacts] /\ tx'[p] = NoTx
      /\ \A q \in Connections \ {p} : tx'[q] = tx[q]
  BY NoTxOK DEF StaffInv, TxsOK
<1>2. ASSUME NEW q \in Connections PROVE TxOK(tx[q])'
  <2>1. CASE q = p
    <3>1. tx'[q] = NoTx
      BY <1>1, <2>1
    <3> QED
      BY <3>1, NoTxStays DEF TxOK, WritesOK, KeepsOK, CoversOK
  <2>2. CASE q # p
    <3>1. PICK t : t = tx[q]
      OBVIOUS
    <3>2. TxOK(t) /\ Undisturbed(t) /\ tx'[q] = t
      BY <1>1, <2>2, <3>1 DEF StaffInv, TxsOK
    <3>3. TxOK(t)'
      BY <3>2, OtherKept
    <3> QED
      BY <3>2, <3>3 DEF TxOK, WritesOK, KeepsOK, CoversOK
  <2> QED
    BY <2>1, <2>2
<1>3. TxsOK'
  BY <1>1, <1>2 DEF TxsOK
<1>4. LocksOK'
  BY <1>1, NoTxOK DEF StaffInv, LocksOK
<1> QED
  BY <1>3, <1>4

\* A row of a commit: one that moves along its table, or a new one.
Passes(i, r, o) ==
  /\ o.epoch = r.epoch /\ o.from = r.from
  /\ \/ i \in Challenges /\ r.status \in Open /\ o.status \in Open \cup {"closed", "spent"}
     \/ i \in Links /\ r.status = "issued" /\ o.status \in {"closed", "spent"}
     \/ i \in Sessions /\ r.status = "live" /\ o.status \in {"live", "revoked"}

\* Inserted under the staff row's lock, or by the transaction that spends what it comes from.
Inserts(p, n, own) ==
  /\ row[n].status = "unused" /\ own[n].epoch = staff.epoch
  /\ \/ n \in Challenges /\ own[n].status = "pending" /\ tx[p].staff
     \/ n \in Links /\ own[n].status = "issued" /\ tx[p].staff
     \/ /\ n \in Sessions /\ own[n].status = "live"
        /\ own[n].from \in DOMAIN own \ Sessions /\ own[own[n].from].status = "spent"

\* What a commit of the rows `own`, of which n is new, leaves of the other transactions.
LEMMA CommitDisturbsNone ==
  ASSUME StaffInv, NEW p \in Connections, NEW own \in Owns, NEW n, Publish(p, own),
         staff'.epoch = staff.epoch, ~staff.locked => ~staff'.locked,
         \A i \in DOMAIN own : \A q \in Connections \ {p} : i \notin DOMAIN tx[q].own,
         \A i \in DOMAIN own \ {n} : Passes(i, row[i], own[i]),
         n \in DOMAIN own => Inserts(p, n, own),
         NEW q \in Connections \ {p}
  PROVE  Undisturbed(tx[q])
<1>1. /\ \A i \in DOMAIN own : i \in Ids /\ row'[i] = own[i]
      /\ \A i \in Ids \ DOMAIN own : row'[i] = row[i]
  BY OwnsAre DEF Publish
<1>2. TxOK(tx[q]) /\ DOMAIN tx[q].own \subseteq Ids
  BY TxIs, OwnsAre
<1>3. \A i \in DOMAIN tx[q].own : row'[i] = row[i]
  BY <1>1, <1>2
<1>4. ASSUME tx[q].staff
      PROVE  /\ \A i \in Challenges : row'[i].status \in Open => row[i].status \in Open
             /\ \A i \in Links : row'[i].status = "issued" => row[i].status = "issued"
  <2>1. ~tx[p].staff
    BY <1>4, TxIs
  <2>2. n \in DOMAIN own => n \in Sessions
    BY <2>1 DEF Inserts
  <2> QED
    BY <1>1, <2>2, TableOf DEF Passes, Open
<1>5. ASSUME tx[q].at = "sessions"
      PROVE  \A i \in Sessions : row'[i].status = "live" => row[i].status = "live"
  <2>1. n \notin DOMAIN own \/ n \notin Sessions
    <3>1. SUFFICES ASSUME n \in DOMAIN own, n \in Sessions PROVE FALSE
      OBVIOUS
    <3>2. PICK f \in DOMAIN own \ Sessions : f = own[n].from /\ own[f].status = "spent"
      BY <3>1, TableOf DEF Inserts
    <3>3. Passes(f, row[f], own[f])
      BY <3>1, <3>2
    <3>4. \/ f \in Challenges /\ row[f].status \in Open
          \/ f \in Links /\ row[f].status = "issued"
      BY <3>2, <3>3 DEF Passes
    <3>5. f \in DOMAIN tx[q].own
      BY <1>2, <1>5, <3>4 DEF TxOK, CoversOK
    <3> QED
      BY <3>2, <3>5
  <2> QED
    BY <1>1, <2>1, TableOf DEF Passes
<1> QED
  BY <1>3, <1>4, <1>5 DEF Undisturbed

LEMMA CommitKeeps ==
  ASSUME StaffInv, NEW p \in Connections, NEW own \in Owns, NEW n, Publish(p, own),
         tx' = [tx EXCEPT ![p] = NoTx], overdue' = overdue,
         staff' \in {staff, [staff EXCEPT !.locked = FALSE]},
         \A i \in DOMAIN own : \A q \in Connections \ {p} : i \notin DOMAIN tx[q].own,
         \A i \in DOMAIN own \ {n} : Passes(i, row[i], own[i]),
         n \in DOMAIN own => Inserts(p, n, own)
  PROVE  StaffInv'
<1>1. /\ \A i \in DOMAIN own : i \in Ids /\ row'[i] = own[i] /\ own[i] \in IssuedRows
      /\ \A i \in Ids \ DOMAIN own : row'[i] = row[i]
  BY OwnsAre DEF Publish
<1>2. StaffRowOK' /\ staff'.epoch = staff.epoch /\ (~staff.locked => ~staff'.locked)
  BY DEF StaffInv, StaffRowOK
<1>3. TxsOK' /\ LocksOK'
  BY <1>2, CommitDisturbsNone, TxEnds
<1>4. /\ row \in [Ids -> IssuedRows] /\ overdue \subseteq Ids /\ staff.epoch \in Nat
      /\ \A i \in Ids : row[i].epoch <= staff.epoch
  BY StaffAssumption DEF StaffInv, IssuedOK, StaffRowOK
<1>5. row' \in [Ids -> IssuedRows]
  BY <1>1, <1>4 DEF Publish
<1>6. IssuedOK'
  <2>1. \A i \in Ids : row'[i].epoch <= staff'.epoch
    BY <1>1, <1>2, <1>4 DEF Passes, Inserts
  <2>2. \A i \in Challenges : row'[i].status \in Open \cup {"unused", "spent", "closed"}
    BY <1>1, TableOf DEF Passes, Inserts, Open, StaffInv, IssuedOK
  <2>3. \A i \in Links : row'[i].status \in {"unused", "issued", "spent", "closed"}
    BY <1>1, TableOf DEF Passes, Inserts, StaffInv, IssuedOK
  <2>4. \A i \in Sessions : row'[i].status \in {"unused", "live", "revoked"}
    BY <1>1, TableOf DEF Passes, Inserts, StaffInv, IssuedOK
  <2> QED
    BY <1>4, <1>5, <2>1, <2>2, <2>3, <2>4 DEF IssuedOK
<1>7. NothingOutlivesChange'
  <2>1. \A s \in Sessions \ overdue' : row'[s].status = "live" => row'[s].epoch = staff'.epoch
    BY <1>1, <1>2, TableOf DEF Passes, Inserts, StaffInv, NothingOutlivesChange
  <2>2. \A i \in Challenges : row'[i].status \in Open \cup {"issued"} => row'[i].epoch = staff'.epoch
    BY <1>1, <1>2, TableOf DEF Passes, Inserts, Open, StaffInv, NothingOutlivesChange, IssuedOK
  <2>3. \A i \in Links : row'[i].status \in Open \cup {"issued"} => row'[i].epoch = staff'.epoch
    BY <1>1, <1>2, TableOf DEF Passes, Inserts, Open, StaffInv, NothingOutlivesChange, IssuedOK
  <2> QED
    BY <2>1, <2>2, <2>3 DEF NothingOutlivesChange
<1>8. OriginsOK'
  <2>1. ASSUME NEW s \in Sessions, s # n, row'[s].from # NoId
        PROVE  /\ row'[s].from = row[s].from /\ row[s].from \in Challenges \cup Links
               /\ row[row[s].from].status = "spent" /\ row'[row'[s].from].status = "spent"
    <3>1. row'[s].from = row[s].from
      BY <1>1, <2>1, TableOf DEF Passes
    <3>2. row[s].from \in Challenges \cup Links /\ row[row[s].from].status = "spent"
      BY <1>4, <2>1, <3>1, TableOf DEF IssuedRows, StaffInv, OriginsOK
    <3>3. PICK g \in Challenges \cup Links : g = row[s].from
      BY <3>2
    <3>4. g \notin DOMAIN own
      BY <3>2, <3>3 DEF Passes, Inserts, Open
    <3> QED
      BY <1>1, <3>1, <3>2, <3>3, <3>4, TableOf
  <2>2. ASSUME n \in Sessions, n \in DOMAIN own
        PROVE  \E f \in Challenges \cup Links :
                 row'[n].from = f /\ row'[f].status = "spent" /\ row[f].status # "spent"
    <3>1. PICK f \in DOMAIN own \ Sessions : f = own[n].from /\ own[f].status = "spent"
      BY <2>2, TableOf DEF Inserts
    <3>2. Passes(f, row[f], own[f])
      BY <2>2, <3>1
    <3> QED
      BY <1>1, <2>2, <3>1, <3>2 DEF Passes, Open
  <2>3. ASSUME n \in Sessions, n \notin DOMAIN own, row'[n].from # NoId
        PROVE  /\ row'[n].from = row[n].from /\ row[n].from \in Challenges \cup Links
               /\ row[row[n].from].status = "spent" /\ row'[row'[n].from].status = "spent"
    <3>1. row'[n].from = row[n].from
      BY <1>1, <2>3, TableOf
    <3>2. row[n].from \in Challenges \cup Links /\ row[row[n].from].status = "spent"
      BY <1>4, <2>3, <3>1, TableOf DEF IssuedRows, StaffInv, OriginsOK
    <3>3. PICK g \in Challenges \cup Links : g = row[n].from
      BY <3>2
    <3>4. g \notin DOMAIN own
      BY <2>3, <3>2, <3>3 DEF Passes, Open
    <3> QED
      BY <1>1, <3>1, <3>2, <3>3, <3>4, TableOf
  <2>4. \A s \in Sessions : row'[s].from # NoId => row'[row'[s].from].status = "spent"
    BY <2>1, <2>2, <2>3
  <2>5. ASSUME NEW s \in Sessions, NEW t \in Sessions, s # t, row'[s].from # NoId,
               row'[s].from = row'[t].from
        PROVE  FALSE
    <3>1. CASE n \in DOMAIN own /\ n \in {s, t}
      BY <2>1, <2>2, <2>5, <3>1
    <3>2. CASE ~(n \in DOMAIN own /\ n \in {s, t})
      <4>1. row'[s].from = row[s].from /\ row'[t].from = row[t].from
        BY <2>1, <2>3, <2>5, <3>2
      <4> QED
        BY <2>5, <4>1 DEF StaffInv, OriginsOK, OneSessionPerLogin
    <3> QED
      BY <3>1, <3>2
  <2> QED
    BY <2>4, <2>5 DEF OriginsOK, OneSessionPerLogin
<1> QED
  BY <1>2, <1>3, <1>6, <1>7, <1>8 DEF StaffInv

\* What a transaction wrote may be committed.
LEMMA WritesPass ==
  ASSUME StaffInv, NEW p \in Connections
  PROVE  /\ tx[p].own \in Owns
         /\ \A i \in DOMAIN tx[p].own :
              /\ Passes(i, row[i], tx[p].own[i]) /\ row[i].status # "unused"
              /\ \A q \in Connections \ {p} : i \notin DOMAIN tx[q].own
<1>1. TxOK(tx[p]) /\ tx[p].own \in Owns
  BY TxIs
<1>2. ASSUME NEW i \in DOMAIN tx[p].own PROVE Moves(i, row[i], tx[p].own[i])
  BY <1>1 DEF TxOK, WritesOK
<1>3. ASSUME NEW i \in DOMAIN tx[p].own
      PROVE  Passes(i, row[i], tx[p].own[i]) /\ row[i].status # "unused"
  BY <1>2 DEF Moves, Passes, Open
<1> QED
  BY <1>1, <1>3, TxIs

LEMMA CommitOwnKeeps ==
  ASSUME StaffInv, NEW p \in Connections, Publish(p, tx[p].own), tx' = [tx EXCEPT ![p] = NoTx],
         overdue' = overdue, staff' \in {staff, [staff EXCEPT !.locked = FALSE]}
  PROVE  StaffInv'
<1>1. NoId \notin DOMAIN tx[p].own
  BY TxIs, OwnsAre, StaffAssumption
<1> QED
  BY <1>1, WritesPass, CommitKeeps

LEMMA AnswersKeep ==
  ASSUME StaffInv, NEW p \in Connections, Answer(p) \/ EndRevoke(p) PROVE StaffInv'
BY CommitOwnKeeps DEF Answer, EndRevoke, Commit, Set

\* A compare-and-set of one row, committed at once.
LEMMA CasKeeps ==
  ASSUME StaffInv, NEW p \in Connections, NEW i \in Ids, NEW r \in IssuedRows,
         \A q \in Connections \ {p} : i \notin DOMAIN tx[q].own,
         DOMAIN tx[p].own \subseteq {i}, Passes(i, row[i], r),
         Publish(p, Wrote(p, i, r).own), tx' = [tx EXCEPT ![p] = NoTx],
         overdue' = overdue, staff' = staff
  PROVE  StaffInv'
<1> DEFINE own == Wrote(p, i, r).own
<1>1. own \in Owns /\ DOMAIN own = {i} /\ own[i] = r
  BY TxIs, WroteIs
<1>2. NoId \notin DOMAIN own
  BY <1>1, StaffAssumption
<1> HIDE DEF own
<1>3. Publish(p, own)
  BY DEF own
<1> QED
  BY <1>1, <1>2, <1>3, CommitKeeps

\* The row of a press, a denial, a wrong code.
LEMMA CasIs ==
  ASSUME StaffInv, NEW p \in Connections, NEW from, Cas(p, from),
         tx[p].op \in {"press", "deny", "complete"}, tx[p].at = "begun", from \subseteq Open
  PROVE  /\ tx[p].id \in Challenges /\ tx[p].id \in Ids /\ row[tx[p].id].status \in Open
         /\ row[tx[p].id] \in IssuedRows /\ DOMAIN tx[p].own = {}
         /\ \A q \in Connections \ {p} : tx[p].id \notin DOMAIN tx[q].own
         /\ \A s \in Open \cup {"closed"} :
              LET r == [row[tx[p].id] EXCEPT !.status = s] IN
              r \in IssuedRows /\ Passes(tx[p].id, row[tx[p].id], r)
<1>1. TxOK(tx[p])
  BY TxIs
<1>2. tx[p].id \in Challenges /\ row[tx[p].id].status \in Open /\ DOMAIN tx[p].own = {}
  BY <1>1, NothingHeld DEF Cas, TxOK, StageOK, CarriesOK
<1>3. tx[p].id \in Ids /\ row[tx[p].id] \in IssuedRows
  BY <1>2, TableOf DEF StaffInv, IssuedOK
<1>4. \A q \in Connections \ {p} : tx[p].id \notin DOMAIN tx[q].own
  BY RowIsFree DEF Cas
<1>5. ASSUME NEW s \in Open \cup {"closed"}
      PROVE  LET r == [row[tx[p].id] EXCEPT !.status = s] IN
             r \in IssuedRows /\ Passes(tx[p].id, row[tx[p].id], r)
  BY <1>2, <1>3 DEF IssuedRows, Passes, Open
<1> QED
  BY <1>2, <1>3, <1>4, <1>5

LEMMA PressKeeps ==
  ASSUME StaffInv, NEW p \in Connections, Press(p) PROVE StaffInv'
<1>1. tx[p].at = "begun" /\ {"pending", "confirmed"} \subseteq Open
  BY TxIs DEF Press, TxOK, StageOK, StagesOK, Open
<1>2. PICK s \in {"confirmed", "sent"} :
        Publish(p, Wrote(p, tx[p].id, [row[tx[p].id] EXCEPT !.status = s]).own)
  BY DEF Press
<1>3. s \in Open \cup {"closed"}
  BY DEF Open
<1>4. /\ tx[p].id \in Ids /\ DOMAIN tx[p].own = {}
      /\ \A q \in Connections \ {p} : tx[p].id \notin DOMAIN tx[q].own
      /\ [row[tx[p].id] EXCEPT !.status = s] \in IssuedRows
      /\ Passes(tx[p].id, row[tx[p].id], [row[tx[p].id] EXCEPT !.status = s])
  BY <1>1, <1>3, CasIs DEF Press
<1> QED
  BY <1>2, <1>4, CasKeeps DEF Press, Set

\* A challenge is closed at once.
LEMMA ClosesKeep ==
  ASSUME StaffInv, NEW p \in Connections, Deny(p) \/ Exhaust(p) PROVE StaffInv'
<1>1. tx[p].at = "begun" /\ tx[p].op \in {"deny", "complete"} /\ (Cas(p, Open) \/ Cas(p, {"sent"}))
  BY TxIs DEF Deny, Exhaust, TxOK, StageOK, StagesOK
<1>2. {"sent"} \subseteq Open /\ Open \subseteq Open
  BY DEF Open
<1>3. /\ tx[p].id \in Ids /\ DOMAIN tx[p].own = {}
      /\ \A q \in Connections \ {p} : tx[p].id \notin DOMAIN tx[q].own
      /\ [row[tx[p].id] EXCEPT !.status = "closed"] \in IssuedRows
      /\ Passes(tx[p].id, row[tx[p].id], [row[tx[p].id] EXCEPT !.status = "closed"])
  BY <1>1, <1>2, CasIs
<1> QED
  BY <1>3, CasKeeps DEF Deny, Exhaust, Set

LEMMA LogOutKeeps ==
  ASSUME StaffInv, NEW p \in Connections, LogOut(p) PROVE StaffInv'
<1> DEFINE i == tx[p].id
           o == tx[p].own[i]
           r == [o EXCEPT !.status = "revoked"]
<1>1. TxOK(tx[p]) /\ tx[p].own \in Owns
  BY TxIs
<1>2. i \in Sessions /\ DOMAIN tx[p].own = {i} /\ o.status = "live"
  BY <1>1 DEF LogOut, TxOK, StageOK, CarriesOK, HoldsOK
<1>3. o \in IssuedRows /\ Passes(i, row[i], o) /\ \A q \in Connections \ {p} : i \notin DOMAIN tx[q].own
  BY <1>1, <1>2, OwnsAre, WritesPass
<1>4. r \in IssuedRows /\ r.status = "revoked" /\ r.epoch = o.epoch /\ r.from = o.from
  BY <1>3 DEF IssuedRows
<1>5. r = [Sees(p, i) EXCEPT !.status = "revoked"]
  BY <1>2 DEF Sees
<1>6. Publish(p, Wrote(p, i, r).own) /\ tx' = [tx EXCEPT ![p] = NoTx] /\ UNCHANGED <<staff, overdue>>
  BY <1>5 DEF LogOut, Set
<1> HIDE DEF r
<1>7. Passes(i, row[i], r)
  BY <1>2, <1>3, <1>4, TableOf DEF Passes
<1> QED
  BY <1>2, <1>3, <1>4, <1>6, <1>7, TableOf, CasKeeps

-----------------------------------------------------------------------------
\* A new row joins what the transaction wrote.
LEMMA InsertKeeps ==
  ASSUME StaffInv, NEW p \in Connections, NEW ids, ids \subseteq Ids, NEW n \in Fresh(ids),
         NEW r \in IssuedRows, Publish(p, Wrote(p, n, r).own),
         tx' = [tx EXCEPT ![p] = NoTx], overdue' = overdue,
         staff' \in {staff, [staff EXCEPT !.locked = FALSE]}, r.epoch = staff.epoch,
         \/ n \in Challenges /\ r.status = "pending" /\ tx[p].staff
         \/ n \in Links /\ r.status = "issued" /\ tx[p].staff
         \/ /\ n \in Sessions /\ r.status = "live"
            /\ r.from \in DOMAIN tx[p].own \ Sessions /\ tx[p].own[r.from].status = "spent"
  PROVE  StaffInv'
<1> DEFINE own == Wrote(p, n, r).own
<1>1. /\ n \in Ids /\ row[n].status = "unused" /\ \A q \in Connections : n \notin DOMAIN tx[q].own
  BY DEF Fresh
<1>2. /\ own \in Owns /\ DOMAIN own = DOMAIN tx[p].own \cup {n} /\ own[n] = r
      /\ \A j \in DOMAIN tx[p].own : own[j] = tx[p].own[j]
  BY <1>1, TxIs, WroteIs
<1> HIDE DEF own
<1>3. Inserts(p, n, own)
  BY <1>1, <1>2 DEF Inserts
<1>4. \A i \in DOMAIN own \ {n} : Passes(i, row[i], own[i])
  BY <1>2, WritesPass
<1>5. \A i \in DOMAIN own : \A q \in Connections \ {p} : i \notin DOMAIN tx[q].own
  BY <1>1, <1>2, WritesPass
<1>6. Publish(p, own)
  BY DEF own
<1> QED
  BY <1>2, <1>3, <1>4, <1>5, <1>6, CommitKeeps

LEMMA NewRowIs ==
  ASSUME StaffInv, NEW status \in {"pending", "issued", "live"},
         NEW from \in Challenges \cup Links \cup {NoId}, NEW e, e = staff.epoch
  PROVE  LET r == [status |-> status, epoch |-> e, from |-> from] IN
         r \in IssuedRows /\ r.status = status /\ r.epoch = staff.epoch /\ r.from = from
BY DEF StaffInv, StaffRowOK, IssuedRows

LEMMA OpenChallengeKeeps ==
  ASSUME StaffInv, NEW p \in Connections, OpenChallenge(p) PROVE StaffInv'
<1>1. /\ tx' = [tx EXCEPT ![p] = NoTx] /\ overdue' = overdue
      /\ staff' \in {staff, [staff EXCEPT !.locked = FALSE]}
  BY DEF OpenChallenge, Set
<1>2. tx[p].staff
  BY TxIs DEF OpenChallenge, TxOK, StageOK, HoldsOK
<1>3. CASE Publish(p, tx[p].own)
  BY <1>1, <1>3, CommitOwnKeeps
<1>4. ASSUME NEW c \in Fresh(Challenges),
             Publish(p, Wrote(p, c, [status |-> "pending", epoch |-> staff.epoch, from |-> NoId]).own)
      PROVE  StaffInv'
  <2> DEFINE r == [status |-> "pending", epoch |-> staff.epoch, from |-> NoId]
  <2>1. r \in IssuedRows /\ r.status = "pending" /\ r.epoch = staff.epoch
    BY NewRowIs
  <2> HIDE DEF r
  <2>2. Publish(p, Wrote(p, c, r).own) /\ c \in Challenges /\ Challenges \subseteq Ids
    BY <1>4 DEF r, Fresh, Ids
  <2> QED
    BY <1>1, <1>2, <2>1, <2>2, InsertKeeps
<1> QED
  BY <1>3, <1>4 DEF OpenChallenge

LEMMA InsertLinkKeeps ==
  ASSUME StaffInv, NEW p \in Connections, InsertLink(p) PROVE StaffInv'
<1>1. tx' = [tx EXCEPT ![p] = NoTx] /\ overdue' = overdue /\ staff' = staff
  BY DEF InsertLink, Set
<1>2. tx[p].staff
  BY TxIs DEF InsertLink, TxOK, StageOK, HoldsOK
<1> DEFINE r == [status |-> "issued", epoch |-> staff.epoch, from |-> NoId]
<1>3. PICK l \in Fresh(Links) : Publish(p, Wrote(p, l, r).own)
  BY DEF InsertLink
<1>4. r \in IssuedRows /\ r.status = "issued" /\ r.epoch = staff.epoch
  BY NewRowIs
<1> HIDE DEF r
<1>5. l \in Links /\ Links \subseteq Ids
  BY DEF Fresh, Ids
<1> QED
  BY <1>1, <1>2, <1>3, <1>4, <1>5, InsertKeeps

LEMMA InsertSessionKeeps ==
  ASSUME StaffInv, NEW p \in Connections, InsertSession(p) PROVE StaffInv'
<1>1. tx' = [tx EXCEPT ![p] = NoTx] /\ overdue' = overdue /\ staff' = staff
  BY DEF InsertSession, Set
<1> DEFINE f == tx[p].id
           r == [status |-> "live", epoch |-> row[f].epoch, from |-> f]
<1>2. TxOK(tx[p])
  BY TxIs
<1>3. /\ f \in Challenges \cup Links /\ DOMAIN tx[p].own = {f}
      /\ tx[p].own[f].status = "spent"
  <2>1. tx[p].op \in {"complete", "follow"}
    BY <1>2 DEF InsertSession, TxOK, StageOK, StagesOK, Transacts, AllOps, Closing
  <2> QED
    BY <1>2, <2>1 DEF InsertSession, TxOK, StageOK, HoldsOK, CarriesOK
<1>4. row[f].epoch = staff.epoch
  <2>1. Passes(f, row[f], tx[p].own[f])
    BY <1>3, WritesPass
  <2> QED
    BY <1>3, <2>1 DEF Passes, StaffInv, NothingOutlivesChange
<1>5. PICK s \in Fresh(Sessions) : Publish(p, Wrote(p, s, r).own)
  BY DEF InsertSession
<1>6. r \in IssuedRows /\ r.status = "live" /\ r.epoch = staff.epoch /\ r.from = f
  BY <1>3, <1>4, NewRowIs
<1> HIDE DEF r
<1>7. s \in Sessions /\ Sessions \subseteq Ids /\ f \in DOMAIN tx[p].own \ Sessions
  BY <1>3, TableOf DEF Fresh, Ids
<1> QED
  BY <1>1, <1>3, <1>5, <1>6, <1>7, InsertKeeps

-----------------------------------------------------------------------------
(* The invalidations                                                       *)

\* The rows as an invalidation commits them.
Renewed(t) ==
  [i \in DOMAIN t.own |-> IF t.op = "change" /\ i = t.id
                          THEN [t.own[i] EXCEPT !.epoch = staff.epoch + 1] ELSE t.own[i]]

LEMMA RenewedIs ==
  ASSUME StaffInv, NEW p \in Connections, tx[p].at = "sessions", tx[p].todo = {}
  PROVE  LET own == Renewed(tx[p]) IN
         /\ own \in Owns /\ DOMAIN own = DOMAIN tx[p].own
         /\ \A i \in DOMAIN own :
              /\ own[i].from = row[i].from /\ own[i].status = tx[p].own[i].status
              /\ row[i].status \notin {"unused", "spent"}
              /\ \/ own[i].status \in {"closed", "revoked"} /\ own[i].epoch = row[i].epoch
                 \/ /\ i \in Sessions /\ row[i].status = "live" /\ own[i].status = "live"
                    /\ own[i].epoch = staff.epoch + 1
<1> DEFINE t == tx[p]
           own == Renewed(t)
<1>1. TxOK(t) /\ t.own \in Owns
  BY TxIs
<1>2. /\ DOMAIN t.own \subseteq Ids /\ \A i \in DOMAIN t.own : t.own[i] \in IssuedRows
  BY <1>1, OwnsAre
<1>3. staff.epoch + 1 \in 0..MaxEpoch
  BY <1>1, StaffAssumption DEF TxOK, KeepsOK, Closing, StaffInv, StaffRowOK
<1>4. \A i \in DOMAIN t.own : Moves(i, row[i], t.own[i])
  BY <1>1 DEF TxOK, WritesOK
<1>5. /\ t.op = "change" => t.id \in Sessions /\ t.own[t.id].status = "live"
      /\ \A i \in DOMAIN t.own :
           t.own[i].status \in {"closed", "revoked"} \/ (t.op = "change" /\ i = t.id)
  BY <1>1 DEF TxOK, StageOK, CarriesOK, HoldsOK, Closing
<1>6. DOMAIN own = DOMAIN t.own
  BY DEF Renewed
<1>7. ASSUME NEW i \in DOMAIN t.own
      PROVE  /\ own[i] \in IssuedRows
             /\ own[i].from = row[i].from /\ own[i].status = t.own[i].status
             /\ row[i].status \notin {"unused", "spent"}
             /\ \/ own[i].status \in {"closed", "revoked"} /\ own[i].epoch = row[i].epoch
                \/ /\ i \in Sessions /\ row[i].status = "live" /\ own[i].status = "live"
                   /\ own[i].epoch = staff.epoch + 1
  <2>1. t.own[i] \in IssuedRows /\ Moves(i, row[i], t.own[i])
    BY <1>2, <1>4
  <2>2. row[i].status \notin {"unused", "spent"}
    BY <2>1 DEF Moves, Open
  <2>3. CASE t.op = "change" /\ i = t.id
    <3>1. own[i] = [t.own[i] EXCEPT !.epoch = staff.epoch + 1]
      BY <2>3 DEF Renewed
    <3>2. i \in Sessions /\ t.own[i].status = "live" /\ row[i].status = "live"
      BY <1>5, <2>1, <2>3, TableOf DEF Moves
    <3> HIDE DEF own, t
    <3> QED
      BY <1>3, <2>1, <2>2, <3>1, <3>2 DEF IssuedRows, Moves
  <2>4. CASE ~(t.op = "change" /\ i = t.id)
    <3>1. own[i] = t.own[i]
      BY <2>4 DEF Renewed
    <3> QED
      BY <1>5, <2>1, <2>2, <2>4, <3>1 DEF Moves
  <2> QED
    BY <2>3, <2>4
<1>8. own \in Owns
  <2>1. own = [i \in DOMAIN t.own |-> own[i]]
    BY DEF Renewed
  <2> HIDE DEF own
  <2>2. own \in [DOMAIN t.own -> IssuedRows]
    BY <1>7, <2>1
  <2> QED
    BY <1>2, <2>2, OwnsHave
<1> QED
  BY <1>6, <1>7, <1>8

LEMMA CommitInvalidationKeeps ==
  ASSUME StaffInv, NEW p \in Connections, CommitInvalidation(p) PROVE StaffInv'
<1> DEFINE own == Renewed(tx[p])
<1>1. /\ tx[p].at = "sessions" /\ tx[p].todo = {} /\ tx' = [tx EXCEPT ![p] = NoTx]
      /\ overdue' = overdue /\ Publish(p, own)
  BY DEF CommitInvalidation, Set, Renewed
<1>2. TxOK(tx[p]) /\ tx[p].own \in Owns
  BY TxIs
<1>3. tx[p].staff /\ \A q \in Connections \ {p} : ~tx[q].staff
  BY <1>1, <1>2, TxIs DEF TxOK, StageOK, HoldsOK, Closing
<1>4. /\ own \in Owns /\ DOMAIN own = DOMAIN tx[p].own
      /\ \A i \in DOMAIN own :
           /\ own[i].from = row[i].from /\ own[i].status = tx[p].own[i].status
           /\ row[i].status \notin {"unused", "spent"}
           /\ \/ own[i].status \in {"closed", "revoked"} /\ own[i].epoch = row[i].epoch
              \/ /\ i \in Sessions /\ row[i].status = "live" /\ own[i].status = "live"
                 /\ own[i].epoch = staff.epoch + 1
  BY <1>1, RenewedIs
<1> HIDE DEF own
<1>5. /\ \A i \in DOMAIN own : i \in Ids /\ row'[i] = own[i] /\ own[i] \in IssuedRows
      /\ \A i \in Ids \ DOMAIN own : row'[i] = row[i]
  BY <1>1, <1>4, OwnsAre DEF Publish
<1>6. /\ staff.epoch \in 0..MaxEpoch /\ staff.epoch < MaxEpoch /\ staff.password \in 0..MaxEpoch
      /\ staff.active \in BOOLEAN /\ staff.locked \in BOOLEAN
  BY <1>1, <1>2 DEF TxOK, KeepsOK, Closing, StaffInv, StaffRowOK
<1>7. StaffRowOK' /\ staff'.epoch = staff.epoch + 1
  BY <1>6, StaffAssumption DEF CommitInvalidation, StaffRowOK
<1>8. TxsOK' /\ LocksOK'
  <2>1. ASSUME NEW q \in Connections \ {p} PROVE Undisturbed(tx[q])
    <3>1. TxOK(tx[q]) /\ tx[q].own \in Owns /\ ~tx[q].staff
      BY <1>3, TxIs
    <3>2. tx[q].at # "sessions"
      BY <3>1 DEF TxOK, StageOK, HoldsOK, Closing
    <3>3. \A i \in DOMAIN tx[q].own : i \in Ids /\ i \notin DOMAIN own
      BY <1>4, <3>1, TxIs, OwnsAre
    <3> QED
      BY <1>5, <3>1, <3>2, <3>3 DEF Undisturbed
  <2> QED
    BY <1>1, <2>1, TxEnds
<1>9. /\ row \in [Ids -> IssuedRows] /\ overdue \subseteq Ids /\ staff.epoch \in Nat
      /\ \A i \in Ids : row[i].epoch <= staff.epoch /\ row[i].epoch \in Nat
  BY StaffAssumption DEF StaffInv, IssuedOK, StaffRowOK, IssuedRows
<1>10. row' \in [Ids -> IssuedRows]
  BY <1>1, <1>5, <1>9 DEF Publish
<1>11. \A i \in DOMAIN own : Moves(i, row[i], tx[p].own[i])
  BY <1>2, <1>4 DEF TxOK, WritesOK
<1>12. IssuedOK'
  <2>1. ASSUME NEW i \in Ids PROVE row'[i].epoch <= staff'.epoch
    <3>1. row'[i].epoch = row[i].epoch \/ row'[i].epoch = staff.epoch + 1
      BY <1>4, <1>5
    <3> QED
      BY <1>7, <1>9, <3>1
  <2>2. \A i \in Challenges : row'[i].status \in Open \cup {"unused", "spent", "closed"}
    BY <1>4, <1>5, <1>11, TableOf DEF Moves, StaffInv, IssuedOK
  <2>3. \A i \in Links : row'[i].status \in {"unused", "issued", "spent", "closed"}
    BY <1>4, <1>5, <1>11, TableOf DEF Moves, StaffInv, IssuedOK
  <2>4. \A i \in Sessions : row'[i].status \in {"unused", "live", "revoked"}
    BY <1>4, <1>5, <1>11, TableOf DEF Moves, StaffInv, IssuedOK
  <2> QED
    BY <1>1, <1>9, <1>10, <2>1, <2>2, <2>3, <2>4 DEF IssuedOK
<1>13. NothingOutlivesChange'
  <2>1. CoversOK(tx[p])
    BY <1>2 DEF TxOK
  <2>2. \A s \in Sessions \ overdue' : row'[s].status = "live" => row'[s].epoch = staff'.epoch
    BY <1>1, <1>4, <1>5, <1>7, <2>1, TableOf DEF CoversOK
  <2>3. \A i \in Challenges : row'[i].status \notin Open \cup {"issued"}
    BY <1>1, <1>4, <1>5, <2>1, TableOf DEF CoversOK, Open, StaffInv, IssuedOK
  <2>4. \A i \in Links : row'[i].status \notin Open \cup {"issued"}
    BY <1>1, <1>4, <1>5, <2>1, TableOf DEF CoversOK, Open, StaffInv, IssuedOK
  <2> QED
    BY <2>2, <2>3, <2>4 DEF NothingOutlivesChange
<1>14. OriginsOK'
  <2>1. \A i \in Ids : row'[i].from = row[i].from
    BY <1>4, <1>5
  <2>2. \A i \in Ids : row[i].status = "spent" => row'[i].status = "spent"
    BY <1>4, <1>5
  <2>3. ASSUME NEW s \in Sessions, row'[s].from # NoId PROVE row'[row'[s].from].status = "spent"
    <3>1. row'[s].from = row[s].from /\ row[s].from \in Ids /\ row[row[s].from].status = "spent"
      BY <1>9, <2>1, <2>3, TableOf DEF IssuedRows, StaffInv, OriginsOK
    <3> QED
      BY <2>2, <3>1
  <2>4. OneSessionPerLogin'
    BY <2>1, TableOf DEF StaffInv, OriginsOK, OneSessionPerLogin
  <2> QED
    BY <2>3, <2>4 DEF OriginsOK
<1> QED
  BY <1>7, <1>8, <1>12, <1>13, <1>14 DEF StaffInv

-----------------------------------------------------------------------------
(* The staff row and the clock                                             *)

\* The transactions, the rows' tables and the locks stay; the clock or the lockout moves.
LEMMA RowsStay ==
  ASSUME StaffInv, UNCHANGED <<row, tx>>, overdue \subseteq overdue', overdue' \subseteq Ids,
         staff' \in {staff, [staff EXCEPT !.locked = FALSE], [staff EXCEPT !.locked = TRUE]},
         (~staff.locked /\ staff'.locked) => \A q \in Connections : ~tx[q].staff
  PROVE  StaffInv'
<1>1. StaffRowOK' /\ staff'.epoch = staff.epoch /\ staff'.locked \in BOOLEAN
  BY DEF StaffInv, StaffRowOK
<1>2. ASSUME NEW q \in Connections PROVE TxOK(tx[q])'
  <2>1. PICK t : t = tx[q]
    OBVIOUS
  <2>2. TxOK(t) /\ tx'[q] = t
    BY <2>1 DEF StaffInv, TxsOK
  <2>3. Undisturbed(t)
    BY <1>1, <2>1, <2>2 DEF Undisturbed
  <2>4. TxOK(t)'
    BY <2>2, <2>3, OtherKept
  <2> QED
    BY <2>2, <2>4 DEF TxOK, WritesOK, KeepsOK, CoversOK
<1>3. TxsOK' /\ LocksOK'
  BY <1>2 DEF StaffInv, TxsOK, LocksOK
<1>4. IssuedOK' /\ OriginsOK' /\ NothingOutlivesChange'
  BY <1>1 DEF StaffInv, IssuedOK, OriginsOK, OneSessionPerLogin, NothingOutlivesChange
<1> QED
  BY <1>1, <1>3, <1>4 DEF StaffInv

LEMMA CountFailureKeeps ==
  ASSUME StaffInv, NEW p \in Connections, CountFailure(p) PROVE StaffInv'
<1>1. TxOK(tx[p]) /\ overdue \subseteq Ids
  BY TxIs DEF StaffInv, IssuedOK
<1>2. \A q \in Connections : ~tx[q].staff
  BY <1>1, NothingHeld, StaffIsFree DEF CountFailure, TxOK
<1> QED
  BY <1>1, <1>2, RowsStay DEF CountFailure

LEMMA LockoutEndsKeeps ==
  ASSUME StaffInv, LockoutEnds PROVE StaffInv'
<1>1. overdue \subseteq Ids
  BY DEF StaffInv, IssuedOK
<1>2. staff'.locked = FALSE
  BY DEF LockoutEnds, StaffInv, StaffRowOK
<1> QED
  BY <1>1, <1>2, RowsStay DEF LockoutEnds

LEMMA TimeRunsOutKeeps ==
  ASSUME StaffInv, NEW i \in Ids, TimeRunsOut(i) PROVE StaffInv'
<1>1. overdue' \subseteq Ids /\ overdue \subseteq overdue'
  BY DEF TimeRunsOut, StaffInv, IssuedOK
<1> QED
  BY <1>1, RowsStay DEF TimeRunsOut

LEMMA StaffInvHolds == StaffInit => StaffInv
<1> SUFFICES ASSUME StaffInit PROVE StaffInv
  OBVIOUS
<1>1. StaffRowOK /\ staff.epoch = 0
  BY StaffAssumption DEF StaffInit, StaffRowOK
<1>2. ASSUME NEW i \in Ids
      PROVE  /\ row[i] \in IssuedRows /\ row[i].epoch = 0 /\ row[i].from = NoId
             /\ row[i].status \in {"unused", FirstStatus(i)}
             /\ FirstStatus(i) = IF i \in Sessions THEN "live" ELSE IF i \in Links THEN "issued"
                                 ELSE "pending"
  <2>1. FirstStatus(i) = IF i \in Sessions THEN "live" ELSE IF i \in Links THEN "issued" ELSE "pending"
    BY StaffAssumption DEF FirstStatus, Ids
  <2>2. row[i] \in {Unused, [Unused EXCEPT !.status = FirstStatus(i)]}
    BY DEF StaffInit
  <2>3. FirstStatus(i) \in {"live", "issued", "pending"} /\ 0 \in 0..MaxEpoch
    BY <2>1, StaffAssumption
  <2> QED
    BY <2>1, <2>2, <2>3 DEF Unused, IssuedRows
<1>3. row \in [Ids -> IssuedRows]
  BY <1>2 DEF StaffInit
<1>4. /\ \A i \in Challenges : row[i].status \in {"unused", "pending"}
      /\ \A i \in Links : row[i].status \in {"unused", "issued"}
      /\ \A i \in Sessions : row[i].status \in {"unused", "live"}
  BY <1>2, TableOf
<1>5. IssuedOK
  <2>1. overdue \subseteq Ids
    BY DEF StaffInit
  <2>2. \A i \in Ids : row[i].epoch <= staff.epoch
    BY <1>1, <1>2
  <2> QED
    BY <1>3, <1>4, <2>1, <2>2 DEF IssuedOK, Open
<1>6. OriginsOK /\ NothingOutlivesChange
  BY <1>1, <1>2, TableOf DEF OriginsOK, OneSessionPerLogin, NothingOutlivesChange
<1>7. \A q \in Connections : tx[q] = NoTx
  BY DEF StaffInit
<1>8. TxsOK /\ LocksOK
  BY <1>7, NoTxOK DEF StaffInit, TxsOK, LocksOK
<1> QED
  BY <1>1, <1>5, <1>6, <1>8 DEF StaffInv

LEMMA StaffInvKept == StaffInv /\ [StaffNext]_staffVars => StaffInv'
<1> SUFFICES ASSUME StaffInv, [StaffNext]_staffVars PROVE StaffInv'
  OBVIOUS
<1>1. CASE UNCHANGED staffVars
  BY <1>1, RowsStay DEF staffVars, StaffInv, IssuedOK
<1>2. CASE LockoutEnds
  BY <1>2, LockoutEndsKeeps
<1>3. CASE \E i \in Ids : TimeRunsOut(i)
  BY <1>3, TimeRunsOutKeeps
<1>4. ASSUME NEW p \in Connections,
             \/ BeginAny(p) \/ Rollback(p) \/ StartLogin(p) \/ ClaimStaff(p) \/ ExpireOne(p)
             \/ OpenChallenge(p) \/ CountFailure(p) \/ Press(p) \/ Deny(p) \/ Spend(p) \/ Exhaust(p)
             \/ InsertSession(p)
      PROVE  StaffInv'
  BY <1>4, BeginAnyKeeps, RollbackKeeps, StartLoginKeeps, ClaimStaffKeeps, TakesKeep,
     OpenChallengeKeeps, CountFailureKeeps, PressKeeps, ClosesKeep, SpendKeeps, InsertSessionKeeps
<1>5. ASSUME NEW p \in Connections,
             \/ ClaimOwner(p) \/ SupersedeOne(p) \/ InsertLink(p) \/ Own(p) \/ Touch(p) \/ Answer(p)
             \/ LogOut(p) \/ BeginRevoke(p) \/ RevokeOne(p) \/ EndRevoke(p)
      PROVE  StaffInv'
  BY <1>5, ClaimOwnerKeeps, TakesKeep, InsertLinkKeeps, OwnKeeps, TouchKeeps, AnswersKeep,
     LogOutKeeps, BeginRevokeKeeps
<1>6. ASSUME NEW p \in Connections,
             \/ BeginCli(p) \/ ChangePassword(p) \/ CloseChallenges(p) \/ CloseLinks(p)
             \/ RevokeSessions(p) \/ InvalidateOne(p) \/ CommitInvalidation(p)
      PROVE  StaffInv'
  BY <1>6, BeginCliKeeps, ChangePasswordKeeps, CloseChallengesKeeps, CloseLinksKeeps,
     RevokeSessionsKeeps, TakesKeep, CommitInvalidationKeeps
<1> QED
  BY <1>1, <1>2, <1>3, <1>4, <1>5, <1>6 DEF StaffNext

-----------------------------------------------------------------------------
(* What the invariant says of the properties                               *)

LEMMA StaffIsTyped == StaffInv => StaffTypeOK /\ NothingOutlivesChange /\ OneSessionPerLogin
BY DEF StaffInv, StaffRowOK, IssuedOK, OriginsOK, LocksOK, StaffTypeOK

LEMMA WorkIsLive == StaffInv => WorkIsUnderLiveSession
<1> SUFFICES ASSUME StaffInv, NEW p \in Connections, tx[p].at = "touched", tx[p].id \notin overdue
             PROVE  row[tx[p].id].status = "live" /\ row[tx[p].id].epoch = staff.epoch
  BY DEF WorkIsUnderLiveSession
<1>1. TxOK(tx[p])
  BY TxIs
<1>2. tx[p].id \in DOMAIN tx[p].own /\ tx[p].own[tx[p].id].status = "live"
  BY <1>1 DEF TxOK, StageOK, HoldsOK
<1>3. tx[p].id \in Sessions /\ row[tx[p].id].status = "live"
  BY <1>1, <1>2, TableOf DEF TxOK, WritesOK, Moves
<1> QED
  BY <1>3 DEF StaffInv, NothingOutlivesChange

\* Who waits while others wait for it holds the staff row.
LEMMA WaitingHolder ==
  ASSUME StaffInv, NEW p \in Connections, NEW q \in WaitsFor(p), NEW r \in WaitsFor(q)
  PROVE  q \in Connections \ {p} /\ tx[q].staff
<1>1. q \in Connections \ {p} /\ (tx[q].staff \/ DOMAIN tx[q].own # {})
  <2>1. CASE \E i \in Wants(p) : q \in Holders(p, i)
    BY <2>1 DEF Holders
  <2>2. CASE q \in StaffHolders(p)
    BY <2>2 DEF StaffHolders
  <2>3. q \in UNION {Holders(p, i) : i \in Wants(p)} \/ q \in StaffHolders(p)
    BY Zenon DEF WaitsFor
  <2>4. q \in UNION {Holders(p, i) : i \in Wants(p)} => \E i \in Wants(p) : q \in Holders(p, i)
    BY Zenon
  <2> QED
    BY <2>1, <2>2, <2>3, <2>4
<1>2. WantsStaff(q) \/ Wants(q) # {}
  BY DEF WaitsFor
<1>3. TxOK(tx[q])
  BY <1>1, TxIs
<1>4. tx[q].at \in {"claim", "begun", "touched", "owned", "expire", "supersede", "revoke",
                    "challenges", "links", "sessions"}
  BY <1>2 DEF WantsStaff, Wants
<1>5. tx[q].at = "touched" => tx[q].op = "change"
  BY <1>2 DEF WantsStaff, Wants
<1> QED
  BY <1>1, <1>3, <1>4, <1>5 DEF TxOK, StageOK, HoldsOK, Closing

LEMMA NobodyWaitsInCircle == StaffInv => StaffNoWaitCycle
<1> SUFFICES ASSUME StaffInv, NEW S \in SUBSET Connections, S # {},
                    \A p \in S : WaitsFor(p) \cap S # {}
             PROVE  FALSE
  BY DEF StaffNoWaitCycle
<1>1. PICK p \in S : TRUE
  OBVIOUS
<1>2. PICK q \in S : q \in WaitsFor(p)
  OBVIOUS
<1>3. PICK r \in S : r \in WaitsFor(q)
  OBVIOUS
<1>4. PICK u \in S : u \in WaitsFor(r)
  OBVIOUS
<1>5. tx[q].staff /\ r # q /\ tx[r].staff
  BY <1>2, <1>3, <1>4, WaitingHolder
<1> QED
  BY <1>5 DEF StaffInv, LocksOK

LEMMA LockoutKept ==
  StaffInv /\ [StaffNext]_staffVars =>
    [staff.locked /\ ~staff'.locked =>
       LockoutEnds \/ \E p \in Connections : tx[p].op = "reset" /\ staff'.epoch > staff.epoch]_staffVars
<1> SUFFICES ASSUME StaffInv, StaffNext, staff.locked, ~staff'.locked, ~LockoutEnds
             PROVE  \E p \in Connections : tx[p].op = "reset" /\ staff'.epoch > staff.epoch
  OBVIOUS
<1>1. ASSUME NEW p \in Connections, OpenChallenge(p) PROVE FALSE
  BY <1>1, TxIs DEF OpenChallenge, TxOK, KeepsOK
<1>2. ASSUME NEW p \in Connections, CountFailure(p) PROVE FALSE
  BY <1>2 DEF CountFailure
<1>3. ASSUME NEW p \in Connections, CommitInvalidation(p)
      PROVE  tx[p].op = "reset" /\ staff'.epoch > staff.epoch
  <2>1. TxOK(tx[p]) /\ tx[p].at = "sessions"
    BY <1>3, TxIs DEF CommitInvalidation
  <2>2. tx[p].op \in {"change", "disable", "reset"}
    BY <2>1 DEF TxOK, StageOK, StagesOK, Transacts, AllOps, Closing
  <2>3. tx[p].op # "change"
    BY <2>1 DEF TxOK, KeepsOK, Closing
  <2>4. tx[p].op # "disable"
    BY <1>3 DEF CommitInvalidation
  <2>5. staff'.epoch = staff.epoch + 1 /\ staff.epoch \in Nat
    BY <1>3, StaffAssumption DEF CommitInvalidation, StaffInv, StaffRowOK
  <2> QED
    BY <2>2, <2>3, <2>4, <2>5
<1>4. staff' # staff
  OBVIOUS
<1>5. ASSUME NEW p \in Connections,
             \/ BeginAny(p) \/ Rollback(p) \/ StartLogin(p) \/ ClaimStaff(p) \/ ExpireOne(p)
             \/ Press(p) \/ Deny(p) \/ Spend(p) \/ Exhaust(p)
             \/ InsertSession(p) \/ ClaimOwner(p) \/ SupersedeOne(p) \/ InsertLink(p)
      PROVE  UNCHANGED staff
  BY <1>5 DEF BeginAny, BeginLogin, BeginTx, Rollback, StartLogin, ClaimStaff, ExpireOne, Take,
     Press, Deny, Spend, Exhaust, InsertSession, ClaimOwner, SupersedeOne, InsertLink
<1>6. ASSUME NEW p \in Connections,
             \/ Own(p) \/ Touch(p) \/ Answer(p) \/ LogOut(p) \/ BeginRevoke(p) \/ RevokeOne(p)
             \/ EndRevoke(p) \/ BeginCli(p) \/ ChangePassword(p) \/ CloseChallenges(p)
             \/ CloseLinks(p) \/ RevokeSessions(p) \/ InvalidateOne(p)
      PROVE  UNCHANGED staff
  BY <1>6 DEF Own, LockStaff, Touch, Answer, Commit, LogOut, BeginRevoke, Statement, RevokeOne, Take,
     EndRevoke, BeginCli, ChangePassword, CloseChallenges, CloseLinks, RevokeSessions, InvalidateOne
<1>7. ASSUME NEW i \in Ids, TimeRunsOut(i) PROVE UNCHANGED staff
  BY <1>7 DEF TimeRunsOut
<1> QED
  BY <1>1, <1>2, <1>3, <1>4, <1>5, <1>6, <1>7 DEF StaffNext

\* Nothing issued under credentials that were changed or disabled works afterwards, a login becomes
\* one session, requests work under a live one, a lockout stands and no transactions wait in a
\* circle, for any number of connections, challenges, links and sessions.
THEOREM StaffStaysSafe == StaffSpec => StaffSafe
<1>1. StaffSpec => []StaffInv
  BY StaffInvHolds, StaffInvKept, PTL DEF StaffSpec
<1>2. StaffInv => /\ StaffTypeOK /\ NothingOutlivesChange /\ OneSessionPerLogin
                  /\ WorkIsUnderLiveSession /\ StaffNoWaitCycle
  BY StaffIsTyped, WorkIsLive, NobodyWaitsInCircle
<1>3. StaffSpec => LockoutStands
  BY <1>1, LockoutKept, PTL DEF StaffSpec, LockoutStands
<1> QED
  BY <1>1, <1>2, <1>3, PTL DEF StaffSafe

-----------------------------------------------------------------------------
(* The mailing: what holds in every state                                  *)

JobRows ==
  [status : {"none", "pending", "sent", "failed", "canceled"}, waits : BOOLEAN, fresh : BOOLEAN,
   attempts : 0..MaxAttempts, unknown : BOOLEAN]

MailerRows ==
  [at : {"up", "stopping", "down"}, pass : 0..Len(Kinds), woken : BOOLEAN,
   step : {"idle", "pace", "claim", "lock", "send", "settle", "mark"}, key : Keys \cup {"none"},
   due : SUBSET Keys, gone : SUBSET Keys,
   answer : {"none", "delivered", "refused", "deferred", "retry"}, paused : BOOLEAN]

JobOK(j) ==
  /\ j \in JobRows
  /\ j.unknown => j.status = "sent"
  /\ j.status # "failed" => j.attempts < MaxAttempts

\* A pause finds the sender between two batches.
MailerOK(m) ==
  /\ m \in MailerRows
  /\ m.step \in {"send", "settle"} <=> m.key # "none"
  /\ m.step = "settle" => m.answer # "none"
  /\ m.step # "lock" => m.due = {} /\ m.gone = {}
  /\ m.paused => m.step = "idle"

\* Nothing of m's key has reached the user yet.
Unreached(m) == m.key # "none" /\ ~(m.step = "settle" /\ m.answer = "delivered")

JobsOK == job \in [Keys -> JobRows] /\ \A k \in Keys : JobOK(job[k])

MailersOK == proc \in [Mailers -> MailerRows] /\ \A p \in Mailers : MailerOK(proc[p])

\* A key in a sender's hand is marked sent with an unknown outcome and in no other hand.
HandsOK ==
  /\ \A p \in Mailers : proc[p].key # "none" =>
       /\ job[proc[p].key].status = "sent" /\ job[proc[p].key].unknown
       /\ Unreached(proc[p]) => received[proc[p].key] = 0
  /\ \A p, q \in Mailers : p # q /\ proc[p].key # "none" => proc[p].key # proc[q].key

\* What reached the user stays sent, and what `off` dropped stays canceled.
KeysOK ==
  /\ received \in [Keys -> 0..1]
  /\ \A k \in Keys : received[k] = 1 => job[k].status = "sent"
  /\ dropped \subseteq Keys
  /\ \A k \in dropped \ Replans : job[k].status = "canceled"

ReaderOK ==
  /\ fact \in [Keys -> {"none", "holds", "over"}]
  /\ user \in [level : {"all", "reduced", "off"}, leaving : BOOLEAN, blocked : BOOLEAN, barred : BOOLEAN,
               news : Seq({"member", "kicked"})]
  /\ mailFaults \in Nat

MailingInv == JobsOK /\ MailersOK /\ HandsOK /\ KeysOK /\ ReaderOK

-----------------------------------------------------------------------------
\* A kind of the planner's order is a key.
LEMMA KindIsKey == ASSUME NEW n \in 1..Len(Kinds) PROVE Kinds[n] \in Keys
BY MailingAssumption DEF Keys, Range

\* A pass has a first kind, and a first attempt is not the last failure.
LEMMA FirstKind == 0 \in 0..Len(Kinds) /\ 1 \in 0..Len(Kinds) /\ Len(Kinds) \in Nat
<1> DEFINE n == Len(Kinds)
<1>1. n \in Nat \ {0}
  BY MailingAssumption
<1> HIDE DEF n
<1>2. 0 \in 0..n /\ 1 \in 0..n /\ n \in Nat
  BY <1>1
<1> QED
  BY <1>2 DEF n

LEMMA FirstAttempt == 0 \in 0..MaxAttempts /\ 0 < MaxAttempts /\ MaxAttempts \in Nat
BY MailingAssumption

LEMMA NoneIsNoKey == "none" \notin Keys
BY MailingAssumption

\* One process of the engine moves.
LEMMA MailerMoves ==
  ASSUME MailersOK, NEW p \in Mailers, NEW m, MailerOK(m), proc' = [proc EXCEPT ![p] = m]
  PROVE  MailersOK' /\ proc'[p] = m /\ \A q \in Mailers \ {p} : proc'[q] = proc[q]
BY DEF MailersOK, MailerOK

\* What the senders have in hand stays right while no job that is sent changes but for its age.
LEMMA HandsKept ==
  ASSUME HandsOK, MailersOK, received' = received,
         \A k \in Keys : job[k].status = "sent" =>
                           job'[k].status = "sent" /\ job'[k].unknown = job[k].unknown,
         \A p \in Mailers : proc'[p].key # "none" =>
           proc'[p].key = proc[p].key /\ (Unreached(proc'[p]) => Unreached(proc[p]))
  PROVE  HandsOK'
<1>1. \A p \in Mailers : proc[p].key \in Keys \cup {"none"}
  BY DEF MailersOK, MailerRows
<1>2. ASSUME NEW p \in Mailers, proc'[p].key # "none"
      PROVE  /\ job'[proc'[p].key].status = "sent" /\ job'[proc'[p].key].unknown
             /\ Unreached(proc'[p]) => received'[proc'[p].key] = 0
  BY <1>1, <1>2 DEF HandsOK
<1>3. ASSUME NEW p \in Mailers, NEW q \in Mailers, p # q, proc'[p].key # "none"
      PROVE  proc'[p].key # proc'[q].key
  BY <1>1, <1>3 DEF HandsOK
<1> QED
  BY <1>2, <1>3 DEF HandsOK, Unreached

\* The jobs change, and what is sent or was dropped does not.
LEMMA KeysKept ==
  ASSUME KeysOK, received' = received, dropped' = dropped,
         \A k \in Keys : job[k].status = "sent" => job'[k].status = "sent",
         \A k \in Keys \ Replans : job[k].status = "canceled" => job'[k].status = "canceled"
  PROVE  KeysOK'
BY DEF KeysOK

\* One process moves and keeps the key in its hand, or lays it down.
LEMMA HandMoves ==
  ASSUME MailingInv, NEW p \in Mailers, NEW m, MailerOK(m), proc' = [proc EXCEPT ![p] = m],
         m.key # "none" => m.key = proc[p].key /\ (Unreached(m) => Unreached(proc[p])),
         received' = received, dropped' = dropped, JobsOK',
         \A k \in Keys : job[k].status = "sent" =>
                           job'[k].status = "sent" /\ job'[k].unknown = job[k].unknown,
         \A k \in Keys \ Replans : job[k].status = "canceled" => job'[k].status = "canceled"
  PROVE  MailersOK' /\ HandsOK' /\ KeysOK'
<1>1. MailersOK' /\ proc'[p] = m /\ \A q \in Mailers \ {p} : proc'[q] = proc[q]
  BY MailerMoves DEF MailingInv
<1>2. \A q \in Mailers : proc'[q].key # "none" =>
        proc'[q].key = proc[q].key /\ (Unreached(proc'[q]) => Unreached(proc[q]))
  BY <1>1
<1>3. HandsOK'
  BY <1>2, HandsKept DEF MailingInv
<1>4. KeysOK'
  BY KeysKept DEF MailingInv
<1> QED
  BY <1>1, <1>3, <1>4

\* The same with the jobs as they were.
LEMMA MailerSteps ==
  ASSUME MailingInv, NEW p \in Mailers, NEW m, MailerOK(m), proc' = [proc EXCEPT ![p] = m],
         m.key # "none" => m.key = proc[p].key /\ (Unreached(m) => Unreached(proc[p])),
         UNCHANGED <<job, received, dropped>>
  PROVE  JobsOK' /\ MailersOK' /\ HandsOK' /\ KeysOK'
<1>1. JobsOK'
  BY DEF MailingInv, JobsOK, JobOK
<1> QED
  BY <1>1, HandMoves

\* Jobs change while no process moves.
LEMMA JobsMove ==
  ASSUME MailingInv, proc' = proc, received' = received, dropped' = dropped, JobsOK',
         \A k \in Keys : job[k].status = "sent" =>
                           job'[k].status = "sent" /\ job'[k].unknown = job[k].unknown,
         \A k \in Keys \ Replans : job[k].status = "canceled" => job'[k].status = "canceled"
  PROVE  JobsOK' /\ MailersOK' /\ HandsOK' /\ KeysOK'
<1>1. MailersOK'
  BY DEF MailingInv, MailersOK
<1>2. HandsOK'
  BY HandsKept DEF MailingInv
<1>3. KeysOK'
  BY KeysKept DEF MailingInv
<1> QED
  BY <1>1, <1>2, <1>3

\* A process that lays everything down, as after a stop, a crash or at a start.
LEMMA MailerResets ==
  ASSUME MailingInv, NEW p \in Mailers,
         NEW m \in {[IdleMailer EXCEPT !.at = "down"], [IdleMailer EXCEPT !.pass = 1]},
         proc' = [proc EXCEPT ![p] = m],
         UNCHANGED <<fact, job, user, received, dropped>>, mailFaults' \in Nat
  PROVE  MailingInv'
<1>1. MailerOK(m) /\ m.key = "none"
  BY FirstKind DEF MailerOK, MailerRows, IdleMailer
<1>2. JobsOK' /\ MailersOK' /\ HandsOK' /\ KeysOK'
  BY <1>1, MailerSteps
<1> QED
  BY <1>2 DEF MailingInv, ReaderOK

-----------------------------------------------------------------------------
(* The planner and the facts                                               *)

\* The process after its pass.
LEMMA PassEnds ==
  ASSUME MailingInv, NEW p \in Mailers,
         NEW n \in 0..Len(Kinds), NEW w \in BOOLEAN
  PROVE  LET m == [proc[p] EXCEPT !.pass = n, !.woken = w]
         IN MailerOK(m) /\ m.key = proc[p].key /\ (Unreached(m) => Unreached(proc[p]))
BY DEF MailingInv, MailersOK, MailerOK, MailerRows, Unreached

LEMMA PassStartsKeeps ==
  ASSUME MailingInv, NEW p \in Mailers, PassStarts(p) PROVE MailingInv'
<1> DEFINE m == [proc[p] EXCEPT !.pass = 1, !.woken = FALSE]
<1>1. MailerOK(m) /\ m.key = proc[p].key /\ (Unreached(m) => Unreached(proc[p]))
  BY PassEnds, FirstKind
<1>2. proc' = [proc EXCEPT ![p] = m]
  BY DEF PassStarts, ghosts, MailingInv, MailersOK
<1> HIDE DEF m
<1>3. JobsOK' /\ MailersOK' /\ HandsOK' /\ KeysOK'
  BY <1>1, <1>2, MailerSteps DEF PassStarts, ghosts
<1> QED
  BY <1>3 DEF PassStarts, ghosts, MailingInv, ReaderOK

LEMMA AfterPassIs ==
  ASSUME MailingInv, NEW p \in Mailers
  PROVE  /\ NextPass(p) \in 0..Len(Kinds)
         /\ AfterPass(p) = [proc EXCEPT ![p] = [proc[p] EXCEPT !.pass = NextPass(p), !.woken = FALSE]]
BY FirstKind DEF NextPass, AfterPass, MailingInv, MailersOK

LEMMA PlanFailsKeeps ==
  ASSUME MailingInv, NEW p \in Mailers, PlanFails(p) PROVE MailingInv'
<1> DEFINE m == [proc[p] EXCEPT !.pass = NextPass(p), !.woken = FALSE]
<1>1. MailerOK(m) /\ m.key = proc[p].key /\ (Unreached(m) => Unreached(proc[p]))
  BY PassEnds, AfterPassIs
<1>2. proc' = [proc EXCEPT ![p] = m]
  BY AfterPassIs DEF PlanFails, ghosts
<1> HIDE DEF m
<1>3. JobsOK' /\ MailersOK' /\ HandsOK' /\ KeysOK'
  BY <1>1, <1>2, MailerSteps DEF PlanFails, ghosts
<1> QED
  BY <1>3 DEF PlanFails, ghosts, Fault, MailingInv, ReaderOK

\* One statement of the planner.
LEMMA PlannedIs ==
  ASSUME MailingInv, NEW k \in Keys
  PROVE  /\ JobOK(Planned(k))
         /\ job[k].status = "sent" => Planned(k) = job[k]
         /\ k \notin Replans /\ job[k].status = "canceled" => Planned(k) = job[k]
BY FirstAttempt DEF MailingInv, JobsOK, JobOK, JobRows, Planned, NoJob

LEMMA PlanKindKeeps ==
  ASSUME MailingInv, NEW p \in Mailers, PlanKind(p) PROVE MailingInv'
<1> DEFINE n == proc[p].pass
           k == Kinds[n]
           last == n = Len(Kinds)
           m == [proc[p] EXCEPT !.pass = IF last THEN NextPass(p) ELSE n + 1,
                                !.woken = IF last THEN FALSE ELSE proc[p].woken]
<1>1. n \in 1..Len(Kinds) /\ k \in Keys
  BY MailingAssumption, KindIsKey DEF PlanKind, ghosts, MailingInv, MailersOK, MailerRows
<1>2. MailerOK(m) /\ m.key = proc[p].key /\ (Unreached(m) => Unreached(proc[p]))
  <2>1. (IF last THEN NextPass(p) ELSE n + 1) \in 0..Len(Kinds)
    <3>1. ASSUME NEW a \in Nat, NEW b \in 1..a, b # a PROVE b + 1 \in 0..a
      BY <3>1
    <3> QED
      BY <1>1, <3>1, AfterPassIs, FirstKind
  <2>2. (IF last THEN FALSE ELSE proc[p].woken) \in BOOLEAN
    BY DEF MailingInv, MailersOK, MailerRows
  <2> QED
    BY <2>1, <2>2, PassEnds
<1>3. proc' = [proc EXCEPT ![p] = m]
  <2>1. CASE last
    BY <2>1, AfterPassIs DEF PlanKind, ghosts
  <2>2. CASE ~last
    <3>1. proc[p] \in MailerRows
      BY DEF MailingInv, MailersOK
    <3>2. m = [proc[p] EXCEPT !.pass = n + 1]
      BY <2>2, <3>1 DEF MailerRows
    <3> QED
      BY <2>2, <3>2 DEF PlanKind, ghosts
  <2> QED
    BY <2>1, <2>2
<1>4. JobsOK' /\ \A j \in Keys : job'[j] = job[j] \/ (j = k /\ job'[j] = Planned(j))
  BY <1>1, PlannedIs DEF PlanKind, ghosts, MailingInv, JobsOK, JobOK
<1>5. /\ \A j \in Keys : job[j].status = "sent" =>
                            job'[j].status = "sent" /\ job'[j].unknown = job[j].unknown
      /\ \A j \in Keys \ Replans : job[j].status = "canceled" => job'[j].status = "canceled"
  BY <1>4, PlannedIs
<1> HIDE DEF m
<1>6. MailersOK' /\ HandsOK' /\ KeysOK'
  BY <1>2, <1>3, <1>4, <1>5, HandMoves DEF PlanKind, ghosts
<1> QED
  BY <1>4, <1>6 DEF PlanKind, ghosts, MailingInv, ReaderOK

\* A wake is a pass now, or one more afterwards.
LEMMA WokenIs ==
  ASSUME MailingInv, NEW p \in Mailers
  PROVE  \E n \in 0..Len(Kinds), w \in BOOLEAN :
           Woken(p) = [proc EXCEPT ![p] = [proc[p] EXCEPT !.pass = n, !.woken = w]]
<1>1. proc \in [Mailers -> MailerRows] /\ proc[p] \in MailerRows
  BY DEF MailingInv, MailersOK
<1>2. CASE ~Up(p)
  <2>1. Woken(p) = [proc EXCEPT ![p] = [proc[p] EXCEPT !.pass = proc[p].pass, !.woken = proc[p].woken]]
    BY <1>1, <1>2 DEF Woken, MailerRows
  <2> QED
    BY <1>1, <2>1 DEF MailerRows
<1>3. CASE Up(p) /\ proc[p].pass = 0
  <2>1. Woken(p) = [proc EXCEPT ![p] = [proc[p] EXCEPT !.pass = 1, !.woken = proc[p].woken]]
    BY <1>1, <1>3 DEF Woken, MailerRows
  <2>2. 1 \in 0..Len(Kinds) /\ proc[p].woken \in BOOLEAN
    BY <1>1, FirstKind DEF MailerRows
  <2> QED
    BY <2>1, <2>2
<1>4. CASE Up(p) /\ proc[p].pass # 0
  <2>1. Woken(p) = [proc EXCEPT ![p] = [proc[p] EXCEPT !.pass = proc[p].pass, !.woken = TRUE]]
    BY <1>1, <1>4 DEF Woken, MailerRows
  <2> QED
    BY <1>1, <2>1 DEF MailerRows
<1> QED
  BY <1>2, <1>3, <1>4

LEMMA FactHoldsKeeps ==
  ASSUME MailingInv, NEW k \in Keys, NEW p \in Mailers, FactHolds(k, p) PROVE MailingInv'
<1>1. PICK n \in 0..Len(Kinds), w \in BOOLEAN :
        proc' = [proc EXCEPT ![p] = [proc[p] EXCEPT !.pass = n, !.woken = w]]
  <2>1. CASE k \in Important
    BY <2>1, WokenIs DEF FactHolds, ghosts
  <2>2. CASE k \notin Important
    <3>1. proc' = [proc EXCEPT ![p] = [proc[p] EXCEPT !.pass = proc[p].pass, !.woken = proc[p].woken]]
      BY <2>2 DEF FactHolds, ghosts, MailingInv, MailersOK, MailerRows
    <3> QED
      BY <3>1 DEF MailingInv, MailersOK, MailerRows
  <2> QED
    BY <2>1, <2>2
<1> DEFINE m == [proc[p] EXCEPT !.pass = n, !.woken = w]
<1>2. MailerOK(m) /\ m.key = proc[p].key /\ (Unreached(m) => Unreached(proc[p]))
  BY PassEnds
<1> HIDE DEF m
<1>3. JobsOK' /\ MailersOK' /\ HandsOK' /\ KeysOK'
  BY <1>1, <1>2, MailerSteps DEF FactHolds, ghosts, m
<1> QED
  BY <1>3 DEF FactHolds, ghosts, MailingInv, ReaderOK

LEMMA FactTurnsKeeps ==
  ASSUME MailingInv, NEW k \in Keys, FactTurns(k) PROVE MailingInv'
<1>1. JobsOK' /\ MailersOK' /\ HandsOK' /\ KeysOK'
  BY DEF FactTurns, ghosts, MailingInv, JobsOK, JobOK, MailersOK, HandsOK, Unreached, KeysOK
<1> QED
  BY <1>1 DEF FactTurns, ghosts, Fault, MailingInv, ReaderOK

-----------------------------------------------------------------------------
(* The sender                                                              *)

\* A sender between two jobs goes on to another step without a key.
LEMMA SenderIsFree ==
  ASSUME MailingInv, NEW p \in Mailers, proc[p].key = "none", proc[p].step # "lock",
         NEW s \in {"idle", "pace", "claim", "mark"}, NEW b \in BOOLEAN, b => s = "idle"
  PROVE  LET m == [proc[p] EXCEPT !.step = s, !.paused = b] IN MailerOK(m) /\ m.key = "none"
BY DEF MailingInv, MailersOK, MailerOK, MailerRows

LEMMA SenderGoesOn ==
  ASSUME MailingInv, NEW p \in Mailers, proc[p].key = "none", ~proc[p].paused, proc[p].step # "lock",
         NEW s \in {"idle", "pace", "claim", "mark"},
         proc' = [proc EXCEPT ![p].step = s],
         UNCHANGED <<fact, job, user, received, dropped>>, mailFaults' \in Nat
  PROVE  MailingInv'
<1> DEFINE m == [proc[p] EXCEPT !.step = s, !.paused = FALSE]
<1>1. MailerOK(m) /\ m.key = "none"
  BY SenderIsFree
<1>2. m = [proc[p] EXCEPT !.step = s]
  BY DEF MailingInv, MailersOK, MailerRows
<1>3. proc' = [proc EXCEPT ![p] = m]
  BY <1>2
<1> HIDE DEF m
<1>4. JobsOK' /\ MailersOK' /\ HandsOK' /\ KeysOK'
  BY <1>1, <1>3, MailerSteps
<1> QED
  BY <1>4 DEF MailingInv, ReaderOK

\* Between two jobs a sender holds no key, and it is not paused when it works.
LEMMA StepsWithoutKey ==
  ASSUME MailingInv, NEW p \in Mailers
  PROVE  /\ proc[p].step \in {"idle", "pace", "claim", "lock", "mark"} => proc[p].key = "none"
         /\ proc[p].step # "idle" => ~proc[p].paused
         /\ proc[p].step \in {"send", "settle"} => proc[p].key \in Keys /\ proc[p].key # "none"
BY DEF MailingInv, MailersOK, MailerOK, MailerRows

LEMMA TickStartsKeeps ==
  ASSUME MailingInv, NEW p \in Mailers, TickStarts(p) PROVE MailingInv'
BY StepsWithoutKey, SenderGoesOn DEF TickStarts, ghosts, MailingInv, ReaderOK

LEMMA PacedKeeps ==
  ASSUME MailingInv, NEW p \in Mailers, Paced(p) PROVE MailingInv'
<1>1. CASE Up(p)
  BY <1>1, StepsWithoutKey, SenderGoesOn DEF Paced, ghosts, MailingInv, ReaderOK
<1>2. CASE ~Up(p)
  BY <1>2, StepsWithoutKey, SenderGoesOn DEF Paced, ghosts, MailingInv, ReaderOK
<1> QED
  BY <1>1, <1>2

\* The claim's statement is over, with no job or with one in hand.
ClaimOver(p, s, k) == [proc[p] EXCEPT !.step = s, !.key = k, !.due = {}, !.gone = {}]

LEMMA ClaimEndsEmpty ==
  ASSUME MailingInv, NEW p \in Mailers, proc[p].step \in {"claim", "lock"}
  PROVE  /\ ClaimEnds(p, "idle", "none") = [proc EXCEPT ![p] = ClaimOver(p, "idle", "none")]
         /\ MailerOK(ClaimOver(p, "idle", "none"))
         /\ ClaimOver(p, "idle", "none").key = "none"
         /\ ClaimOver(p, "idle", "none").step = "idle" /\ ClaimOver(p, "idle", "none").due = {}
<1>1. proc[p] \in MailerRows /\ ~proc[p].paused /\ proc \in [Mailers -> MailerRows]
  BY StepsWithoutKey DEF MailingInv, MailersOK
<1> QED
  BY <1>1 DEF ClaimEnds, ClaimOver, MailerOK, MailerRows

LEMMA ClaimEndsFull ==
  ASSUME MailingInv, NEW p \in Mailers, proc[p].step \in {"claim", "lock"}, NEW k \in Keys
  PROVE  /\ ClaimEnds(p, "send", k) = [proc EXCEPT ![p] = ClaimOver(p, "send", k)]
         /\ MailerOK(ClaimOver(p, "send", k)) /\ ClaimOver(p, "send", k).key = k
         /\ ClaimOver(p, "send", k).step = "send" /\ ClaimOver(p, "send", k).due = {}
<1>1. proc[p] \in MailerRows /\ ~proc[p].paused /\ proc \in [Mailers -> MailerRows]
  BY StepsWithoutKey DEF MailingInv, MailersOK
<1> QED
  BY <1>1, NoneIsNoKey DEF ClaimEnds, ClaimOver, MailerOK, MailerRows

LEMMA ClaimFailsKeeps ==
  ASSUME MailingInv, NEW p \in Mailers, ClaimFails(p) PROVE MailingInv'
<1> DEFINE m == ClaimOver(p, "idle", "none")
<1>1. proc' = [proc EXCEPT ![p] = m] /\ MailerOK(m) /\ m.key = "none"
  BY ClaimEndsEmpty DEF ClaimFails
<1> HIDE DEF m
<1>2. JobsOK' /\ MailersOK' /\ HandsOK' /\ KeysOK'
  BY <1>1, MailerSteps DEF ClaimFails, ghosts
<1> QED
  BY <1>2 DEF ClaimFails, ghosts, Fault, MailingInv, ReaderOK

LEMMA ClaimReadsKeeps ==
  ASSUME MailingInv, NEW p \in Mailers, ClaimReads(p) PROVE MailingInv'
<1> DEFINE d == {k \in {j \in Keys : Pending(j) /\ Accepts(j)} : ~Stale(k)}
           g == {k \in {j \in Keys : Pending(j) /\ Accepts(j)} : Stale(k)}
           m == [proc[p] EXCEPT !.step = "lock", !.due = d, !.gone = g]
<1>1. d \in SUBSET Keys /\ g \in SUBSET Keys
  OBVIOUS
<1>2. proc' = [proc EXCEPT ![p] = m]
  BY DEF ClaimReads, MailingInv, MailersOK
<1> HIDE DEF d, g
<1>3. MailerOK(m) /\ m.key = "none"
  BY <1>1, StepsWithoutKey DEF ClaimReads, MailingInv, MailersOK, MailerOK, MailerRows
<1> HIDE DEF m
<1>4. JobsOK' /\ MailersOK' /\ HandsOK' /\ KeysOK'
  BY <1>2, <1>3, MailerSteps DEF ClaimReads, ghosts
<1> QED
  BY <1>4 DEF ClaimReads, ghosts, MailingInv, ReaderOK

LEMMA PauseEndsKeeps ==
  ASSUME MailingInv, NEW p \in Mailers, PauseEnds(p) PROVE MailingInv'
<1> DEFINE m == [proc[p] EXCEPT !.paused = FALSE]
<1>1. MailerOK(m) /\ m.key = proc[p].key /\ (Unreached(m) => Unreached(proc[p]))
  BY DEF MailingInv, MailersOK, MailerOK, MailerRows, Unreached
<1>2. proc' = [proc EXCEPT ![p] = m]
  BY DEF PauseEnds, ghosts
<1> HIDE DEF m
<1>3. JobsOK' /\ MailersOK' /\ HandsOK' /\ KeysOK'
  BY <1>1, <1>2, MailerSteps DEF PauseEnds, ghosts
<1> QED
  BY <1>3 DEF PauseEnds, ghosts, MailingInv, ReaderOK

\* The jobs after the sweep of a claim.
LEMMA SweptIs ==
  ASSUME MailingInv, NEW k \in Keys, Pending(k)
  PROVE  /\ job[k].status = "pending" /\ received[k] = 0
         /\ JobOK([job[k] EXCEPT !.status = "canceled"]) /\ JobOK(Marked(k))
         /\ Marked(k).status = "sent" /\ Marked(k).unknown
         /\ \A q \in Mailers : proc[q].key # k
<1>1. job[k].status = "pending" /\ JobOK(job[k]) /\ job[k] \in JobRows
  BY DEF Pending, MailingInv, JobsOK
<1>2. received[k] = 0
  BY <1>1 DEF MailingInv, KeysOK
<1>3. \A q \in Mailers : proc[q].key # k
  BY <1>1, NoneIsNoKey DEF MailingInv, HandsOK
<1> QED
  BY <1>1, <1>2, <1>3 DEF JobOK, JobRows, Marked

\* The jobs a claim's statement cancels.
Swept(p, skipped) ==
  [k \in Keys |-> IF k \in proc[p].gone \ skipped /\ Pending(k)
                  THEN [job[k] EXCEPT !.status = "canceled"] ELSE job[k]]

LEMMA ClaimKeeps ==
  ASSUME MailingInv, NEW p \in Mailers, Claim(p) PROVE MailingInv'
<1>0. PICK skipped \in SUBSET LockedBeside(p) :
        \/ job' = Swept(p, skipped) /\ proc' = ClaimEnds(p, "idle", "none")
        \/ \E k \in {j \in proc[p].due \ skipped : Pending(j)} :
             job' = [Swept(p, skipped) EXCEPT ![k] = Marked(k)] /\ proc' = ClaimEnds(p, "send", k)
  BY DEF Claim, Swept
<1> DEFINE left == {k \in proc[p].due \ skipped : Pending(k)}
           swept == Swept(p, skipped)
<1>1. /\ swept \in [Keys -> JobRows]
      /\ \A k \in Keys : \/ swept[k] = job[k]
                         \/ Pending(k) /\ swept[k] = [job[k] EXCEPT !.status = "canceled"]
  BY SweptIs DEF Swept, MailingInv, JobsOK, JobOK
<1>2. \A k \in Keys : JobOK(swept[k])
  BY <1>1, SweptIs DEF MailingInv, JobsOK
<1>3. \A k \in Keys :
        /\ job[k].status = "sent" => swept[k].status = "sent" /\ swept[k].unknown = job[k].unknown
        /\ job[k].status = "canceled" => swept[k].status = "canceled"
  BY <1>1, SweptIs
<1>4. proc[p].step = "lock" /\ proc[p].due \subseteq Keys
  BY DEF Claim, MailingInv, MailersOK, MailerRows
<1>5. CASE job' = swept /\ proc' = ClaimEnds(p, "idle", "none")
  <2> DEFINE m == ClaimOver(p, "idle", "none")
  <2>1. proc' = [proc EXCEPT ![p] = m] /\ MailerOK(m) /\ m.key = "none"
    BY <1>4, <1>5, ClaimEndsEmpty
  <2>3. JobsOK'
    BY <1>1, <1>2, <1>5 DEF JobsOK, JobOK
  <2> HIDE DEF m, swept
  <2>4. MailersOK' /\ HandsOK' /\ KeysOK'
    BY <1>3, <1>5, <2>1, <2>3, HandMoves DEF Claim
  <2> QED
    BY <2>3, <2>4 DEF Claim, MailingInv, ReaderOK
<1>6. ASSUME NEW k \in left, job' = [swept EXCEPT ![k] = Marked(k)], proc' = ClaimEnds(p, "send", k)
      PROVE  MailingInv'
  <2> DEFINE m == ClaimOver(p, "send", k)
  <2>1. k \in Keys /\ Pending(k) /\ k # "none"
    BY <1>4, NoneIsNoKey
  <2>2. MailerOK(m) /\ m.key = k /\ m.step = "send"
    BY <1>4, <2>1, ClaimEndsFull
  <2>3. proc' = [proc EXCEPT ![p] = m]
    BY <1>4, <1>6, <2>1, ClaimEndsFull
  <2> HIDE DEF m
  <2>4. MailersOK' /\ proc'[p] = m /\ \A q \in Mailers \ {p} : proc'[q] = proc[q]
    BY <2>2, <2>3, MailerMoves DEF MailingInv
  <2>5. /\ job' \in [Keys -> JobRows] /\ job'[k] = Marked(k)
        /\ \A j \in Keys \ {k} : job'[j] = swept[j]
    <3>1. Marked(k) \in JobRows
      BY <2>1, SweptIs DEF JobOK
    <3> HIDE DEF swept
    <3> QED
      BY <1>1, <1>6, <2>1, <3>1
  <2> HIDE DEF swept
  <2>6. JobsOK'
    <3>1. JobOK(Marked(k))
      BY <2>1, SweptIs
    <3>2. ASSUME NEW j \in Keys PROVE JobOK(job'[j])
      <4>1. CASE j = k
        BY <2>5, <3>1, <4>1
      <4>2. CASE j # k
        <5>1. job'[j] = swept[j]
          BY <2>5, <4>2
        <5>2. JobOK(swept[j])
          BY <1>2
        <5> QED
          BY <5>1, <5>2
      <4> QED
        BY <4>1, <4>2
    <3> QED
      BY <2>5, <3>2 DEF JobsOK, JobOK
  <2>10. job[k].status = "pending" /\ \A q \in Mailers : proc[q].key # k
    BY <2>1, SweptIs
  <2>7. \A j \in Keys : job[j].status = "sent" =>
          j # k /\ job'[j].status = "sent" /\ job'[j].unknown = job[j].unknown
    BY <1>3, <2>5, <2>10
  <2>8. HandsOK'
    <3>1. \A q \in Mailers \ {p} : proc[q].key # "none" => proc[q].key \in Keys /\ proc[q].key # k
      BY <2>10 DEF MailingInv, MailersOK, MailerRows
    <3>2. received' = received /\ received[k] = 0 /\ job'[k].status = "sent" /\ job'[k].unknown
      <4>1. received' = received
        BY DEF Claim
      <4>2. received[k] = 0
        BY <2>1, SweptIs
      <4>3. Marked(k).status = "sent" /\ Marked(k).unknown
        BY <2>1, SweptIs
      <4> QED
        BY <2>5, <4>1, <4>2, <4>3
    <3>3. ASSUME NEW q \in Mailers, proc'[q].key # "none"
          PROVE  /\ job'[proc'[q].key].status = "sent" /\ job'[proc'[q].key].unknown
                 /\ Unreached(proc'[q]) => received'[proc'[q].key] = 0
      <4>1. CASE q = p
        BY <2>2, <2>4, <3>2, <4>1
      <4>2. CASE q # p
        BY <2>4, <2>7, <3>1, <3>2, <3>3, <4>2 DEF MailingInv, HandsOK
      <4> QED
        BY <4>1, <4>2
    <3>4. ASSUME NEW q \in Mailers, NEW r \in Mailers, q # r, proc'[q].key # "none"
          PROVE  proc'[q].key # proc'[r].key
      BY <2>1, <2>2, <2>4, <3>1, <3>4 DEF MailingInv, HandsOK
    <3> QED
      BY <3>3, <3>4 DEF HandsOK, Unreached
  <2>9. KeysOK'
    <3>1. \A j \in Keys \ Replans : j \in dropped => job'[j].status = "canceled"
      BY <1>3, <2>5, <2>10 DEF MailingInv, KeysOK
    <3> QED
      BY <2>7, <3>1 DEF Claim, MailingInv, KeysOK
  <2> QED
    BY <2>4, <2>6, <2>8, <2>9 DEF Claim, MailingInv, ReaderOK
<1> QED
  BY <1>0, <1>5, <1>6

\* What a send leaves of the sender: an answer to settle, or empty hands.
LEMMA SenderAfter ==
  ASSUME MailingInv, NEW p \in Mailers, proc[p].step = "send"
  PROVE  /\ \A a \in {"delivered", "refused", "deferred", "retry"} :
              LET m == [proc[p] EXCEPT !.step = "settle", !.answer = a] IN
              /\ Answered(p, a) = [proc EXCEPT ![p] = m] /\ MailerOK(m) /\ m.key = proc[p].key
              /\ Unreached(m) <=> a # "delivered"
         /\ LET m == [proc[p] EXCEPT !.step = "pace", !.key = "none"] IN
              /\ Lost(p) = [proc EXCEPT ![p] = m] /\ MailerOK(m) /\ m.key = "none"
         /\ Unreached(proc[p]) /\ proc[p].key \in Keys /\ received[proc[p].key] = 0
<1>1. proc[p] \in MailerRows /\ MailerOK(proc[p]) /\ proc \in [Mailers -> MailerRows]
  BY DEF MailingInv, MailersOK
<1>0. proc[p].due = {} /\ proc[p].gone = {}
  BY <1>1 DEF MailerOK
<1>2. Unreached(proc[p]) /\ proc[p].key \in Keys /\ received[proc[p].key] = 0
  BY <1>1, StepsWithoutKey DEF MailingInv, HandsOK, Unreached
<1>3. ASSUME NEW a \in {"delivered", "refused", "deferred", "retry"}
      PROVE  LET m == [proc[p] EXCEPT !.step = "settle", !.answer = a] IN
             /\ Answered(p, a) = [proc EXCEPT ![p] = m] /\ MailerOK(m) /\ m.key = proc[p].key
             /\ Unreached(m) <=> a # "delivered"
  <2> DEFINE m == [proc[p] EXCEPT !.step = "settle", !.answer = a]
  <2>1. /\ m \in MailerRows /\ m.key = proc[p].key /\ m.step = "settle" /\ m.answer = a
        /\ m.paused = proc[p].paused /\ m.due = proc[p].due /\ m.gone = proc[p].gone
    BY <1>1 DEF MailerRows
  <2>2. Answered(p, a) = [proc EXCEPT ![p] = m]
    BY <1>1 DEF Answered
  <2> HIDE DEF m
  <2>3. MailerOK(m)
    BY <1>0, <1>1, <1>2, <2>1 DEF MailerOK, Unreached
  <2>4. Unreached(m) <=> a # "delivered"
    BY <1>2, <2>1 DEF Unreached
  <2> QED
    BY <2>1, <2>2, <2>3, <2>4 DEF m
<1>4. LET m == [proc[p] EXCEPT !.step = "pace", !.key = "none"] IN
        /\ Lost(p) = [proc EXCEPT ![p] = m] /\ MailerOK(m) /\ m.key = "none"
  BY <1>1 DEF Lost, MailerOK, MailerRows
<1> QED
  BY <1>2, <1>3, <1>4

LEMMA BuildFailsKeeps ==
  ASSUME MailingInv, NEW p \in Mailers, BuildFails(p) PROVE MailingInv'
<1> DEFINE m == [proc[p] EXCEPT !.step = "settle", !.answer = "retry"]
<1>1. proc' = [proc EXCEPT ![p] = m] /\ MailerOK(m) /\ m.key = proc[p].key /\ Unreached(proc[p])
  BY SenderAfter DEF BuildFails, ghosts
<1> HIDE DEF m
<1>2. JobsOK' /\ MailersOK' /\ HandsOK' /\ KeysOK'
  BY <1>1, MailerSteps DEF BuildFails, ghosts
<1> QED
  BY <1>2 DEF BuildFails, ghosts, Fault, MailingInv, ReaderOK

\* The message reaches the user once: its key was in this hand only, unreached.
LEMMA ReachesOnce ==
  ASSUME MailingInv, NEW p \in Mailers, proc[p].step = "send", Reaches(p),
         NEW m, MailerOK(m), m.key \in {"none", proc[p].key}, ~Unreached(m),
         proc' = [proc EXCEPT ![p] = m], UNCHANGED <<job, dropped>>
  PROVE  JobsOK' /\ MailersOK' /\ HandsOK' /\ KeysOK'
<1> DEFINE k == proc[p].key
<1>1. k \in Keys /\ k # "none" /\ received[k] = 0 /\ received \in [Keys -> 0..1]
  BY SenderAfter, NoneIsNoKey DEF MailingInv, KeysOK
<1>2. received' \in [Keys -> 0..1] /\ \A j \in Keys \ {k} : received'[j] = received[j]
  BY <1>1 DEF Reaches
<1>3. job[k].status = "sent" /\ job[k].unknown /\ \A q \in Mailers \ {p} : proc[q].key # k
  BY <1>1 DEF MailingInv, HandsOK
<1> HIDE DEF k
<1>4. MailersOK' /\ proc'[p] = m /\ \A q \in Mailers \ {p} : proc'[q] = proc[q]
  BY MailerMoves DEF MailingInv
<1>5. JobsOK'
  BY DEF MailingInv, JobsOK, JobOK
<1>6. KeysOK'
  BY <1>2, <1>3 DEF MailingInv, KeysOK
<1>7. HandsOK'
  <2>1. ASSUME NEW q \in Mailers, proc'[q].key # "none"
        PROVE  /\ job'[proc'[q].key].status = "sent" /\ job'[proc'[q].key].unknown
               /\ Unreached(proc'[q]) => received'[proc'[q].key] = 0
    <3>1. CASE q = p
      BY <1>3, <1>4, <2>1, <3>1 DEF k
    <3>2. CASE q # p
      <4>1. proc'[q] = proc[q] /\ proc[q].key \in Keys \ {k}
        BY <1>3, <1>4, <2>1, <3>2 DEF MailingInv, MailersOK, MailerRows
      <4> QED
        BY <1>2, <2>1, <4>1 DEF MailingInv, HandsOK
    <3> QED
      BY <3>1, <3>2
  <2>2. ASSUME NEW q \in Mailers, NEW r \in Mailers, q # r, proc'[q].key # "none"
        PROVE  proc'[q].key # proc'[r].key
    BY <1>3, <1>4, <2>2 DEF MailingInv, HandsOK, k
  <2> QED
    BY <2>1, <2>2 DEF HandsOK, Unreached
<1> QED
  BY <1>4, <1>5, <1>6, <1>7

LEMMA SendKeeps ==
  ASSUME MailingInv, NEW p \in Mailers, Send(p) PROVE MailingInv'
<1>1. proc[p].step = "send" /\ UNCHANGED <<fact, job, user, dropped>>
  BY DEF Send
<1>2. mailFaults' \in Nat
  BY DEF Send, Fault, MailingInv, ReaderOK
<1> DEFINE m == [proc[p] EXCEPT !.step = "pace", !.key = "none"]
<1>3. Lost(p) = [proc EXCEPT ![p] = m] /\ MailerOK(m) /\ m.key = "none"
  BY <1>1, SenderAfter
<1> HIDE DEF m
<1>4. JobsOK' /\ MailersOK' /\ HandsOK' /\ KeysOK'
  <2>1. CASE Reaches(p) /\ proc' = Answered(p, "delivered")
    <3> DEFINE n == [proc[p] EXCEPT !.step = "settle", !.answer = "delivered"]
    <3>1. proc' = [proc EXCEPT ![p] = n] /\ MailerOK(n) /\ n.key = proc[p].key /\ ~Unreached(n)
      BY <1>1, <2>1, SenderAfter
    <3> HIDE DEF n
    <3> QED
      BY <1>1, <2>1, <3>1, ReachesOnce
  <2>2. CASE Reaches(p) /\ proc' = Lost(p)
    <3>1. ~Unreached(m)
      BY <1>3 DEF Unreached
    <3> QED
      BY <1>1, <1>3, <2>2, <3>1, ReachesOnce
  <2>3. CASE proc' = Lost(p) /\ UNCHANGED received
    BY <1>1, <1>3, <2>3, MailerSteps
  <2>4. ASSUME NEW a \in {"refused", "deferred", "retry"}, proc' = Answered(p, a), UNCHANGED received
        PROVE  JobsOK' /\ MailersOK' /\ HandsOK' /\ KeysOK'
    <3> DEFINE n == [proc[p] EXCEPT !.step = "settle", !.answer = a]
    <3>1. proc' = [proc EXCEPT ![p] = n] /\ MailerOK(n) /\ n.key = proc[p].key /\ Unreached(proc[p])
      BY <1>1, <2>4, SenderAfter
    <3> HIDE DEF n
    <3> QED
      BY <1>1, <2>4, <3>1, MailerSteps
  <2> QED
    BY <2>1, <2>2, <2>3, <2>4 DEF Send
<1> QED
  BY <1>1, <1>2, <1>4 DEF MailingInv, ReaderOK

-----------------------------------------------------------------------------
\* The row after the settlement of the answer in p's hand.
LEMMA SettledIs ==
  ASSUME MailingInv, NEW p \in Mailers, proc[p].step = "settle"
  PROVE  LET k == proc[p].key
             j == Settled(k, proc[p].answer)
         IN /\ k \in Keys /\ k # "none" /\ JobOK(j)
            /\ received[k] = 1 => j.status = "sent"
            /\ job[k].status = "sent" /\ \A q \in Mailers \ {p} : proc[q].key # k
<1> DEFINE k == proc[p].key
           a == proc[p].answer
           j == Settled(k, a)
<1>1. /\ k \in Keys /\ k # "none" /\ a \in {"delivered", "refused", "deferred", "retry"}
      /\ Unreached(proc[p]) <=> a # "delivered"
  BY StepsWithoutKey DEF MailingInv, MailersOK, MailerOK, MailerRows, Unreached
<1>2. /\ job[k].status = "sent" /\ job[k].unknown /\ \A q \in Mailers \ {p} : proc[q].key # k
      /\ a # "delivered" => received[k] = 0
  BY <1>1 DEF MailingInv, HandsOK
<1>3. job[k] \in JobRows /\ job[k].attempts < MaxAttempts
  BY <1>1, <1>2 DEF MailingInv, JobsOK, JobOK
<1> HIDE DEF k, a
<1>4. Spent(k) \in 0..MaxAttempts
  BY <1>3, FirstAttempt DEF Spent, JobRows
<1>5. CASE a = "delivered"
  <2>1. j = [job[k] EXCEPT !.unknown = FALSE]
    BY <1>2, <1>5 DEF Settled
  <2> QED
    BY <1>1, <1>2, <1>3, <2>1 DEF JobOK, JobRows, k, a
<1>6. CASE a = "refused"
  <2>1. j = [NoJob EXCEPT !.status = "failed", !.attempts = Spent(k)]
    BY <1>2, <1>6 DEF Settled
  <2>2. JobOK(j)
    BY <1>4, <2>1 DEF JobOK, JobRows, NoJob
  <2> QED
    BY <1>1, <1>2, <1>6, <2>2 DEF k, a
<1>7. CASE a = "deferred"
  <2>1. j = [NoJob EXCEPT !.status = "pending", !.waits = TRUE, !.attempts = job[k].attempts]
    BY <1>2, <1>7 DEF Settled
  <2>2. JobOK(j)
    BY <1>3, <2>1 DEF JobOK, JobRows, NoJob
  <2> QED
    BY <1>1, <1>2, <1>7, <2>2 DEF k, a
<1>8. CASE a = "retry"
  <2>1. j = Retried(k)
    BY <1>2, <1>8 DEF Settled
  <2>2. JobOK(j)
    <3>1. CASE Spent(k) >= MaxAttempts
      <4>1. j = [NoJob EXCEPT !.status = "failed", !.waits = TRUE, !.attempts = Spent(k)]
        BY <2>1, <3>1 DEF Retried
      <4> QED
        BY <1>4, <4>1 DEF JobOK, JobRows, NoJob
    <3>2. CASE ~(Spent(k) >= MaxAttempts)
      <4>1. j = [NoJob EXCEPT !.status = "pending", !.waits = TRUE, !.attempts = Spent(k)]
        BY <2>1, <3>2 DEF Retried
      <4>2. Spent(k) < MaxAttempts
        BY <1>4, <3>2, FirstAttempt
      <4> QED
        BY <1>4, <4>1, <4>2 DEF JobOK, JobRows, NoJob
    <3> QED
      BY <3>1, <3>2
  <2> QED
    BY <1>1, <1>2, <1>8, <2>2 DEF k, a
<1> QED
  BY <1>1, <1>5, <1>6, <1>7, <1>8 DEF k, a

LEMMA SettleKeeps ==
  ASSUME MailingInv, NEW p \in Mailers, Settle(p) PROVE MailingInv'
<1> DEFINE k == proc[p].key
           j == Settled(k, proc[p].answer)
<1>1. /\ k \in Keys /\ k # "none" /\ JobOK(j)
      /\ received[k] = 1 => j.status = "sent"
      /\ job[k].status = "sent" /\ \A q \in Mailers \ {p} : proc[q].key # k
  BY SettledIs DEF Settle
<1>2. PICK s \in AfterSettle(p) :
        proc' = [proc EXCEPT ![p].step = s, ![p].answer = "none", ![p].key = "none",
                             ![p].paused = @ \/ proc[p].answer = "deferred"]
  BY DEF Settle
<1> DEFINE b == proc[p].paused \/ proc[p].answer = "deferred"
           m == [proc[p] EXCEPT !.step = s, !.answer = "none", !.key = "none", !.paused = b]
<1>3. proc[p] \in MailerRows /\ MailerOK(proc[p]) /\ ~proc[p].paused
  BY StepsWithoutKey DEF Settle, MailingInv, MailersOK
<1>4. s \in {"mark", "idle", "pace"} /\ (proc[p].answer = "deferred" => s = "idle")
  <2>1. proc[p].answer \in {"none", "delivered", "refused", "deferred", "retry"}
    BY <1>3 DEF MailerRows
  <2>2. CASE proc[p].answer = "refused"
    BY <2>2 DEF AfterSettle
  <2>3. CASE proc[p].answer = "deferred"
    BY <2>3 DEF AfterSettle
  <2>4. CASE proc[p].answer \notin {"refused", "deferred"}
    BY <2>4 DEF AfterSettle, NextJob
  <2> QED
    BY <2>2, <2>3, <2>4
<1>5. MailerOK(m) /\ m.key = "none"
  <2>1. /\ m \in MailerRows /\ m.step = s /\ m.key = "none" /\ m.answer = "none" /\ m.paused = b
        /\ m.due = proc[p].due /\ m.gone = proc[p].gone
    BY <1>3, <1>4 DEF MailerRows
  <2>2. proc[p].due = {} /\ proc[p].gone = {} /\ (b => s = "idle")
    BY <1>3, <1>4 DEF MailerOK, Settle
  <2> HIDE DEF m
  <2> QED
    BY <1>4, <2>1, <2>2 DEF MailerOK
<1>6. proc' = [proc EXCEPT ![p] = m]
  BY <1>2 DEF MailingInv, MailersOK
<1> HIDE DEF m, j
<1>7. MailersOK' /\ proc'[p] = m /\ \A q \in Mailers \ {p} : proc'[q] = proc[q]
  BY <1>5, <1>6, MailerMoves DEF MailingInv
<1>8. /\ job' \in [Keys -> JobRows]
      /\ \A i \in Keys : job'[i] = job[i] \/ (i = k /\ job'[i] = j)
  BY <1>1 DEF Settle, MailingInv, JobsOK, JobOK, j
<1>9. JobsOK'
  <2>1. \A i \in Keys : JobOK(job'[i])
    BY <1>1, <1>8 DEF MailingInv, JobsOK
  <2> QED
    BY <1>8, <2>1 DEF JobsOK, JobOK
<1>10. HandsOK'
  <2>1. ASSUME NEW q \in Mailers, proc'[q].key # "none"
        PROVE  /\ job'[proc'[q].key].status = "sent" /\ job'[proc'[q].key].unknown
               /\ Unreached(proc'[q]) => received'[proc'[q].key] = 0
    <3>1. q # p /\ proc'[q] = proc[q] /\ proc[q].key \in Keys \ {k}
      BY <1>1, <1>5, <1>7, <2>1 DEF MailingInv, MailersOK, MailerRows
    <3> QED
      BY <1>8, <2>1, <3>1 DEF Settle, ghosts, MailingInv, HandsOK
  <2>2. ASSUME NEW q \in Mailers, NEW r \in Mailers, q # r, proc'[q].key # "none"
        PROVE  proc'[q].key # proc'[r].key
    BY <1>5, <1>7, <2>2 DEF MailingInv, HandsOK
  <2> QED
    BY <2>1, <2>2 DEF HandsOK, Unreached
<1>11. KeysOK'
  <2>1. \A i \in Keys : received[i] = 1 => job'[i].status = "sent"
    BY <1>1, <1>8 DEF MailingInv, KeysOK
  <2>2. \A i \in Keys \ Replans : i \in dropped => job'[i].status = "canceled"
    BY <1>1, <1>8 DEF MailingInv, KeysOK
  <2> QED
    BY <2>1, <2>2 DEF Settle, ghosts, MailingInv, KeysOK
<1>12. mailFaults' \in Nat
  BY DEF Settle, ghosts, Fault, MailingInv, ReaderOK
<1> QED
  BY <1>7, <1>9, <1>10, <1>11, <1>12 DEF Settle, MailingInv, ReaderOK

\* The jobs after cancelPendingNotificationJobs.
LEMMA CanceledIs ==
  ASSUME MailingInv, NEW except
  PROVE  /\ Canceled(except) \in [Keys -> JobRows]
         /\ \A k \in Keys :
              /\ JobOK(Canceled(except)[k])
              /\ job[k].status = "sent" => Canceled(except)[k] = job[k]
              /\ job[k].status = "canceled" => Canceled(except)[k] = job[k]
              /\ job[k].status = "pending" /\ k \notin except => Canceled(except)[k].status = "canceled"
<1>1. \A k \in Keys : JobOK(job[k])
  BY DEF MailingInv, JobsOK
<1>2. \A k \in Keys : Canceled(except)[k] =
        IF job[k].status = "pending" /\ k \notin except
          THEN [job[k] EXCEPT !.status = "canceled"] ELSE job[k]
  BY DEF Canceled
<1>3. ASSUME NEW k \in Keys
      PROVE  JobOK(Canceled(except)[k]) /\
             (job[k].status = "pending" /\ k \notin except => Canceled(except)[k].status = "canceled")
  BY <1>1, <1>2 DEF JobOK, JobRows
<1>4. Canceled(except) \in [Keys -> JobRows]
  BY <1>2, <1>3 DEF Canceled, JobOK
<1> QED
  BY <1>2, <1>3, <1>4

\* What a cancellation of pending jobs keeps, and an unchanged table as well.
LEMMA CancelKeeps ==
  ASSUME MailingInv, NEW except, job' \in {job, Canceled(except)}
  PROVE  /\ JobsOK'
         /\ \A k \in Keys : /\ job[k].status = "sent" => job'[k] = job[k]
                            /\ job[k].status = "canceled" => job'[k] = job[k]
<1>1. CASE job' = job
  BY <1>1 DEF MailingInv, JobsOK, JobOK
<1>2. CASE job' = Canceled(except)
  BY <1>2, CanceledIs DEF JobsOK, JobOK
<1> QED
  BY <1>1, <1>2

LEMMA MarkKeeps ==
  ASSUME MailingInv, NEW p \in Mailers, Mark(p) PROVE MailingInv'
<1>1. PICK s \in {"pace", "idle"} : proc' = [proc EXCEPT ![p].step = s]
  BY DEF Mark, ghosts, NextJob
<1>2. proc[p].key = "none" /\ ~proc[p].paused /\ proc[p].step # "lock"
  BY StepsWithoutKey DEF Mark
<1> DEFINE m == [proc[p] EXCEPT !.step = s, !.paused = FALSE]
<1>3. MailerOK(m) /\ m.key = "none"
  BY <1>2, SenderIsFree
<1>4. proc' = [proc EXCEPT ![p] = m]
  <2>1. m = [proc[p] EXCEPT !.step = s]
    BY <1>2 DEF MailingInv, MailersOK, MailerRows
  <2> QED
    BY <1>1, <2>1
<1> HIDE DEF m
<1>5. job' \in {job, Canceled({})}
  BY DEF Mark, ghosts
<1>6. JobsOK' /\ \A k \in Keys : /\ job[k].status = "sent" => job'[k] = job[k]
                                 /\ job[k].status = "canceled" => job'[k] = job[k]
  BY <1>5, CancelKeeps
<1>7. received' = received /\ dropped' = dropped
  BY DEF Mark, ghosts
<1>8. MailersOK' /\ HandsOK' /\ KeysOK'
  BY <1>3, <1>4, <1>6, <1>7, HandMoves
<1>9. mailFaults' \in Nat /\ fact' = fact /\ user' \in {user, [user EXCEPT !.blocked = TRUE]}
  BY DEF Mark, ghosts, Fault, MailingInv, ReaderOK
<1>10. ReaderOK'
  BY <1>9 DEF MailingInv, ReaderOK
<1> QED
  BY <1>6, <1>8, <1>10 DEF MailingInv

-----------------------------------------------------------------------------
(* The user and time                                                       *)

LEMMA SetLevelKeeps ==
  ASSUME MailingInv, (\E level \in {"all", "reduced"} : SetLevel(level)) \/ OffCommits PROVE MailingInv'
<1>1. UNCHANGED <<fact, job, proc, received, dropped>> /\ mailFaults' \in Nat
  BY DEF SetLevel, OffCommits, Fault, MailingInv, ReaderOK
<1>2. PICK level \in {"all", "reduced", "off"}, b \in BOOLEAN :
        user' = [user EXCEPT !.level = level, !.leaving = b]
  <2>1. CASE OffCommits
    BY <2>1 DEF OffCommits
  <2>2. ASSUME NEW l \in {"all", "reduced"}, SetLevel(l)
        PROVE  user' = [user EXCEPT !.level = l, !.leaving = user.leaving] /\ user.leaving \in BOOLEAN
    BY <2>2 DEF SetLevel, MailingInv, ReaderOK
  <2> QED
    BY <2>1, <2>2
<1>3. ReaderOK'
  BY <1>1, <1>2 DEF MailingInv, ReaderOK
<1>4. JobsOK'
  BY <1>1 DEF MailingInv, JobsOK, JobOK
<1> QED
  BY <1>1, <1>3, <1>4, JobsMove DEF MailingInv

LEMMA TurnOffKeeps ==
  ASSUME MailingInv, TurnOff PROVE MailingInv'
<1>1. /\ job' = Canceled(Important) /\ proc' = proc /\ received' = received /\ fact' = fact
      /\ dropped' = dropped \cup {k \in Ordinary : job[k].status = "pending"}
  BY DEF TurnOff
<1>2. MailersOK'
  BY <1>1 DEF MailingInv, MailersOK
<1>3. HandsOK'
  BY <1>1, CancelKeeps, HandsKept DEF MailingInv
<1>4. ReaderOK'
  <2>1. fact' = fact /\ mailFaults' \in Nat /\ user' = [user EXCEPT !.leaving = TRUE]
    BY DEF TurnOff, Fault, MailingInv, ReaderOK
  <2> QED
    BY <2>1 DEF MailingInv, ReaderOK
<1>5. KeysOK'
  <2>1. \A k \in Keys : received[k] = 1 => job'[k].status = "sent"
    BY <1>1, CancelKeeps DEF MailingInv, KeysOK
  <2>2. \A k \in Keys \ Replans : k \in dropped' => job'[k].status = "canceled"
    BY <1>1, CanceledIs DEF MailingInv, KeysOK, Ordinary
  <2> QED
    BY <1>1, <2>1, <2>2 DEF MailingInv, KeysOK, Ordinary
<1> QED
  BY <1>1, <1>2, <1>3, <1>4, <1>5, CancelKeeps DEF MailingInv

LEMMA ChatMemberKeeps ==
  ASSUME MailingInv, ChatMember PROVE MailingInv'
<1>1. job' \in {job, Canceled({})}
  BY DEF ChatMember, ghosts
<1>2. JobsOK' /\ MailersOK' /\ HandsOK' /\ KeysOK'
  BY <1>1, CancelKeeps, JobsMove DEF ChatMember, ghosts
<1>3. ReaderOK'
  <2>1. user.news \in Seq({"member", "kicked"}) /\ user.news # <<>>
    BY DEF ChatMember, ghosts, MailingInv, ReaderOK
  <2>2. Tail(user.news) \in Seq({"member", "kicked"})
    BY <2>1
  <2> HIDE <2>1
  <2>3. user' = [user EXCEPT !.blocked = (Head(user.news) = "kicked"), !.news = Tail(user.news)]
    BY DEF ChatMember, ghosts
  <2> DEFINE b == Head(user.news) = "kicked"
             t == Tail(user.news)
  <2>4. b \in BOOLEAN /\ t \in Seq({"member", "kicked"}) /\ user' = [user EXCEPT !.blocked = b, !.news = t]
    BY <2>2, <2>3
  <2> HIDE DEF b, t
  <2> QED
    BY <2>4 DEF ChatMember, ghosts, MailingInv, ReaderOK
<1> QED
  BY <1>2, <1>3 DEF MailingInv

LEMMA NewsKeeps ==
  ASSUME MailingInv, Bar \/ NewsLost \/ Writes PROVE MailingInv'
<1>1. JobsOK' /\ MailersOK' /\ HandsOK' /\ KeysOK'
  <2>1. UNCHANGED <<job, proc, received, dropped>>
    BY DEF Bar, NewsLost, Writes, ghosts
  <2>2. JobsOK'
    BY <2>1 DEF MailingInv, JobsOK, JobOK
  <2> QED
    BY <2>1, <2>2, JobsMove
<1>2. /\ fact' = fact /\ mailFaults' \in Nat
      /\ \E b \in BOOLEAN, c \in BOOLEAN, n \in Seq({"member", "kicked"}) :
           user' = [user EXCEPT !.blocked = b, !.barred = c, !.news = n]
  <2>1. /\ user \in [level : {"all", "reduced", "off"}, leaving : BOOLEAN, blocked : BOOLEAN, barred : BOOLEAN,
                     news : Seq({"member", "kicked"})]
        /\ mailFaults \in Nat
    BY DEF MailingInv, ReaderOK
  <2>5. fact' = fact /\ mailFaults' \in Nat
    BY <2>1 DEF Bar, NewsLost, Writes, Fault
  <2>2. CASE Bar
    <3> DEFINE n == Append(user.news, IF user.barred THEN "member" ELSE "kicked")
    <3>1. n \in Seq({"member", "kicked"})
      <4>1. (IF user.barred THEN "member" ELSE "kicked") \in {"member", "kicked"}
        OBVIOUS
      <4> QED
        BY <2>1, <4>1
    <3>2. user' = [user EXCEPT !.barred = ~user.barred, !.news = n]
      BY <2>2 DEF Bar
    <3> HIDE DEF n
    <3>3. user' = [user EXCEPT !.blocked = user.blocked, !.barred = ~user.barred, !.news = n]
      BY <2>1, <3>2
    <3> QED
      BY <2>1, <2>5, <3>1, <3>3
  <2>3. CASE NewsLost
    <3> DEFINE n == Tail(user.news)
    <3>1. n \in Seq({"member", "kicked"})
      BY <2>1, <2>3 DEF NewsLost
    <3>2. user' = [user EXCEPT !.news = n]
      BY <2>3 DEF NewsLost
    <3> HIDE DEF n
    <3>3. user' = [user EXCEPT !.blocked = user.blocked, !.barred = user.barred, !.news = n]
      BY <2>1, <3>2
    <3> QED
      BY <2>1, <2>5, <3>1, <3>3
  <2>4. CASE Writes
    <3>1. user' = [user EXCEPT !.blocked = FALSE, !.barred = user.barred, !.news = user.news]
      BY <2>1, <2>4 DEF Writes
    <3> QED
      BY <2>1, <2>5, <3>1
  <2> QED
    BY <2>2, <2>3, <2>4
<1>3. ReaderOK'
  BY <1>2 DEF MailingInv, ReaderOK
<1> QED
  BY <1>1, <1>3 DEF MailingInv

LEMMA AgesKeep ==
  ASSUME MailingInv, NEW k \in Keys, DueAgain(k) \/ WindowPasses(k) PROVE MailingInv'
<1>1. JobOK(job[k]) /\ job \in [Keys -> JobRows]
  BY DEF MailingInv, JobsOK
<1>2. PICK w \in BOOLEAN, f \in BOOLEAN : job' = [job EXCEPT ![k] = [job[k] EXCEPT !.waits = w, !.fresh = f]]
  <2>1. CASE DueAgain(k)
    <3>1. job' = [job EXCEPT ![k] = [job[k] EXCEPT !.waits = FALSE, !.fresh = job[k].fresh]]
      BY <1>1, <2>1 DEF DueAgain, JobRows
    <3> QED
      BY <1>1, <3>1 DEF JobRows
  <2>2. CASE WindowPasses(k)
    <3>1. job' = [job EXCEPT ![k] = [job[k] EXCEPT !.waits = job[k].waits, !.fresh = FALSE]]
      BY <1>1, <2>2 DEF WindowPasses, JobRows
    <3> QED
      BY <1>1, <3>1 DEF JobRows
  <2> QED
    BY <2>1, <2>2
<1> DEFINE j == [job[k] EXCEPT !.waits = w, !.fresh = f]
<1>3. JobOK(j) /\ j \in JobRows /\ j.status = job[k].status /\ j.unknown = job[k].unknown
  BY <1>1 DEF JobOK, JobRows
<1> HIDE DEF j
<1>4. /\ job' \in [Keys -> JobRows] /\ job'[k] = j
      /\ \A i \in Keys \ {k} : job'[i] = job[i]
  BY <1>1, <1>2, <1>3 DEF j
<1>5. JobsOK'
  <2>1. \A i \in Keys : JobOK(job'[i])
    BY <1>3, <1>4 DEF MailingInv, JobsOK
  <2> QED
    BY <1>4, <2>1 DEF JobsOK, JobOK
<1>6. \A i \in Keys : job'[i].status = job[i].status /\ job'[i].unknown = job[i].unknown
  BY <1>3, <1>4
<1>7. MailersOK' /\ HandsOK' /\ KeysOK'
  BY <1>5, <1>6, JobsMove DEF DueAgain, WindowPasses, ghosts
<1> QED
  BY <1>5, <1>7 DEF DueAgain, WindowPasses, MailingInv, ReaderOK

-----------------------------------------------------------------------------
(* The processes                                                           *)

LEMMA ProcessKeeps ==
  ASSUME MailingInv, NEW p \in Mailers, Stop(p) \/ Stopped(p) \/ Crash(p) \/ Restart(p)
  PROVE  MailingInv'
<1>1. mailFaults' \in Nat /\ UNCHANGED <<fact, job, user, received, dropped>>
  BY DEF Stop, Stopped, Crash, Restart, ghosts, Fault, MailingInv, ReaderOK
<1>2. CASE Stop(p)
  <2> DEFINE m == [proc[p] EXCEPT !.at = "stopping"]
  <2>1. MailerOK(m) /\ m.key = proc[p].key /\ (Unreached(m) => Unreached(proc[p]))
    BY DEF MailingInv, MailersOK, MailerOK, MailerRows, Unreached
  <2>2. proc' = [proc EXCEPT ![p] = m]
    BY <1>2 DEF Stop
  <2> HIDE DEF m
  <2>3. JobsOK' /\ MailersOK' /\ HandsOK' /\ KeysOK'
    BY <1>1, <2>1, <2>2, MailerSteps
  <2> QED
    BY <1>1, <2>3 DEF MailingInv, ReaderOK
<1>3. CASE Stopped(p) \/ Crash(p) \/ Restart(p)
  BY <1>1, <1>3, MailerResets DEF Stopped, Crash, Restart
<1> QED
  BY <1>2, <1>3

LEMMA MailingInitOK == ASSUME MailingInit PROVE MailingInv
<1>1. JobOK(NoJob) /\ NoJob \in JobRows
  BY FirstAttempt DEF JobOK, JobRows, NoJob
<1>2. MailerOK(IdleMailer) /\ IdleMailer \in MailerRows /\ IdleMailer.key = "none"
  BY FirstKind DEF MailerOK, MailerRows, IdleMailer
<1>3. JobsOK /\ MailersOK
  BY <1>1, <1>2 DEF MailingInit, JobsOK, MailersOK
<1>4. HandsOK
  BY <1>2 DEF MailingInit, HandsOK
<1>5. KeysOK
  BY DEF MailingInit, KeysOK
<1>6. ReaderOK
  BY DEF MailingInit, ReaderOK
<1> QED
  BY <1>3, <1>4, <1>5, <1>6 DEF MailingInv

LEMMA MailingInvKept == ASSUME MailingInv, [MailingNext]_mailingVars PROVE MailingInv'
<1>1. CASE UNCHANGED mailingVars
  <2>1. JobsOK' /\ MailersOK' /\ HandsOK' /\ KeysOK'
    BY <1>1 DEF mailingVars, MailingInv, JobsOK, JobOK, MailersOK, HandsOK, KeysOK, Unreached
  <2> QED
    BY <1>1, <2>1 DEF mailingVars, MailingInv, ReaderOK
<1>2. ASSUME NEW p \in Mailers, Planner(p) PROVE MailingInv'
  BY <1>2, PassStartsKeeps, PlanKindKeeps, PlanFailsKeeps DEF Planner
<1>3. ASSUME NEW p \in Mailers, Sender(p) PROVE MailingInv'
  BY <1>3, TickStartsKeeps, PacedKeeps, ClaimReadsKeeps, ClaimKeeps, ClaimFailsKeeps, BuildFailsKeeps, SendKeeps,
     SettleKeeps, MarkKeeps, PauseEndsKeeps DEF Sender
<1> QED
  BY <1>1, <1>2, <1>3, ProcessKeeps, FactTurnsKeeps, AgesKeep, FactHoldsKeeps, SetLevelKeeps,
     TurnOffKeeps, NewsKeeps, ChatMemberKeeps DEF MailingNext

-----------------------------------------------------------------------------
(* The mailing: what it promises                                           *)

LEMMA MailingInvIsSafe ==
  ASSUME MailingInv PROVE MailingTypeOK /\ NeverTwice /\ OffDrops /\ PauseHolds
<1>1. MailingTypeOK
  <2>1. ASSUME NEW k \in Keys
        PROVE  /\ job[k].status \in {"none", "pending", "sent", "failed", "canceled"}
               /\ job[k].attempts \in 0..MaxAttempts
               /\ job[k].unknown => job[k].status = "sent"
    BY DEF MailingInv, JobsOK, JobOK, JobRows
  <2>2. ASSUME NEW p \in Mailers
        PROVE  /\ proc[p].pass \in 0..Len(Kinds)
               /\ proc[p].step \in {"send", "settle"} <=> proc[p].key # "none"
    BY DEF MailingInv, MailersOK, MailerOK, MailerRows
  <2> QED
    BY <2>1, <2>2 DEF MailingTypeOK, MailingInv, ReaderOK
<1>2. NeverTwice /\ OffDrops
  BY DEF NeverTwice, OffDrops, MailingInv, KeysOK
<1>3. PauseHolds
  BY DEF PauseHolds, MailingInv, MailersOK, MailerOK
<1> QED
  BY <1>1, <1>2, <1>3

-----------------------------------------------------------------------------
(* The mailing: the levels                                                 *)

\* Under `off` what is still in hand began before it, and is the process's only one.
OffOK ==
  user.level = "off" => \A p \in Mailers :
    /\ InHand(p) # {} => p \in begun /\ since[p] = {}
    /\ since[p] # {} => p \in begun
    /\ \A j, k \in since[p] : j = k

\* Under `reduced` a job of the day was begun before the window closed, and is the process's
\* only one.
ReducedOK ==
  user.level = "reduced" => \A p \in Mailers :
    /\ InHand(p) # {} => \A j \in since[p] : ~job[j].fresh
    /\ InHand(p) # {} /\ InWindow => p \in begun
    /\ \A j \in since[p] : job[j].fresh => p \in begun
    /\ \A j, k \in since[p] : job[j].fresh /\ job[k].fresh => j = k

LevelInv ==
  /\ since \in [Mailers -> SUBSET Ordinary] /\ begun \subseteq Mailers
  /\ \A p \in Mailers : \A k \in since[p] : received[k] = 1
  /\ \A p \in Mailers : proc[p].step = "send" => job[proc[p].key].fresh
  /\ OffOK /\ ReducedOK

\* No job becomes fresh or sent.
Fades ==
  \A k \in Keys : /\ job'[k].fresh => job[k].fresh
                  /\ job'[k].status = "sent" => job[k].status = "sent"

\* A sender keeps what it has in hand, or lays it down.
Quiet(p, m) ==
  \/ m.step = proc[p].step /\ m.key = proc[p].key /\ m.due = proc[p].due
  \/ m.step # "send" /\ m.due = {}

\* The steps that bring no sender a job and send none.
LEMMA LevelsCalm ==
  ASSUME MailingInv, LevelInv, UNCHANGED <<received, since, begun>>, user'.level = user.level, Fades,
         \A p \in Mailers :
           /\ InHand(p)' \subseteq InHand(p)
           /\ proc'[p].step = "send" => proc[p].step = "send" /\ proc'[p].key = proc[p].key
                                        /\ job'[proc[p].key].fresh = job[proc[p].key].fresh
  PROVE  LevelInv'
<1>1. \A p \in Mailers : since[p] \subseteq Ordinary
  BY DEF LevelInv
<1>2. \A p \in Mailers : InHand(p)' # {} => InHand(p) # {}
  OBVIOUS
<1>3. \A p \in Mailers : \A j \in since[p] : job'[j].fresh => job[j].fresh
  BY <1>1 DEF Fades, Ordinary
<1>4. InWindow' => InWindow
  BY DEF InWindow, Fades, Ordinary
<1>5. OffOK'
  BY <1>2 DEF LevelInv, OffOK
<1>6. ReducedOK'
  BY <1>2, <1>3, <1>4 DEF LevelInv, ReducedOK
<1>7. \A p \in Mailers : proc'[p].step = "send" => job'[proc'[p].key].fresh
  BY DEF LevelInv
<1> QED
  BY <1>5, <1>6, <1>7 DEF LevelInv

\* One of them is a process's.
LEMMA LevelsMove ==
  ASSUME MailingInv, LevelInv, NEW p \in Mailers, NEW m, Quiet(p, m), proc' = [proc EXCEPT ![p] = m],
         UNCHANGED <<received, since, begun>>, user'.level = user.level, Fades,
         \A q \in Mailers : q # p \/ m.step = "send" =>
           (proc[q].step = "send" => job'[proc[q].key].fresh = job[proc[q].key].fresh)
  PROVE  LevelInv'
<1>1. proc'[p] = m /\ \A q \in Mailers \ {p} : proc'[q] = proc[q]
  BY DEF MailingInv, MailersOK
<1>2. ASSUME NEW q \in Mailers
      PROVE  /\ InHand(q)' \subseteq InHand(q)
             /\ proc'[q].step = "send" => proc[q].step = "send" /\ proc'[q].key = proc[q].key
                                          /\ job'[proc[q].key].fresh = job[proc[q].key].fresh
  <2>1. CASE q = p
    BY <1>1, <2>1 DEF Quiet, InHand
  <2>2. CASE q # p
    BY <1>1, <2>2 DEF InHand
  <2> QED
    BY <2>1, <2>2
<1> QED
  BY <1>2, LevelsCalm

\* With the jobs as they were.
LEMMA LevelsStep ==
  ASSUME MailingInv, LevelInv, NEW p \in Mailers, NEW m, Quiet(p, m), proc' = [proc EXCEPT ![p] = m],
         UNCHANGED <<job, received, since, begun>>, user'.level = user.level
  PROVE  LevelInv'
<1>1. Fades
  BY DEF Fades
<1> QED
  BY <1>1, LevelsMove

\* A pass, a wake and a step between two batches leave the hands alone.
LEMMA QuietSteps ==
  ASSUME MailingInv, NEW p \in Mailers
  PROVE  /\ \A n, w : Quiet(p, [proc[p] EXCEPT !.pass = n, !.woken = w])
         /\ \A a : Quiet(p, [proc[p] EXCEPT !.at = a])
         /\ \A b : Quiet(p, [proc[p] EXCEPT !.paused = b])
         /\ proc[p].step # "lock" => proc[p].due = {}
<1>1. proc[p] \in MailerRows /\ MailerOK(proc[p])
  BY DEF MailingInv, MailersOK
<1> QED
  BY <1>1 DEF Quiet, MailerRows, MailerOK

LEMMA LevelsPlan ==
  ASSUME MailingInv, LevelInv, NEW p \in Mailers, Planner(p) PROVE LevelInv'
<1>1. CASE PassStarts(p)
  <2> DEFINE m == [proc[p] EXCEPT !.pass = 1, !.woken = FALSE]
  <2>1. proc' = [proc EXCEPT ![p] = m] /\ Quiet(p, m)
    BY <1>1, QuietSteps DEF PassStarts, MailingInv, MailersOK
  <2> HIDE DEF m
  <2> QED
    BY <1>1, <2>1, LevelsStep DEF PassStarts, ghosts
<1>2. CASE PlanFails(p)
  <2> DEFINE m == [proc[p] EXCEPT !.pass = NextPass(p), !.woken = FALSE]
  <2>1. proc' = [proc EXCEPT ![p] = m] /\ Quiet(p, m)
    BY <1>2, AfterPassIs, QuietSteps DEF PlanFails
  <2> HIDE DEF m
  <2> QED
    BY <1>2, <2>1, LevelsStep DEF PlanFails, ghosts
<1>3. CASE PlanKind(p)
  <2> DEFINE n == proc[p].pass
             k == Kinds[n]
  <2>1. n \in 1..Len(Kinds) /\ k \in Keys /\ proc[p] \in MailerRows
    BY <1>3, MailingAssumption, KindIsKey DEF PlanKind, MailingInv, MailersOK, MailerRows
  <2>2. \E m : Quiet(p, m) /\ proc' = [proc EXCEPT ![p] = m]
    <3>1. CASE n = Len(Kinds)
      BY <1>3, <3>1, AfterPassIs, QuietSteps DEF PlanKind
    <3>2. CASE n # Len(Kinds)
      <4>1. Quiet(p, [proc[p] EXCEPT !.pass = n + 1])
        BY <2>1 DEF Quiet, MailerRows
      <4> QED
        BY <1>3, <3>2, <4>1 DEF PlanKind
    <3> QED
      BY <3>1, <3>2
  <2>3. \A j \in Keys : job'[j] = job[j] \/ (j = k /\ job'[j] = Planned(j))
    BY <1>3, <2>1 DEF PlanKind, MailingInv, JobsOK
  <2>4. Fades /\ \A j \in Keys : job[j].status = "sent" => job'[j] = job[j]
    BY <2>3, PlannedIs DEF Fades, Planned, NoJob
  <2>5. \A q \in Mailers : proc[q].step = "send" => job'[proc[q].key] = job[proc[q].key]
    BY <2>4, StepsWithoutKey DEF MailingInv, HandsOK
  <2> QED
    BY <1>3, <2>2, <2>4, <2>5, LevelsMove DEF PlanKind, ghosts
<1> QED
  BY <1>1, <1>2, <1>3 DEF Planner

\* What is sent stays as it is, and so what the senders have in hand.
LEMMA SendingStay ==
  ASSUME MailingInv, \A k \in Keys : job[k].status = "sent" => job'[k] = job[k]
  PROVE  \A q \in Mailers : proc[q].step = "send" => job'[proc[q].key] = job[proc[q].key]
BY StepsWithoutKey DEF MailingInv, HandsOK

LEMMA CanceledFades ==
  ASSUME MailingInv, NEW except, job' \in {job, Canceled(except)}
  PROVE  Fades /\ \A k \in Keys : job[k].status = "sent" => job'[k] = job[k]
<1>1. \A k \in Keys : Canceled(except)[k].fresh = job[k].fresh
  BY DEF Canceled, MailingInv, JobsOK, JobRows
<1>2. \A k \in Keys : Canceled(except)[k].status = "sent" => job[k].status = "sent"
  BY DEF Canceled, MailingInv, JobsOK, JobRows
<1> QED
  BY <1>1, <1>2, CancelKeeps DEF Fades

\* What reached the user is sent, and while it is fresh it closes the window.
LEMMA ReachedIsSent ==
  ASSUME MailingInv, LevelInv, NEW q \in Mailers, NEW j \in since[q]
  PROVE  j \in Ordinary /\ job[j].status = "sent" /\ (job[j].fresh => InWindow)
<1>1. j \in Ordinary /\ received[j] = 1
  BY DEF LevelInv
<1>2. job[j].status = "sent"
  BY <1>1 DEF MailingInv, KeysOK, Ordinary
<1> QED
  BY <1>1, <1>2 DEF InWindow

LEMMA LevelsRead ==
  ASSUME MailingInv, LevelInv, NEW p \in Mailers, ClaimReads(p) PROVE LevelInv'
<1> DEFINE due == {k \in Keys : Pending(k) /\ Accepts(k)}
           d == {k \in due : ~Stale(k)}
           g == {k \in due : Stale(k)}
           m == [proc[p] EXCEPT !.step = "lock", !.due = d, !.gone = g]
<1>1. UNCHANGED <<fact, job, user, received, dropped, since, begun>>
  BY DEF ClaimReads, ghosts
<1>2. proc' = [proc EXCEPT ![p] = m] /\ proc[p] \in MailerRows
  BY DEF ClaimReads, MailingInv, MailersOK
<1>3. Ordinary \cap d # {} => user.level = "all" \/ (user.level = "reduced" /\ ~InWindow)
  BY DEF Accepts, Ordinary
<1> HIDE DEF d, g
<1>4. m.step = "lock" /\ m.due = d
  BY <1>2 DEF MailerRows
<1> HIDE DEF m
<1>5. proc'[p] = m /\ \A q \in Mailers \ {p} : proc'[q] = proc[q]
  BY <1>2 DEF MailingInv, MailersOK
<1>6. InHand(p)' = Ordinary \cap d /\ \A q \in Mailers \ {p} : InHand(q)' = InHand(q)
  BY <1>4, <1>5 DEF InHand
<1>7. OffOK'
  BY <1>1, <1>3, <1>6 DEF LevelInv, OffOK
<1>8. ReducedOK'
  <2>1. InWindow' = InWindow
    BY <1>1 DEF InWindow
  <2>2. InHand(p)' # {} /\ user.level = "reduced" => \A j \in since[p] : ~job[j].fresh
    BY <1>3, <1>6, ReachedIsSent
  <2> QED
    BY <1>1, <1>3, <1>6, <2>1, <2>2 DEF LevelInv, ReducedOK
<1>9. \A q \in Mailers : proc'[q].step = "send" => job'[proc'[q].key].fresh
  BY <1>1, <1>4, <1>5 DEF LevelInv
<1> QED
  BY <1>1, <1>7, <1>8, <1>9 DEF LevelInv

\* The jobs a claim cancels.
LEMMA SweptFades ==
  ASSUME MailingInv, NEW p \in Mailers, NEW skipped
  PROVE  /\ Swept(p, skipped) \in [Keys -> JobRows]
         /\ \A j \in Keys : /\ Swept(p, skipped)[j].fresh = job[j].fresh
                            /\ Swept(p, skipped)[j].status = "sent" => job[j].status = "sent"
                            /\ job[j].status = "sent" => Swept(p, skipped)[j] = job[j]
<1>1. job \in [Keys -> JobRows]
  BY DEF MailingInv, JobsOK
<1>2. ASSUME NEW j \in Keys
      PROVE  /\ Swept(p, skipped)[j] \in JobRows
             /\ Swept(p, skipped)[j].fresh = job[j].fresh
             /\ Swept(p, skipped)[j].status = "sent" => job[j].status = "sent"
             /\ job[j].status = "sent" => Swept(p, skipped)[j] = job[j]
  BY <1>1 DEF Swept, Pending, JobRows
<1> QED
  BY <1>2 DEF Swept

LEMMA LevelsClaim ==
  ASSUME MailingInv, LevelInv, NEW p \in Mailers, Claim(p) PROVE LevelInv'
<1>0. PICK skipped \in SUBSET LockedBeside(p) :
        \/ job' = Swept(p, skipped) /\ proc' = ClaimEnds(p, "idle", "none") /\ UNCHANGED begun
        \/ \E k \in {j \in proc[p].due \ skipped : Pending(j)} :
             /\ job' = [Swept(p, skipped) EXCEPT ![k] = Marked(k)] /\ proc' = ClaimEnds(p, "send", k)
             /\ begun' = IF k \in Ordinary /\ user.level = "reduced" /\ ~InWindow THEN Busy ELSE begun
  BY DEF Claim, Swept
<1>1. proc[p].step = "lock" /\ proc[p].due \subseteq Keys /\ UNCHANGED <<user, received, since>>
  BY DEF Claim, MailingInv, MailersOK, MailerRows
<1>2. CASE job' = Swept(p, skipped) /\ proc' = ClaimEnds(p, "idle", "none") /\ UNCHANGED begun
  <2> DEFINE m == ClaimOver(p, "idle", "none")
  <2>1. proc' = [proc EXCEPT ![p] = m] /\ Quiet(p, m)
    BY <1>1, <1>2, ClaimEndsEmpty DEF Quiet
  <2>2. Fades /\ \A k \in Keys : job[k].status = "sent" => job'[k] = job[k]
    BY <1>2, SweptFades DEF Fades
  <2> HIDE DEF m
  <2> QED
    BY <1>1, <1>2, <2>1, <2>2, SendingStay, LevelsMove
<1>3. ASSUME NEW k \in {j \in proc[p].due \ skipped : Pending(j)},
             job' = [Swept(p, skipped) EXCEPT ![k] = Marked(k)], proc' = ClaimEnds(p, "send", k),
             begun' = IF k \in Ordinary /\ user.level = "reduced" /\ ~InWindow THEN Busy ELSE begun
      PROVE  LevelInv'
  <2> DEFINE m == ClaimOver(p, "send", k)
  <2>1. k \in Keys /\ k \in proc[p].due /\ job[k].status = "pending" /\ job[k] \in JobRows
    BY <1>1 DEF Pending, MailingInv, JobsOK
  <2>2. proc' = [proc EXCEPT ![p] = m] /\ m.key = k /\ m.step = "send" /\ m.due = {}
    BY <1>1, <1>3, <2>1, ClaimEndsFull
  <2> HIDE DEF m
  <2>3. proc'[p] = m /\ \A q \in Mailers \ {p} : proc'[q] = proc[q]
    BY <2>2 DEF MailingInv, MailersOK
  <2>4. /\ InHand(p)' = Ordinary \cap {k} /\ InHand(p) = Ordinary \cap proc[p].due
        /\ \A q \in Mailers \ {p} : InHand(q)' = InHand(q)
    BY <1>1, <2>2, <2>3 DEF InHand
  <2>5. \A q \in Mailers : InHand(q)' # {} => InHand(q) # {}
    BY <2>1, <2>4
  <2>6. /\ job'[k] = Marked(k)
        /\ \A j \in Keys \ {k} : /\ job'[j].fresh = job[j].fresh
                                 /\ job'[j].status = "sent" => job[j].status = "sent"
                                 /\ job[j].status = "sent" => job'[j] = job[j]
    <3>1. job'[k] = Marked(k) /\ \A j \in Keys \ {k} : job'[j] = Swept(p, skipped)[j]
      BY <1>3, <2>1, SweptFades
    <3> QED
      BY <3>1, SweptFades
  <2>7. Marked(k).fresh = TRUE
    BY <2>1 DEF Marked, JobRows
  <2>8. \A q \in Mailers : \A j \in since[q] : j \in Keys \ {k} /\ job'[j].fresh = job[j].fresh
    BY <2>1, <2>6, ReachedIsSent DEF Ordinary
  <2>9. \A q \in Mailers : proc'[q].step = "send" => job'[proc'[q].key].fresh
    <3>1. ASSUME NEW q \in Mailers \ {p}, proc[q].step = "send" PROVE job'[proc[q].key].fresh
      <4>1. proc[q].key \in Keys /\ job[proc[q].key].status = "sent"
        BY <3>1, StepsWithoutKey DEF MailingInv, HandsOK
      <4>2. proc[q].key \in Keys \ {k}
        BY <2>1, <4>1
      <4>3. job'[proc[q].key].fresh = job[proc[q].key].fresh
        BY <2>6, <4>2
      <4> QED
        BY <3>1, <4>3 DEF LevelInv
    <3> QED
      BY <2>2, <2>3, <2>6, <2>7, <3>1
  <2>10. OffOK'
    BY <1>1, <1>3, <2>5 DEF LevelInv, OffOK
  <2>11. ReducedOK'
    <3>0. SUFFICES ASSUME user.level = "reduced", NEW q \in Mailers
                   PROVE  /\ InHand(q)' # {} => \A j \in since[q] : ~job'[j].fresh
                          /\ InHand(q)' # {} /\ InWindow' => q \in begun'
                          /\ \A j \in since[q] : job'[j].fresh => q \in begun'
                          /\ \A i, j \in since[q] : job'[i].fresh /\ job'[j].fresh => i = j
      BY <1>1 DEF ReducedOK
    <3>1. /\ InHand(q) # {} => \A j \in since[q] : ~job[j].fresh
          /\ InHand(q) # {} /\ InWindow => q \in begun
          /\ \A j \in since[q] : job[j].fresh => q \in begun
          /\ \A i, j \in since[q] : job[i].fresh /\ job[j].fresh => i = j
      BY <3>0 DEF LevelInv, ReducedOK
    <3>2. InHand(q)' # {} => \A j \in since[q] : ~job'[j].fresh
      BY <2>5, <2>8, <3>1
    <3>3. \A i, j \in since[q] : job'[i].fresh /\ job'[j].fresh => i = j
      BY <2>8, <3>1
    <3>4. CASE k \in Ordinary /\ ~InWindow
      <4>1. begun' = Busy
        BY <1>3, <3>0, <3>4
      <4>2. \A j \in since[q] : ~job'[j].fresh
        BY <2>8, <3>4, ReachedIsSent
      <4> QED
        BY <2>5, <3>2, <3>3, <4>1, <4>2 DEF Busy
    <3>5. CASE ~(k \in Ordinary /\ ~InWindow)
      <4>1. begun' = begun
        BY <1>3, <3>5
      <4>2. InWindow' => InWindow
        BY <2>6, <3>5 DEF InWindow, Ordinary
      <4> QED
        BY <2>5, <2>8, <3>1, <3>2, <3>3, <4>1, <4>2
    <3> QED
      BY <3>4, <3>5
  <2>12. begun' \subseteq Mailers
    BY <1>3 DEF LevelInv, Busy
  <2> QED
    BY <1>1, <2>9, <2>10, <2>11, <2>12 DEF LevelInv
<1> QED
  BY <1>0, <1>2, <1>3

\* A message that reaches the user under `off` or `reduced` was the process's only one in hand.
LEMMA LevelsReach ==
  ASSUME MailingInv, LevelInv, NEW p \in Mailers, proc[p].step = "send", Reaches(p),
         NEW m, m.step # "send", m.due = {}, proc' = [proc EXCEPT ![p] = m],
         UNCHANGED <<job, user, begun>>
  PROVE  LevelInv'
<1> DEFINE k == proc[p].key
<1>1. k \in Keys /\ received[k] = 0 /\ received \in [Keys -> 0..1]
  BY SenderAfter DEF MailingInv, KeysOK
<1>2. job[k].status = "sent" /\ job[k].fresh /\ InHand(p) = Ordinary \cap {k}
  BY <1>1, StepsWithoutKey DEF MailingInv, HandsOK, LevelInv, InHand
<1>3. received'[k] = 1 /\ \A j \in Keys \ {k} : received'[j] = received[j]
  BY <1>1 DEF Reaches
<1> HIDE DEF k
<1>4. proc'[p] = m /\ \A q \in Mailers \ {p} : proc'[q] = proc[q]
  BY DEF MailingInv, MailersOK
<1>5. InHand(p)' = {} /\ \A q \in Mailers \ {p} : InHand(q)' = InHand(q)
  BY <1>4 DEF InHand
<1>6. /\ since' \in [Mailers -> SUBSET Ordinary]
      /\ \A q \in Mailers \ {p} : since'[q] = since[q]
      /\ since'[p] = since[p] \/ (user.level # "all" /\ since'[p] = since[p] \cup InHand(p))
  BY <1>2 DEF Reaches, LevelInv
<1>7. \A q \in Mailers : \A j \in since'[q] : received'[j] = 1
  <2>1. \A q \in Mailers : \A j \in since[q] : j \in Keys /\ received[j] = 1
    BY DEF LevelInv, Ordinary
  <2>2. \A q \in Mailers : \A j \in since[q] : received'[j] = 1
    BY <1>1, <1>3, <2>1
  <2> QED
    BY <1>2, <1>3, <1>6, <2>2
<1>8. \A q \in Mailers : proc'[q].step = "send" => job'[proc'[q].key].fresh
  BY <1>4 DEF LevelInv
<1>9. OffOK'
  BY <1>2, <1>5, <1>6 DEF LevelInv, OffOK
<1>10. ReducedOK'
  <2>1. InWindow' = InWindow
    BY DEF InWindow
  <2>2. InHand(p) # {} => InWindow
    BY <1>2 DEF InWindow
  <2> QED
    BY <1>2, <1>5, <1>6, <2>1, <2>2 DEF LevelInv, ReducedOK
<1> QED
  BY <1>6, <1>7, <1>8, <1>9, <1>10 DEF LevelInv

LEMMA LevelsSend ==
  ASSUME MailingInv, LevelInv, NEW p \in Mailers, Send(p) PROVE LevelInv'
<1>1. proc[p].step = "send" /\ UNCHANGED <<fact, job, user, dropped, begun>>
  BY DEF Send
<1>2. proc[p] \in MailerRows /\ proc[p].due = {} /\ proc \in [Mailers -> MailerRows]
  BY <1>1, QuietSteps DEF MailingInv, MailersOK
<1>3. ASSUME NEW a PROVE \E m : Answered(p, a) = [proc EXCEPT ![p] = m] /\ m.step # "send" /\ m.due = {}
  <2> DEFINE m == [proc[p] EXCEPT !.step = "settle", !.answer = a]
  <2>1. Answered(p, a) = [proc EXCEPT ![p] = m]
    BY <1>2 DEF Answered
  <2>2. m.step # "send" /\ m.due = {}
    BY <1>2 DEF MailerRows
  <2> QED
    BY <2>1, <2>2
<1>4. \E m : Lost(p) = [proc EXCEPT ![p] = m] /\ m.step # "send" /\ m.due = {}
  <2> DEFINE m == [proc[p] EXCEPT !.step = "pace", !.key = "none"]
  <2>1. Lost(p) = [proc EXCEPT ![p] = m]
    BY <1>2 DEF Lost
  <2>2. m.step # "send" /\ m.due = {}
    BY <1>2 DEF MailerRows
  <2> QED
    BY <2>1, <2>2
<1>5. PICK m : proc' = [proc EXCEPT ![p] = m] /\ m.step # "send" /\ m.due = {}
  BY <1>3, <1>4 DEF Send
<1>6. CASE Reaches(p)
  BY <1>1, <1>5, <1>6, LevelsReach
<1>7. CASE UNCHANGED <<received, since>>
  BY <1>1, <1>5, <1>7, LevelsStep DEF Quiet
<1> QED
  BY <1>6, <1>7 DEF Send

LEMMA LevelsSettle ==
  ASSUME MailingInv, LevelInv, NEW p \in Mailers, Settle(p) PROVE LevelInv'
<1> DEFINE k == proc[p].key
           j == Settled(k, proc[p].answer)
<1>1. /\ k \in Keys /\ job[k] \in JobRows /\ job[k].status = "sent"
      /\ \A q \in Mailers \ {p} : proc[q].key # k
  BY SettledIs DEF Settle, MailingInv, JobsOK
<1>2. j.fresh => job[k].fresh
  <2>1. proc[p].answer \in {"delivered", "refused", "deferred", "retry"}
    BY DEF Settle, MailingInv, MailersOK, MailerOK, MailerRows
  <2> QED
    BY <1>1, <2>1 DEF Settled, Retried, NoJob, JobRows
<1>3. PICK s \in AfterSettle(p) :
        proc' = [proc EXCEPT ![p].step = s, ![p].answer = "none", ![p].key = "none",
                             ![p].paused = @ \/ proc[p].answer = "deferred"]
  BY DEF Settle
<1> DEFINE m == [proc[p] EXCEPT !.step = s, !.answer = "none", !.key = "none",
                                !.paused = @ \/ proc[p].answer = "deferred"]
<1>4. s # "send" /\ proc[p] \in MailerRows /\ proc[p].due = {}
  BY QuietSteps DEF AfterSettle, NextJob, Settle, MailingInv, MailersOK
<1>5. proc' = [proc EXCEPT ![p] = m]
  BY <1>3 DEF MailingInv, MailersOK
<1>6. Quiet(p, m) /\ m.step # "send"
  BY <1>4 DEF Quiet, MailerRows
<1> HIDE DEF m, j
<1>7. \A i \in Keys : job'[i] = job[i] \/ (i = k /\ job'[i] = j)
  BY <1>1 DEF Settle, MailingInv, JobsOK, j
<1>8. Fades
  BY <1>1, <1>2, <1>7 DEF Fades
<1>9. \A q \in Mailers : q # p /\ proc[q].step = "send" => job'[proc[q].key] = job[proc[q].key]
  BY <1>1, <1>7, StepsWithoutKey
<1> QED
  BY <1>5, <1>6, <1>8, <1>9, LevelsMove DEF Settle, ghosts

LEMMA LevelsMark ==
  ASSUME MailingInv, LevelInv, NEW p \in Mailers, Mark(p) PROVE LevelInv'
<1>1. PICK s \in {"pace", "idle"} : proc' = [proc EXCEPT ![p].step = s]
  BY DEF Mark, NextJob
<1> DEFINE m == [proc[p] EXCEPT !.step = s]
<1>2. proc' = [proc EXCEPT ![p] = m] /\ Quiet(p, m)
  <2>1. proc[p] \in MailerRows /\ proc[p].due = {} /\ proc \in [Mailers -> MailerRows]
    BY QuietSteps DEF Mark, MailingInv, MailersOK
  <2>2. m.step # "send" /\ m.due = {}
    BY <2>1 DEF MailerRows
  <2> QED
    BY <1>1, <2>1, <2>2 DEF Quiet
<1> HIDE DEF m
<1>3. job' \in {job, Canceled({})} /\ UNCHANGED <<received, since, begun>>
  BY DEF Mark, ghosts
<1>4. Fades /\ \A k \in Keys : job[k].status = "sent" => job'[k] = job[k]
  BY <1>3, CanceledFades
<1>5. user'.level = user.level
  BY DEF Mark, MailingInv, ReaderOK
<1> QED
  BY <1>2, <1>3, <1>4, <1>5, SendingStay, LevelsMove

\* The rest of a sender's steps, and a process that stops, dies and starts.
LEMMA LevelsFree ==
  ASSUME MailingInv, LevelInv, NEW p \in Mailers,
         \/ TickStarts(p) \/ Paced(p) \/ ClaimFails(p) \/ BuildFails(p) \/ PauseEnds(p)
         \/ Stop(p) \/ Stopped(p) \/ Crash(p) \/ Restart(p)
  PROVE  LevelInv'
<1>1. UNCHANGED <<job, received, since, begun, user>>
  BY DEF TickStarts, Paced, ClaimFails, BuildFails, PauseEnds, Stop, Stopped, Crash, Restart, ghosts
<1>2. proc[p] \in MailerRows /\ proc \in [Mailers -> MailerRows]
  BY DEF MailingInv, MailersOK
<1>3. \E m : Quiet(p, m) /\ proc' = [proc EXCEPT ![p] = m]
  <2>1. ASSUME NEW s \in {"idle", "pace", "claim"}, proc[p].step # "lock", proc' = [proc EXCEPT ![p].step = s]
        PROVE  \E m : Quiet(p, m) /\ proc' = [proc EXCEPT ![p] = m]
    <3>1. Quiet(p, [proc[p] EXCEPT !.step = s])
      BY <1>2, <2>1, QuietSteps DEF Quiet, MailerRows
    <3> QED
      BY <2>1, <3>1
  <2>2. CASE TickStarts(p) \/ Paced(p)
    BY <2>1, <2>2 DEF TickStarts, Paced
  <2>3. CASE ClaimFails(p)
    BY <2>3, ClaimEndsEmpty DEF ClaimFails, Quiet
  <2>4. CASE BuildFails(p)
    <3>1. Quiet(p, [proc[p] EXCEPT !.step = "settle", !.answer = "retry"])
      BY <1>2, <2>4, QuietSteps DEF BuildFails, Quiet, MailerRows
    <3>2. Answered(p, "retry") = [proc EXCEPT ![p] = [proc[p] EXCEPT !.step = "settle", !.answer = "retry"]]
      BY <1>2 DEF Answered
    <3> QED
      BY <2>4, <3>1, <3>2 DEF BuildFails
  <2>5. CASE PauseEnds(p)
    BY <2>5, QuietSteps DEF PauseEnds
  <2>6. CASE Stop(p)
    BY <2>6, QuietSteps DEF Stop
  <2>7. CASE Stopped(p) \/ Crash(p) \/ Restart(p)
    BY <2>7 DEF Stopped, Crash, Restart, Quiet, IdleMailer
  <2> QED
    BY <2>2, <2>3, <2>4, <2>5, <2>6, <2>7
<1> QED
  BY <1>1, <1>3, LevelsStep

\* What the facts, the user's messenger and time do.
LEMMA LevelsElse ==
  ASSUME MailingInv, LevelInv,
         \/ TurnOff \/ Bar \/ ChatMember \/ NewsLost \/ Writes
         \/ \E k \in Keys : FactTurns(k) \/ DueAgain(k) \/ WindowPasses(k)
  PROVE  LevelInv'
<1>1. UNCHANGED <<proc, received, since, begun>>
  BY DEF TurnOff, Bar, ChatMember, NewsLost, Writes, FactTurns, DueAgain, WindowPasses, ghosts
<1>2. user'.level = user.level
  BY DEF TurnOff, Bar, ChatMember, NewsLost, Writes, FactTurns, DueAgain, WindowPasses, MailingInv, ReaderOK
<1>3. job \in [Keys -> JobRows]
  BY DEF MailingInv, JobsOK
<1>4. Fades /\ \A p \in Mailers : proc[p].step = "send" =>
                 job'[proc[p].key].fresh = job[proc[p].key].fresh
  <2>1. CASE job' \in {job, Canceled(Important), Canceled({})}
    BY <2>1, CanceledFades, SendingStay
  <2>2. ASSUME NEW k \in Keys, DueAgain(k) PROVE <1>4!1 /\ <1>4!2
    BY <1>3, <2>2, StepsWithoutKey DEF DueAgain, Fades, JobRows
  <2>3. ASSUME NEW k \in Keys, WindowPasses(k) PROVE <1>4!1 /\ <1>4!2
    BY <1>3, <2>3, StepsWithoutKey DEF WindowPasses, Fades, JobRows
  <2> QED
    BY <2>1, <2>2, <2>3 DEF TurnOff, Bar, ChatMember, NewsLost, Writes, FactTurns
<1>5. \A p \in Mailers : InHand(p)' = InHand(p)
  BY <1>1 DEF InHand
<1> QED
  BY <1>1, <1>2, <1>4, <1>5, LevelsCalm

LEMMA LevelsFact ==
  ASSUME MailingInv, LevelInv, NEW k \in Keys, NEW p \in Mailers, FactHolds(k, p) PROVE LevelInv'
<1>1. UNCHANGED <<job, user, received, since, begun>>
  BY DEF FactHolds, ghosts
<1>2. CASE k \in Important
  <2>1. PICK n \in 0..Len(Kinds), w \in BOOLEAN :
          proc' = [proc EXCEPT ![p] = [proc[p] EXCEPT !.pass = n, !.woken = w]]
    BY <1>2, WokenIs DEF FactHolds
  <2>2. Quiet(p, [proc[p] EXCEPT !.pass = n, !.woken = w])
    BY QuietSteps
  <2> QED
    BY <1>1, <2>1, <2>2, LevelsStep
<1>3. CASE k \notin Important
  <2>1. proc' = [proc EXCEPT ![p] = proc[p]] /\ Quiet(p, proc[p])
    BY <1>3 DEF FactHolds, Quiet, MailingInv, MailersOK
  <2> QED
    BY <1>1, <2>1, LevelsStep
<1> QED
  BY <1>2, <1>3

\* A new level: what is in hand was begun before it.
LEMMA LevelsSet ==
  ASSUME MailingInv, LevelInv, (\E level \in {"all", "reduced"} : SetLevel(level)) \/ OffCommits
  PROVE  LevelInv'
<1>1. UNCHANGED <<job, proc, received>>
  BY DEF SetLevel, OffCommits
<1>2. PICK level : user'.level = level /\ LevelIs(level)
  BY DEF SetLevel, OffCommits, MailingInv, ReaderOK
<1>3. \A p \in Mailers : InHand(p)' = InHand(p)
  BY <1>1 DEF InHand
<1>4. CASE level = user.level
  <2>1. UNCHANGED <<since, begun>> /\ Fades
    BY <1>1, <1>2, <1>4 DEF LevelIs, Fades
  <2> QED
    BY <1>1, <1>2, <1>3, <1>4, <2>1, LevelsCalm
<1>5. CASE level # user.level
  <2>1. since' = [p \in Mailers |-> {}] /\ begun' = IF level = "all" THEN {} ELSE Busy
    BY <1>2, <1>5 DEF LevelIs
  <2>2. OffOK' /\ ReducedOK'
    BY <1>2, <1>3, <2>1 DEF OffOK, ReducedOK, Busy
  <2>3. \A p \in Mailers : proc'[p].step = "send" => job'[proc'[p].key].fresh
    BY <1>1 DEF LevelInv
  <2> QED
    BY <2>1, <2>2, <2>3 DEF LevelInv, Busy
<1> QED
  BY <1>4, <1>5

LEMMA LevelInitOK == ASSUME MailingInit PROVE LevelInv
BY DEF MailingInit, LevelInv, OffOK, ReducedOK, IdleMailer, InHand, InWindow

LEMMA LevelInvKept ==
  ASSUME MailingInv, LevelInv, [MailingNext]_mailingVars PROVE LevelInv'
<1>1. CASE UNCHANGED mailingVars
  <2>1. Fades /\ UNCHANGED <<job, proc, received, since, begun, user>>
    BY <1>1 DEF mailingVars, Fades
  <2>2. \A p \in Mailers : InHand(p)' = InHand(p)
    BY <2>1 DEF InHand
  <2> QED
    BY <2>1, <2>2, LevelsCalm
<1>2. ASSUME NEW p \in Mailers, Planner(p) PROVE LevelInv'
  BY <1>2, LevelsPlan
<1>3. ASSUME NEW p \in Mailers, Sender(p) PROVE LevelInv'
  BY <1>3, LevelsFree, LevelsRead, LevelsClaim, LevelsSend, LevelsSettle, LevelsMark DEF Sender
<1> QED
  BY <1>1, <1>2, <1>3, LevelsFree, LevelsElse, LevelsFact, LevelsSet DEF MailingNext

LEMMA LevelInvIsSafe == ASSUME LevelInv PROVE OffStops /\ ReducedOnce
<1>1. OffStops
  BY DEF OffStops, LevelInv, OffOK
<1>2. ReducedOnce
  BY DEF ReducedOnce, LevelInv, ReducedOK
<1> QED
  BY <1>1, <1>2

\* "Nothing is sent twice either way" (engine.ts:172), what waited when the user said `off` never
\* goes out, after an `off` and within the day of `reduced` nothing more reaches the user than the
\* claims already under way could bring, one a process, and a pause of Telegram is kept by every
\* sender: for any kinds, processes, attempts and faults.
THEOREM MailingStaysSafe == MailingSpec => []MailingSafe
<1>1. MailingInit => MailingInv /\ LevelInv
  BY MailingInitOK, LevelInitOK
<1>2. MailingInv /\ LevelInv /\ [MailingNext]_mailingVars => (MailingInv /\ LevelInv)'
  BY MailingInvKept, LevelInvKept
<1>3. MailingInv /\ LevelInv => MailingSafe
  BY MailingInvIsSafe, LevelInvIsSafe DEF MailingSafe
<1> QED
  BY <1>1, <1>2, <1>3, PTL DEF MailingSpec

=============================================================================
