--------------------------- MODULE AccountsProofs ---------------------------
(***************************************************************************)
(* The token service for every set of callers, processes and policies: the  *)
(* pair a login stored is never revoked for another pair's exchange, a      *)
(* block is seen, and no consumed refresh token is presented again.         *)
(*                                                                         *)
(* TokenInv ties a caller's memory to the row: whoever holds the lock       *)
(* remembers the row as it is.  SpentIsOwned says who answers for a row     *)
(* whose refresh token the broker has consumed; it needs OneExchanger, for  *)
(* between the failed transaction and the second one the row is unlocked.   *)
(*                                                                         *)
(* Then the links of broker accounts: LinkInv says that a postback's commit *)
(* still finds what it read, and that a link works alone on its account;    *)
(* the switch of the mode, one outcome a deposit; and the Stars, whose sums *)
(* are counted over any finite set of charges.                              *)
(***************************************************************************)
EXTENDS TokenService, AccountLink, DepositModeSwitch, StarPayments, FiniteSetTheorems, TLAPS

Deciding == {"exchange", "rotated", "unknown", "limited", "invalid"}
Holding  == Deciding \cup {"locked", "commit"}
Flying   == Holding \cup {"locking", "abandon"}
Pcs      == Flying \cup {"idle", "start", "reading", "read", "done"}

CallRow == [pc : Pcs, refused : Nat, read : 0..MaxPairs, held : 0..MaxPairs, hash : 0..MaxPairs,
            tx : SUBSET Rows, exchanged : BOOLEAN, late : BOOLEAN, relinked : BOOLEAN,
            result : Results, pair : 0..MaxPairs, fast : BOOLEAN]

Types ==
  /\ row \in Rows /\ blocked \in BOOLEAN
  /\ issued \in Pairs /\ spent \subseteq 1..issued /\ row.pair <= issued
  /\ lock \in Callers \cup {NoCaller}
  /\ flight \in [Procs -> Callers \cup {NoCaller}]
  /\ call \in [Callers -> CallRow]
  /\ {replayed, excused} \subseteq BOOLEAN

\* The hash is of the pair, or the row was linked before there was a hash.
Hashed(r) == /\ r.hash \in {0, r.pair}
             /\ r.hash = 0 => LegacyRow /\ r.pair = 1

\* Only the flight of a process goes to the lock, and only it holds it.
LockOK(c) ==
  /\ call[c].pc \in Flying => flight[ProcOf[c]] = c
  /\ lock = c <=> call[c].pc \in Holding

\* A caller that came, or got the lock, after the block hands nothing out.
BlockOK(c) ==
  /\ call[c].late => blocked /\ call[c].result # "ok" /\ call[c].pc # "exchange"
  /\ call[c].late /\ call[c].pc = "read" => call[c].read = 0
  /\ call[c].pc \notin {"commit", "abandon", "done"} =>
       call[c].result = "none" /\ ~call[c].exchanged

\* From the decision to the end of the transaction the caller holds the row's pair.
Remembers(c) == call[c].held = row.pair /\ call[c].hash = row.hash /\ PolicyOf[c].mayRefresh

ExchangeReasons == {"refresh_invalid_grant", "refresh_outcome_unknown"}

\* What a transaction may write over the row.
Written(c, r) ==
  /\ row.status = "active" /\ r.status \in {"active", "revoked"}
  /\ r.pair <= issued
  /\ r.pair = row.pair \/ (call[c].exchanged /\ r.pair \notin spent)
  /\ call[c].exchanged /\ r.pair = row.pair => r.status = "revoked"
  /\ r.status = "revoked" /\ r.reason \in ExchangeReasons => call[c].held = row.pair
  /\ Hashed(r)

\* What the caller carries through the exchange, into the commit and into the second transaction.
CarryOK(c) ==
  /\ call[c].pc \in Deciding =>
       /\ Remembers(c) /\ row.status = "active"
       /\ \E r \in Rows : /\ call[c].tx = {r}
                          /\ r.pair = row.pair /\ r.hash = row.hash /\ r.status = "active"
  /\ call[c].pc = "rotated" =>
       call[c].held \in spent /\ call[c].pair \in 1..issued /\ call[c].pair \notin spent
  /\ call[c].pc = "commit" =>
       /\ call[c].tx = {} \/ \E r \in Rows : call[c].tx = {r} /\ Written(c, r)
       /\ call[c].exchanged => Remembers(c) /\ call[c].tx # {}
  /\ call[c].pc = "abandon" =>
       /\ call[c].exchanged /\ PolicyOf[c].mayRefresh /\ call[c].held \in 1..issued
       /\ row.pair = call[c].held => row.status # "pending"
       /\ call[c].hash \in {0, call[c].held}
       /\ call[c].hash = 0 => LegacyRow /\ call[c].held = 1

CallOK(c) == LockOK(c) /\ BlockOK(c) /\ CarryOK(c)

TokenInv == Types /\ Hashed(row) /\ \A c \in Callers : CallOK(c)

-----------------------------------------------------------------------------
(* A step of one caller                                                     *)

\* A login marks the callers it overtakes, and nothing else of theirs.
SameCall(d) ==
  /\ call'[d].pc = call[d].pc /\ call'[d].held = call[d].held /\ call'[d].hash = call[d].hash
  /\ call'[d].tx = call[d].tx /\ call'[d].exchanged = call[d].exchanged
  /\ call'[d].late = call[d].late /\ call'[d].result = call[d].result
  /\ call'[d].pair = call[d].pair /\ call'[d].read = call[d].read

\* A row that is not locked moves on: a pending account was pending with the same pair, or is new.
RowGoes == \/ row'.status # "pending"
           \/ row'.pair > issued
           \/ row'.pair = row.pair /\ row.status = "pending"

\* What the steps of others leave a caller.
CallKept(d) ==
  /\ SameCall(d)
  /\ call[d].pc \in Flying /\ flight[ProcOf[d]] = d => flight'[ProcOf[d]] = d
  /\ lock' = d <=> lock = d
  /\ blocked => blocked'
  /\ lock = d => row' = row /\ spent' = spent
  /\ issued <= issued'
  /\ RowGoes

LEMMA KeptOK ==
  ASSUME Types, Types', NEW d \in Callers, CallOK(d), CallKept(d)
  PROVE  CallOK(d)'
<1>1. LockOK(d)'
  BY DEF CallOK, LockOK, CallKept, SameCall
<1>2. BlockOK(d)'
  BY DEF CallOK, BlockOK, CallKept, SameCall
<1>3. CASE call[d].pc \in Holding
  <2>1. lock = d
    BY <1>3 DEF CallOK, LockOK
  <2>2. row' = row /\ spent' = spent /\ SameCall(d) /\ issued <= issued'
    BY <2>1 DEF CallKept
  <2>3. issued \in Nat /\ issued' \in Nat /\ row.pair \in Nat
    BY DEF Types, Pairs, Rows
  <2>4. call[d].pc \in Deciding => CarryOK(d)'
    BY <2>2, <2>3 DEF CallOK, CarryOK, SameCall, Remembers, Deciding
  <2>5. call[d].pc = "commit" => CarryOK(d)'
    <3>1. \A r \in Rows : Written(d, r) => Written(d, r)'
      BY <2>2, <2>3 DEF Written, SameCall, Hashed, Rows, Pairs
    <3> QED
      BY <2>2, <3>1 DEF CallOK, CarryOK, SameCall, Remembers, Deciding
  <2>6. call[d].pc = "locked" => CarryOK(d)'
    BY <2>2 DEF CarryOK, SameCall, Deciding
  <2> QED
    BY <1>1, <1>2, <1>3, <2>4, <2>5, <2>6 DEF Holding, CallOK
<1>4. CASE call[d].pc = "abandon"
  <2>1. issued \in Nat /\ issued' \in Nat /\ row'.pair \in Nat /\ issued <= issued'
    BY DEF Types, Pairs, Rows, CallKept
  <2>2. /\ call[d].exchanged /\ PolicyOf[d].mayRefresh /\ call[d].held \in 1..issued
        /\ row.pair = call[d].held => row.status # "pending"
        /\ call[d].hash \in {0, call[d].held}
        /\ call[d].hash = 0 => LegacyRow /\ call[d].held = 1
    BY <1>4 DEF CallOK, CarryOK
  <2>3. row'.pair = call[d].held => row'.status # "pending"
    BY <2>1, <2>2 DEF CallKept, RowGoes
  <2>4. CarryOK(d)'
    BY <1>4, <2>1, <2>2, <2>3 DEF CallKept, SameCall, CarryOK, Deciding
  <2> QED
    BY <1>1, <1>2, <2>4 DEF CallOK
<1>5. CASE call[d].pc \notin Holding \cup {"abandon"}
  BY <1>1, <1>2, <1>5 DEF CallKept, SameCall, CallOK, CarryOK, Holding, Deciding
<1> QED
  BY <1>3, <1>4, <1>5

LEMMA OneMoves ==
  ASSUME TokenInv, NEW c \in Callers, Types', Hashed(row)', CallOK(c)',
         \A d \in Callers \ {c} : CallKept(d)
  PROVE  TokenInv'
BY KeptOK DEF TokenInv

\* The steps of one caller that leave the row, the lock and the broker alone.
Quiet(c, new) ==
  /\ call' = [call EXCEPT ![c] = new]
  /\ UNCHANGED <<row, blocked, lock, brokerVars, excused, faults, edits>>
  /\ \/ UNCHANGED flight
     \/ flight[ProcOf[c]] = NoCaller /\ flight' = [flight EXCEPT ![ProcOf[c]] = c]

LEMMA SetCall ==
  ASSUME Types, NEW c \in Callers, NEW new \in CallRow, call' = [call EXCEPT ![c] = new]
  PROVE  /\ call' \in [Callers -> CallRow] /\ call'[c] = new
         /\ \A d \in Callers \ {c} : call'[d] = call[d] /\ SameCall(d)
<1>1. call \in [Callers -> CallRow]
  BY DEF Types
<1> QED
  BY <1>1 DEF SameCall

LEMMA QuietKept ==
  ASSUME TokenAssumption, TokenInv, NEW c \in Callers, NEW new \in CallRow, Quiet(c, new)
  PROVE  /\ Types' /\ Hashed(row)' /\ call'[c] = new
         /\ \A d \in Callers \ {c} : CallKept(d)
<1>1. /\ call' \in [Callers -> CallRow] /\ call'[c] = new
      /\ \A d \in Callers \ {c} : SameCall(d)
  BY SetCall DEF Quiet, TokenInv
<1>2. flight' \in [Procs -> Callers \cup {NoCaller}]
  BY DEF TokenAssumption, TokenInv, Types, Quiet
<1>3. Types' /\ Hashed(row)'
  BY <1>1, <1>2 DEF TokenInv, Types, Quiet, brokerVars, Hashed
<1>4. \A d \in Callers \ {c} : flight[ProcOf[d]] = d => flight'[ProcOf[d]] = d
  BY DEF TokenAssumption, TokenInv, Types, Quiet
<1>5. RowGoes /\ issued <= issued'
  BY DEF TokenInv, Types, Pairs, Quiet, brokerVars, RowGoes
<1> QED
  BY <1>1, <1>3, <1>4, <1>5 DEF CallKept, Quiet, brokerVars

-----------------------------------------------------------------------------
(* Before the lock                                                          *)

LEMMA BeginOK ==
  ASSUME TokenAssumption, TokenInv, NEW c \in Callers, Begin(c)
  PROVE  TokenInv'
<1>1. PICK n \in Nat : call' = [call EXCEPT ![c] = [NoCall EXCEPT !.pc = "start", !.refused = n,
                                                                  !.late = blocked]]
  <2>1. 1..issued \subseteq Nat /\ 0 \in Nat
    BY DEF TokenInv, Types, Pairs
  <2> QED
    BY <2>1 DEF Begin
<1> DEFINE new == [NoCall EXCEPT !.pc = "start", !.refused = n, !.late = blocked]
<1>2. new \in CallRow
  <2>1. blocked \in BOOLEAN /\ 0 \in 0..MaxPairs /\ "start" \in Pcs /\ "none" \in Results
    BY DEF TokenAssumption, TokenInv, Types, Pcs, Results
  <2> QED
    BY <2>1 DEF CallRow, NoCall
<1>3. Quiet(c, new)
  BY <1>1 DEF Quiet, Begin
<1>4. call'[c] = new /\ Types' /\ Hashed(row)' /\ \A d \in Callers \ {c} : CallKept(d)
  BY <1>2, <1>3, QuietKept
<1>5. CallOK(c)'
  BY <1>4 DEF TokenInv, CallOK, LockOK, BlockOK, CarryOK, Begin, NoCall, Flying, Holding, Deciding
<1> QED
  BY <1>4, <1>5, OneMoves

\* Another step of the caller, to a pc that neither holds the lock nor ends the call.
LEMMA EnsureOK ==
  ASSUME TokenAssumption, TokenInv, NEW c \in Callers, EnsureFreshAccessToken(c)
  PROVE  TokenInv'
<1>1. PICK pc \in {"locking", "reading"} :
        /\ call' = [call EXCEPT ![c] = [call[c] EXCEPT !.pc = pc]]
        /\ pc = "locking" => flight' = [flight EXCEPT ![ProcOf[c]] = c]
        /\ pc = "reading" => UNCHANGED flight
  BY DEF EnsureFreshAccessToken, Goes
<1> DEFINE new == [call[c] EXCEPT !.pc = pc]
<1>2. call[c] \in CallRow /\ new \in CallRow
  BY DEF TokenInv, Types, CallRow, Pcs, Flying
<1>3. Quiet(c, new)
  BY <1>1 DEF Quiet, EnsureFreshAccessToken
<1>4. call'[c] = new /\ Types' /\ Hashed(row)' /\ \A d \in Callers \ {c} : CallKept(d)
  BY <1>2, <1>3, QuietKept
<1>5. flight'[ProcOf[c]] = c \/ pc = "reading"
  BY <1>1 DEF TokenAssumption, TokenInv, Types
<1>6. CallOK(c)'
  BY <1>2, <1>4, <1>5 DEF TokenInv, CallOK, LockOK, BlockOK, CarryOK, EnsureFreshAccessToken,
                          CallRow, Flying, Holding, Deciding
<1> QED
  BY <1>4, <1>6, OneMoves

LEMMA ReadOK ==
  ASSUME TokenAssumption, TokenInv, NEW c \in Callers, ReadStoredToken(c)
  PROVE  TokenInv'
<1> DEFINE n == IF FastHit(c) THEN row.pair ELSE 0
           new == [call[c] EXCEPT !.pc = "read", !.read = n]
<1>1. call[c] \in CallRow /\ new \in CallRow
  <2>1. call[c] \in CallRow /\ n \in 0..MaxPairs /\ "read" \in Pcs
    BY DEF TokenAssumption, TokenInv, Types, Rows, Pairs, Pcs
  <2> QED
    BY <2>1 DEF CallRow
<1>2. Quiet(c, new)
  BY DEF Quiet, ReadStoredToken
<1>3. call'[c] = new /\ Types' /\ Hashed(row)' /\ \A d \in Callers \ {c} : CallKept(d)
  BY <1>1, <1>2, QuietKept
<1>4. call[c].late => n = 0
  BY DEF TokenInv, CallOK, BlockOK, FastHit
<1>5. /\ new.pc = "read" /\ new.read = n /\ new.result = "none" /\ ~new.exchanged
      /\ new.late = call[c].late /\ call[c].pc = "reading" /\ CallOK(c)
  BY <1>1 DEF CallRow, TokenInv, CallOK, BlockOK, ReadStoredToken
<1> HIDE DEF n, new
<1>6. CallOK(c)'
  BY <1>2, <1>3, <1>4, <1>5 DEF Quiet, CallOK, LockOK, BlockOK, CarryOK, Flying, Holding, Deciding
<1> QED
  BY <1>3, <1>6, OneMoves

LEMMA FastAnswerOK ==
  ASSUME TokenAssumption, TokenInv, NEW c \in Callers, FastAnswer(c)
  PROVE  TokenInv'
<1> DEFINE again == [call[c] EXCEPT !.pc = "start"]
           hit   == [call[c] EXCEPT !.pc = "done", !.result = "ok", !.pair = call[c].read,
                                    !.fast = TRUE]
           miss  == [call[c] EXCEPT !.pc = "locking"]
<1>1. PICK new \in {again, hit, miss} :
        /\ Quiet(c, new)
        /\ new = hit => call[c].read # 0
        /\ new = miss => flight' = [flight EXCEPT ![ProcOf[c]] = c]
  <2>1. call[c] \in CallRow
    BY DEF TokenInv, Types
  <2>2. again.pc = "start" /\ hit.pc = "done" /\ miss.pc = "locking"
    BY <2>1 DEF CallRow
  <2> QED
    BY <2>2 DEF FastAnswer, Goes, Quiet
<1>2. call[c] \in CallRow /\ new \in CallRow
  <2>1. call[c] \in CallRow /\ {"start", "done", "locking"} \subseteq Pcs /\ "ok" \in Results
    BY DEF TokenInv, Types, Pcs, Flying, Results
  <2>2. again \in CallRow /\ miss \in CallRow
    BY <2>1 DEF CallRow
  <2>3. hit \in CallRow
    BY <2>1 DEF CallRow
  <2> QED
    BY <2>1, <2>2, <2>3
<1>3. call'[c] = new /\ Types' /\ Hashed(row)' /\ \A d \in Callers \ {c} : CallKept(d)
  BY <1>1, <1>2, QuietKept
<1>4. new = hit => ~call[c].late
  BY <1>1 DEF TokenInv, CallOK, BlockOK, FastAnswer
<1>5. new = miss => flight'[ProcOf[c]] = c
  BY <1>1 DEF TokenAssumption, TokenInv, Types
<1>6. /\ new.pc \in {"start", "done", "locking"} /\ new.late = call[c].late
      /\ new.pc = "locking" => new = miss
      /\ new.pc # "done" => new.result = "none" /\ ~new.exchanged
      /\ new.pc = "done" => new = hit
      /\ call[c].pc = "read" /\ CallOK(c) /\ call[c].result = "none"
  BY <1>2 DEF CallRow, TokenInv, CallOK, BlockOK, FastAnswer
<1> HIDE DEF again, hit, miss
<1>7. CallOK(c)'
  BY <1>1, <1>3, <1>4, <1>5, <1>6 DEF Quiet, CallOK, LockOK, BlockOK, CarryOK, Flying, Holding,
                                      Deciding
<1> QED
  BY <1>3, <1>7, OneMoves

-----------------------------------------------------------------------------
(* Under the lock                                                           *)

LEMMA LockAccountOK ==
  ASSUME TokenAssumption, TokenInv, NEW c \in Callers, LockAccount(c)
  PROVE  TokenInv'
<1> DEFINE new == [call[c] EXCEPT !.pc = "locked", !.late = blocked]
<1>1. call[c] \in CallRow /\ new \in CallRow
  <2>1. call[c] \in CallRow /\ "locked" \in Pcs /\ blocked \in BOOLEAN
    BY DEF TokenInv, Types, Pcs, Flying, Holding
  <2> QED
    BY <2>1 DEF CallRow
<1>2. call' = [call EXCEPT ![c] = new]
  BY DEF LockAccount
<1>3. /\ call' \in [Callers -> CallRow] /\ call'[c] = new
      /\ \A d \in Callers \ {c} : SameCall(d)
  BY <1>1, <1>2, SetCall DEF TokenInv
<1>4. Types' /\ Hashed(row)'
  BY <1>3 DEF TokenInv, Types, LockAccount, brokerVars, Hashed
<1>5. \A d \in Callers \ {c} : CallKept(d)
  BY <1>3 DEF TokenAssumption, TokenInv, Types, Pairs, LockAccount, brokerVars, CallKept, RowGoes
<1>6. /\ new.pc = "locked" /\ new.late = blocked /\ new.result = "none" /\ ~new.exchanged
      /\ call[c].pc = "locking" /\ CallOK(c)
  BY <1>1 DEF CallRow, TokenInv, CallOK, BlockOK, LockAccount
<1> HIDE DEF new
<1>7. CallOK(c)'
  BY <1>3, <1>6 DEF LockAccount, CallOK, LockOK, BlockOK, CarryOK, Flying, Holding, Deciding
<1> QED
  BY <1>3, <1>4, <1>5, <1>7, OneMoves

\* A caller at the lock, on the way to the exchange or after it; lock, flight and row stay.
AtLock(c) == /\ call[c] \in CallRow /\ CallOK(c)
             /\ lock = c /\ flight[ProcOf[c]] = c /\ Hashed(row)
             /\ row \in Rows /\ row.pair \in 1..issued /\ issued \in Nat /\ MaxPairs \in Nat
             /\ issued <= MaxPairs

LEMMA HoldsLock ==
  ASSUME TokenAssumption, TokenInv, NEW c \in Callers, call[c].pc \in Holding
  PROVE  AtLock(c) /\ \A d \in Callers \ {c} : call[d].pc \notin Holding
<1>1. lock = c /\ flight[ProcOf[c]] = c
  BY DEF TokenInv, CallOK, LockOK, Flying
<1>2. \A d \in Callers \ {c} : call[d].pc \notin Holding
  BY <1>1 DEF TokenInv, CallOK, LockOK
<1> QED
  BY <1>1, <1>2 DEF AtLock, TokenInv, Types, Rows, Pairs, TokenAssumption

\* What the caller may write over the row it has locked.
MayWrite(c, r, exchanged) ==
  /\ row.status = "active" /\ r.status \in {"active", "revoked"}
  /\ r.pair <= issued /\ Hashed(r)
  /\ r.pair = row.pair \/ (exchanged /\ r.pair \notin spent)
  /\ exchanged /\ r.pair = row.pair => r.status = "revoked"
  /\ r.status = "revoked" /\ r.reason \in ExchangeReasons => call[c].held = row.pair

MayEnd(c, writes, result, exchanged) ==
  /\ result \in Results /\ (call[c].late => result # "ok")
  /\ \/ writes = {} /\ ~exchanged
     \/ \E r \in Rows : writes = {r} /\ MayWrite(c, r, exchanged)
  /\ exchanged => Remembers(c)

\* The transaction ends with these writes; exchanged says whether the pair may be spent.
EndsAs(c, writes, result, exchanged, n) ==
  /\ call[c] \in CallRow /\ n \in 0..MaxPairs /\ exchanged \in BOOLEAN
  /\ call' = [call EXCEPT ![c] = [call[c] EXCEPT !.pc = "commit", !.tx = writes, !.result = result,
                                                 !.exchanged = exchanged, !.pair = n]]
  /\ UNCHANGED <<row, blocked, lock, flight, brokerVars, excused, faults, edits>>

LEMMA EndsOK ==
  ASSUME TokenAssumption, TokenInv, NEW c \in Callers, call[c].pc \in Holding,
         NEW writes, NEW result, NEW exchanged, NEW n,
         EndsAs(c, writes, result, exchanged, n), MayEnd(c, writes, result, exchanged)
  PROVE  TokenInv'
<1> DEFINE new == [call[c] EXCEPT !.pc = "commit", !.tx = writes, !.result = result,
                                  !.exchanged = exchanged, !.pair = n]
<1>1. new \in CallRow
  <2>1. "commit" \in Pcs /\ writes \in SUBSET Rows /\ result \in Results
    BY DEF Pcs, Flying, Holding, MayEnd
  <2> QED
    BY <2>1 DEF CallRow, EndsAs
<1>2. Quiet(c, new) /\ UNCHANGED flight
  BY DEF Quiet, EndsAs
<1>3. call'[c] = new /\ Types' /\ Hashed(row)' /\ \A d \in Callers \ {c} : CallKept(d)
  BY <1>1, <1>2, QuietKept
<1>4. AtLock(c)
  BY HoldsLock
<1>5. UNCHANGED <<row, lock, flight, blocked, issued, spent>>
  BY DEF EndsAs, brokerVars
<1>6. /\ new.pc = "commit" /\ new.tx = writes /\ new.result = result /\ new.late = call[c].late
      /\ new.exchanged = exchanged /\ new.held = call[c].held /\ new.hash = call[c].hash
  BY DEF EndsAs, CallRow
<1> HIDE DEF new
<1>7. LockOK(c)'
  BY <1>3, <1>4, <1>5, <1>6 DEF AtLock, LockOK, Flying, Holding
<1>8. BlockOK(c)'
  BY <1>3, <1>4, <1>5, <1>6 DEF AtLock, CallOK, BlockOK, MayEnd
<1>9. CarryOK(c)'
  <2>1. exchanged => Remembers(c)' /\ writes # {}
    BY <1>3, <1>5, <1>6 DEF MayEnd, Remembers
  <2>2. writes = {} \/ \E r \in Rows : writes = {r} /\ Written(c, r)'
    BY <1>3, <1>5, <1>6 DEF MayEnd, MayWrite, Written, Hashed
  <2> QED
    BY <1>3, <1>6, <2>1, <2>2 DEF CarryOK, Deciding
<1> QED
  BY <1>3, <1>7, <1>8, <1>9, OneMoves DEF CallOK

LEMMA RowFields ==
  ASSUME NEW r \in Rows
  PROVE  /\ \A reason \in Reasons :
              /\ RevokedBy(r, reason) \in Rows
              /\ RevokedBy(r, reason).pair = r.pair /\ RevokedBy(r, reason).hash = r.hash
              /\ RevokedBy(r, reason).status = "revoked" /\ RevokedBy(r, reason).reason = reason
         /\ LET e == [r EXCEPT !.access = "expired"]
            IN  /\ e \in Rows /\ e.pair = r.pair /\ e.hash = r.hash /\ e.status = r.status
<1> DEFINE Keys == {KeyOf[p] : p \in Procs}
<1>1. r \in [status : {"pending", "active", "revoked"}, reason : Reasons, pair : Pairs,
             hash : 0..MaxPairs, access : Ages, aged : BOOLEAN, intact : BOOLEAN, key : Keys]
  BY DEF Rows
<1>2. Rows = [status : {"pending", "active", "revoked"}, reason : Reasons, pair : Pairs,
              hash : 0..MaxPairs, access : Ages, aged : BOOLEAN, intact : BOOLEAN, key : Keys]
  BY DEF Rows
<1>3. "expired" \in Ages
  BY DEF Ages
<1> HIDE DEF Keys
<1> QED
  BY <1>1, <1>2, <1>3 DEF RevokedBy

\* The exchange begins with the row as it is, but that its access token may be marked expired.
Exchanges(c, r) ==
  /\ PolicyOf[c].mayRefresh /\ row.status = "active"
  /\ r \in Rows /\ r.pair = row.pair /\ r.hash = row.hash /\ r.status = "active"
  /\ call' = [call EXCEPT ![c] = [call[c] EXCEPT !.pc = "exchange", !.tx = {r}, !.held = r.pair,
                                                 !.hash = r.hash]]
  /\ UNCHANGED <<row, blocked, lock, flight, brokerVars, excused, faults, edits>>

LEMMA ExchangesOK ==
  ASSUME TokenAssumption, TokenInv, NEW c \in Callers, call[c].pc = "locked", ~call[c].late,
         NEW r, Exchanges(c, r)
  PROVE  TokenInv'
<1> DEFINE new == [call[c] EXCEPT !.pc = "exchange", !.tx = {r}, !.held = r.pair, !.hash = r.hash]
<1>1. AtLock(c) /\ call[c].pc \in Holding
  BY HoldsLock DEF Holding
<1>2. new \in CallRow
  <2>1. "exchange" \in Pcs /\ {r} \in SUBSET Rows /\ r.pair \in 0..MaxPairs /\ r.hash \in 0..MaxPairs
    BY <1>1 DEF Pcs, Flying, Holding, Deciding, Exchanges, AtLock, Rows
  <2> QED
    BY <1>1, <2>1 DEF CallRow, AtLock
<1>3. Quiet(c, new) /\ UNCHANGED <<row, lock, flight, blocked, issued, spent>>
  BY DEF Quiet, Exchanges, brokerVars
<1>4. call'[c] = new /\ Types' /\ Hashed(row)' /\ \A d \in Callers \ {c} : CallKept(d)
  BY <1>2, <1>3, QuietKept
<1>5. /\ new.pc = "exchange" /\ new.tx = {r} /\ new.held = r.pair /\ new.hash = r.hash
      /\ ~new.late /\ new.result = "none" /\ ~new.exchanged
  BY <1>1 DEF AtLock, CallRow, CallOK, BlockOK
<1> HIDE DEF new
<1>6. LockOK(c)' /\ BlockOK(c)'
  BY <1>1, <1>3, <1>4, <1>5 DEF AtLock, LockOK, BlockOK, Flying, Holding, Deciding
<1>7. CarryOK(c)'
  <2>1. Remembers(c)' /\ row'.status = "active" /\ r \in Rows /\ r.pair = row'.pair
        /\ r.hash = row'.hash /\ r.status = "active"
    BY <1>3, <1>4, <1>5 DEF Exchanges, Remembers
  <2> QED
    BY <1>4, <1>5, <2>1 DEF CarryOK
<1> QED
  BY <1>4, <1>6, <1>7, OneMoves DEF CallOK

\* What is decided under the lock: an answer that writes nothing, a write, or the exchange.
LEMMA EndsIs ==
  ASSUME NEW c \in Callers, AtLock(c), ~call[c].exchanged, NEW writes, NEW result, NEW n \in 0..MaxPairs,
         Ends(c, writes, result, n),
         UNCHANGED <<row, blocked, lock, flight, brokerVars, excused, faults, edits>>
  PROVE  EndsAs(c, writes, result, FALSE, n)
<1>1. call[c] \in CallRow
  BY DEF AtLock
<1>2. [call[c] EXCEPT !.pc = "commit", !.tx = writes, !.result = result, !.pair = n]
      = [call[c] EXCEPT !.pc = "commit", !.tx = writes, !.result = result, !.exchanged = FALSE,
                        !.pair = n]
  BY <1>1 DEF CallRow
<1>3. call' = [call EXCEPT ![c] = [call[c] EXCEPT !.pc = "commit", !.tx = writes, !.result = result,
                                                  !.pair = n]]
  BY DEF Ends
<1> QED
  BY <1>1, <1>2, <1>3 DEF EndsAs

LEMMA NeedsExchangeOK ==
  ASSUME TokenAssumption, TokenInv, NEW c \in Callers, call[c].pc = "locked", ~call[c].late,
         row.status = "active",
         NEW r \in Rows, r.pair = row.pair, r.hash = row.hash, r.status = "active",
         NeedsExchange(c, r),
         UNCHANGED <<row, blocked, lock, flight, brokerVars, excused, faults, edits>>
  PROVE  TokenInv'
<1>1. AtLock(c) /\ call[c].pc \in Holding /\ ~call[c].exchanged
  BY HoldsLock DEF Holding, TokenInv, CallOK, BlockOK
<1>2. Hashed(r) /\ r.pair <= issued
  BY <1>1 DEF AtLock, Hashed
<1>3. CASE ~PolicyOf[c].mayRefresh
  <2>1. EndsAs(c, {r}, "refresh_needed", FALSE, 0)
    <3>1. Ends(c, {r}, "refresh_needed", 0) /\ 0 \in 0..MaxPairs
      BY <1>1, <1>3 DEF NeedsExchange, AtLock
    <3> QED
      BY <1>1, <3>1, EndsIs
  <2>2. MayEnd(c, {r}, "refresh_needed", FALSE)
    BY <1>2 DEF MayEnd, MayWrite, Results
  <2> QED
    BY <1>1, <2>1, <2>2, EndsOK
<1>4. CASE PolicyOf[c].mayRefresh /\ r.aged
  <2> DEFINE gone == RevokedBy(r, "refresh_expired")
  <2>1. EndsAs(c, {gone}, "account_revoked", FALSE, 0)
    <3>1. Ends(c, {gone}, "account_revoked", 0) /\ 0 \in 0..MaxPairs
      BY <1>1, <1>4 DEF NeedsExchange, AtLock
    <3> QED
      BY <1>1, <3>1, EndsIs
  <2>2. /\ gone \in Rows /\ gone.pair = r.pair /\ gone.hash = r.hash
        /\ gone.status = "revoked" /\ gone.reason = "refresh_expired"
    BY RowFields DEF Reasons
  <2> HIDE DEF gone
  <2>3. Hashed(gone)
    BY <1>2, <2>2 DEF Hashed
  <2>4. MayEnd(c, {gone}, "account_revoked", FALSE)
    BY <1>2, <2>2, <2>3 DEF MayEnd, MayWrite, Results, ExchangeReasons
  <2> QED
    BY <1>1, <2>1, <2>4, EndsOK
<1>5. CASE PolicyOf[c].mayRefresh /\ ~r.aged
  <2>1. Exchanges(c, r)
    BY <1>5 DEF NeedsExchange, Exchanges
  <2> QED
    BY <2>1, ExchangesOK
<1> QED
  BY <1>3, <1>4, <1>5

LEMMA DecideOK ==
  ASSUME TokenAssumption, TokenInv, NEW c \in Callers, Decide(c)
  PROVE  TokenInv'
<1>1. /\ call[c].pc = "locked" /\ DecideRow(c, blocked)
      /\ UNCHANGED <<row, blocked, lock, flight, brokerVars, excused, faults, edits>>
  BY DEF Decide
<1>2. AtLock(c) /\ call[c].pc \in Holding /\ ~call[c].exchanged
  BY <1>1, HoldsLock DEF Holding, TokenInv, CallOK, BlockOK
<1>3. 0 \in 0..MaxPairs /\ row \in Rows /\ row.pair \in 0..MaxPairs
  BY <1>2 DEF AtLock
<1>4. ASSUME NEW result \in Results \ {"ok"}, Ends(c, {}, result, 0)
      PROVE  TokenInv'
  <2>1. EndsAs(c, {}, result, FALSE, 0)
    BY <1>1, <1>2, <1>3, <1>4, EndsIs
  <2>2. MayEnd(c, {}, result, FALSE)
    BY DEF MayEnd
  <2> QED
    BY <1>2, <2>1, <2>2, EndsOK
<1>5. ASSUME ~blocked, row.status = "active", NEW r \in Rows, MayWrite(c, r, FALSE),
             NEW result \in Results, NEW n \in 0..MaxPairs, Ends(c, {r}, result, n)
      PROVE  TokenInv'
  <2>1. EndsAs(c, {r}, result, FALSE, n)
    BY <1>1, <1>2, <1>5, EndsIs
  <2>2. MayEnd(c, {r}, result, FALSE)
    BY <1>5 DEF MayEnd, TokenInv, CallOK, BlockOK
  <2> QED
    BY <1>2, <2>1, <2>2, EndsOK
<1>6. CASE blocked
  BY <1>1, <1>4, <1>6 DEF DecideRow, Results
<1>7. CASE ~blocked /\ row.status # "active"
  <2>1. row.status \in {"pending", "revoked"}
    BY <1>3, <1>7 DEF Rows
  <2> QED
    BY <1>1, <1>4, <1>7, <2>1 DEF DecideRow, Results
<1>8. CASE ~blocked /\ row.status = "active"
  <2>1. CASE NotService(c) \/ row.key # KeyOf[ProcOf[c]]
    BY <1>1, <1>4, <1>8, <2>1 DEF DecideRow, Results
  <2> DEFINE gone == RevokedBy(row, "storage_inconsistent")
             used == [row EXCEPT !.access = "expired"]
             full == Backfilled(row)
  <2>2. /\ gone \in Rows /\ gone.pair = row.pair /\ gone.hash = row.hash
        /\ gone.status = "revoked" /\ gone.reason = "storage_inconsistent"
    BY <1>3, RowFields DEF Reasons
  <2>3. used \in Rows /\ used.pair = row.pair /\ used.hash = row.hash /\ used.status = row.status
    BY <1>3, RowFields
  <2>4. full \in Rows /\ full.pair = row.pair /\ full.status = row.status /\ full.hash \in {row.pair, row.hash} \ {0}
    BY <1>2, <1>3 DEF Backfilled, Rows, AtLock
  <2>5. row.pair <= issued /\ Hashed(row)
    BY <1>2 DEF AtLock
  <2>6. DecideRow(c, blocked)
    BY <1>1
  <2>7. CASE ~NotService(c) /\ row.key = KeyOf[ProcOf[c]] /\ ~row.intact
    <3>1. Ends(c, {gone}, "account_revoked", 0)
      BY <1>8, <2>6, <2>7 DEF DecideRow, Revokes
    <3>2. MayWrite(c, gone, FALSE)
      <4> HIDE DEF gone
      <4> QED
        BY <1>8, <2>2, <2>5 DEF MayWrite, Hashed, ExchangeReasons
    <3> QED
      BY <1>3, <1>5, <1>8, <2>2, <3>1, <3>2 DEF Results
  <2>8. CASE ~NotService(c) /\ row.key = KeyOf[ProcOf[c]] /\ row.intact /\ ~Fresh(c, row)
    <3>1. NeedsExchange(c, row)
      BY <1>8, <2>6, <2>8 DEF DecideRow
    <3>2. ~call[c].late
      BY <1>8 DEF TokenInv, CallOK, BlockOK
    <3> QED
      BY <1>1, <1>3, <1>8, <3>1, <3>2, NeedsExchangeOK
  <2>9. CASE /\ ~NotService(c) /\ row.key = KeyOf[ProcOf[c]] /\ row.intact /\ Fresh(c, row)
             /\ call[c].refused = row.pair
    <3>1. NeedsExchange(c, used)
      BY <1>8, <2>6, <2>9 DEF DecideRow
    <3>2. ~call[c].late
      BY <1>8 DEF TokenInv, CallOK, BlockOK
    <3> HIDE DEF used
    <3> QED
      BY <1>1, <1>8, <2>3, <3>1, <3>2, NeedsExchangeOK
  <2>10. CASE /\ ~NotService(c) /\ row.key = KeyOf[ProcOf[c]] /\ row.intact /\ Fresh(c, row)
              /\ call[c].refused # row.pair
    <3>1. Ends(c, {full}, "ok", row.pair)
      BY <1>8, <2>6, <2>10 DEF DecideRow
    <3>2. Hashed(full)
      BY <2>4, <2>5 DEF Hashed
    <3>3. MayWrite(c, full, FALSE)
      BY <1>8, <2>4, <2>5, <3>2 DEF MayWrite
    <3> QED
      BY <1>3, <1>5, <1>8, <2>4, <3>1, <3>3 DEF Results
  <2> QED
    BY <2>1, <2>7, <2>8, <2>9, <2>10
<1> QED
  BY <1>6, <1>7, <1>8

-----------------------------------------------------------------------------
(* The exchange                                                             *)

\* What a caller that is at the broker knows.
LEMMA AtTheBroker ==
  ASSUME TokenAssumption, TokenInv, NEW c \in Callers, call[c].pc \in Deciding
  PROVE  /\ AtLock(c) /\ call[c].pc \in Holding
         /\ Remembers(c) /\ row.status = "active" /\ ~call[c].exchanged
         /\ TheRow(c) \in Rows /\ call[c].tx = {TheRow(c)}
         /\ TheRow(c).pair = row.pair /\ TheRow(c).hash = row.hash /\ TheRow(c).status = "active"
<1>1. AtLock(c) /\ call[c].pc \in Holding
  BY HoldsLock DEF Holding
<1>2. CarryOK(c) /\ ~call[c].exchanged
  BY DEF TokenInv, CallOK, BlockOK, Deciding
<1>3. PICK r \in Rows : call[c].tx = {r} /\ r.pair = row.pair /\ r.hash = row.hash /\ r.status = "active"
  BY <1>2 DEF CarryOK
<1>4. TheRow(c) = r
  BY <1>3 DEF TheRow
<1> QED
  BY <1>1, <1>2, <1>3, <1>4 DEF CarryOK

\* An answer of the broker: the caller's pc changes, and with a rotation its pair.
Answered(c, new) ==
  /\ call[c] \in CallRow /\ new \in CallRow
  /\ new.pc \in Deciding /\ new.pc # "exchange"
  /\ new.held = call[c].held /\ new.hash = call[c].hash /\ new.tx = call[c].tx
  /\ new.exchanged = call[c].exchanged /\ new.late = call[c].late /\ new.result = call[c].result
  /\ call' = [call EXCEPT ![c] = new]
  /\ UNCHANGED <<row, blocked, lock, flight, excused, faults, edits>>

LEMMA AnsweredOK ==
  ASSUME TokenAssumption, TokenInv, NEW c \in Callers, call[c].pc = "exchange",
         NEW new, Answered(c, new),
         issued' \in Pairs, issued <= issued', spent' \subseteq 1..issued', replayed' \in BOOLEAN,
         new.pc = "rotated" =>
           new.held \in spent' /\ new.pair \in 1..issued' /\ new.pair \notin spent'
  PROVE  TokenInv'
<1>1. AtLock(c) /\ call[c].pc \in Holding /\ Remembers(c) /\ row.status = "active" /\ CallOK(c)
  BY AtTheBroker DEF Deciding, AtLock
<1>2. /\ call' \in [Callers -> CallRow] /\ call'[c] = new
      /\ \A d \in Callers \ {c} : SameCall(d)
  BY SetCall DEF Answered, TokenInv
<1>3. row.pair <= issued'
  BY <1>1 DEF AtLock, Pairs
<1>4. Types' /\ Hashed(row)'
  BY <1>2, <1>3 DEF TokenInv, Types, Answered, Hashed
<1>5. \A d \in Callers \ {c} : CallKept(d)
  BY <1>1, <1>2 DEF AtLock, Answered, CallKept, RowGoes
<1>6. LockOK(c)' /\ BlockOK(c)'
  BY <1>1, <1>2 DEF AtLock, CallOK, Answered, LockOK, BlockOK, Flying, Holding, Deciding
<1>7. CarryOK(c)'
  <2>1. Remembers(c)' /\ row'.status = "active"
    BY <1>1, <1>2 DEF Remembers, Answered
  <2>2. \E r \in Rows : /\ call'[c].tx = {r}
                        /\ r.pair = row'.pair /\ r.hash = row'.hash /\ r.status = "active"
    BY <1>1, <1>2 DEF CallOK, CarryOK, Deciding, Answered
  <2>3. /\ call'[c].pc = "rotated" =>
             call'[c].held \in spent' /\ call'[c].pair \in 1..issued' /\ call'[c].pair \notin spent'
        /\ call'[c].pc \notin {"commit", "abandon"}
    BY <1>2 DEF Answered, Deciding
  <2> QED
    BY <2>1, <2>2, <2>3 DEF CarryOK
<1> QED
  BY <1>2, <1>4, <1>5, <1>6, <1>7, OneMoves DEF CallOK

LEMMA PcAnswered ==
  ASSUME TokenInv, NEW c \in Callers, NEW pc \in Deciding \ {"exchange"}, Goes(c, pc),
         UNCHANGED <<row, blocked, lock, flight, excused, faults, edits>>
  PROVE  /\ Answered(c, [call[c] EXCEPT !.pc = pc])
         /\ [call[c] EXCEPT !.pc = pc].pc = pc
<1>1. call[c] \in CallRow /\ pc \in Pcs
  BY DEF TokenInv, Types, Pcs, Flying, Holding
<1>2. [call[c] EXCEPT !.pc = pc] \in CallRow
  BY <1>1 DEF CallRow
<1> QED
  BY <1>1, <1>2 DEF Answered, Goes, CallRow

LEMMA BrokerRotatesOK ==
  ASSUME TokenAssumption, TokenInv, NEW c \in Callers, BrokerRotates(c)
  PROVE  TokenInv'
<1>1. AtLock(c) /\ Remembers(c) /\ call[c].pc = "exchange"
  BY AtTheBroker DEF BrokerRotates, Deciding
<1>2. /\ issued' = issued + 1 /\ issued \in Nat /\ issued < MaxPairs /\ MaxPairs \in Nat
      /\ spent' = spent \cup {call[c].held} /\ spent \subseteq 1..issued /\ call[c].held \in 1..issued
      /\ replayed' = replayed /\ replayed \in BOOLEAN
  BY <1>1 DEF AtLock, Remembers, BrokerRotates, TokenInv, Types
<1>3. /\ issued' \in Pairs /\ issued <= issued' /\ spent' \subseteq 1..issued'
      /\ replayed' \in BOOLEAN /\ issued + 1 \notin spent' /\ call[c].held \in spent'
      /\ issued + 1 \in 1..issued' /\ issued + 1 \in 0..MaxPairs
  <2>1. issued' = issued + 1 /\ issued + 1 \in 1..MaxPairs /\ 1..issued \subseteq 1..(issued + 1)
    BY <1>2
  <2>2. spent' \subseteq 1..issued /\ call[c].held \in spent'
    BY <1>2
  <2>3. issued + 1 \notin 1..issued /\ issued <= issued + 1
    BY <1>2
  <2> QED
    BY <1>2, <2>1, <2>2, <2>3 DEF Pairs
<1> DEFINE new == [call[c] EXCEPT !.pc = "rotated", !.pair = issued + 1]
<1>4. CASE call' = [call EXCEPT ![c] = new]
  <2>1. call[c] \in CallRow /\ "rotated" \in Pcs
    BY <1>1 DEF AtLock, Pcs, Flying, Holding, Deciding
  <2>2. new \in CallRow
    BY <1>3, <2>1 DEF CallRow
  <2>3. Answered(c, new) /\ new.held = call[c].held /\ new.pair = issued + 1
    BY <1>4, <2>1, <2>2 DEF Answered, BrokerRotates, CallRow, Deciding
  <2> HIDE DEF new
  <2> QED
    BY <1>1, <1>3, <2>3, AnsweredOK
<1>5. CASE Goes(c, "unknown")
  <2>1. /\ Answered(c, [call[c] EXCEPT !.pc = "unknown"])
        /\ [call[c] EXCEPT !.pc = "unknown"].pc = "unknown"
    BY <1>5, PcAnswered DEF BrokerRotates, Deciding
  <2> QED
    BY <1>1, <1>3, <2>1, AnsweredOK
<1> QED
  BY <1>4, <1>5 DEF BrokerRotates

LEMMA BrokerRefusesOK ==
  ASSUME TokenAssumption, TokenInv, NEW c \in Callers, BrokerRefuses(c) \/ BrokerFails(c)
  PROVE  TokenInv'
<1>1. PICK pc \in {"invalid", "limited", "unknown"} : Goes(c, pc)
  BY DEF BrokerRefuses, BrokerFails
<1>2. call[c].pc = "exchange" /\ UNCHANGED <<row, blocked, lock, flight, excused, faults, edits>>
  BY DEF BrokerRefuses, BrokerFails, brokerVars
<1>3. /\ issued' \in Pairs /\ issued <= issued' /\ spent' \subseteq 1..issued'
      /\ replayed' \in BOOLEAN
  <2>1. issued' = issued /\ spent' = spent /\ replayed' \in {TRUE, replayed}
    BY DEF BrokerRefuses, BrokerFails, brokerVars
  <2>2. issued \in Pairs /\ issued <= issued /\ spent \subseteq 1..issued /\ replayed \in BOOLEAN
    BY DEF TokenInv, Types, Pairs
  <2> QED
    BY <2>1, <2>2
<1>4. /\ Answered(c, [call[c] EXCEPT !.pc = pc])
      /\ [call[c] EXCEPT !.pc = pc].pc = pc
  BY <1>1, <1>2, PcAnswered DEF Deciding
<1> QED
  BY <1>2, <1>3, <1>4, AnsweredOK

LEMMA RotatedFields ==
  ASSUME TokenAssumption, NEW c \in Callers, NEW r \in Rows, call[c].pair \in Pairs
  PROVE  LET n == Rotated(c, r)
         IN  n \in Rows /\ n.pair = call[c].pair /\ n.hash = call[c].pair /\ n.status = r.status
<1> DEFINE Keys == {KeyOf[p] : p \in Procs}
<1>1. r \in [status : {"pending", "active", "revoked"}, reason : Reasons, pair : Pairs,
             hash : 0..MaxPairs, access : Ages, aged : BOOLEAN, intact : BOOLEAN, key : Keys]
  BY DEF Rows
<1>2. Rows = [status : {"pending", "active", "revoked"}, reason : Reasons, pair : Pairs,
              hash : 0..MaxPairs, access : Ages, aged : BOOLEAN, intact : BOOLEAN, key : Keys]
  BY DEF Rows
<1>3. "valid" \in Ages /\ KeyOf[ProcOf[c]] \in Keys /\ call[c].pair \in 0..MaxPairs
  BY DEF Ages, TokenAssumption, Pairs
<1> HIDE DEF Keys
<1> QED
  BY <1>1, <1>2, <1>3 DEF Rotated

LEMMA ExchangeFailedOK ==
  ASSUME TokenAssumption, TokenInv, NEW c \in Callers, ExchangeFailed(c)
  PROVE  TokenInv'
<1>1. call[c].pc \in {"limited", "invalid", "unknown"}
  BY DEF ExchangeFailed
<1>2. /\ AtLock(c) /\ call[c].pc \in Holding
      /\ Remembers(c) /\ row.status = "active" /\ ~call[c].exchanged
      /\ TheRow(c) \in Rows /\ call[c].tx = {TheRow(c)}
      /\ TheRow(c).pair = row.pair /\ TheRow(c).hash = row.hash /\ TheRow(c).status = "active"
  BY <1>1, AtTheBroker DEF Deciding
<1>3. UNCHANGED <<row, blocked, lock, flight, brokerVars, excused, faults, edits>>
  BY DEF ExchangeFailed
<1>4. 0 \in 0..MaxPairs /\ call[c] \in CallRow
  BY <1>2 DEF AtLock
<1>5. CASE call[c].pc = "limited"
  <2>1. Ends(c, {TheRow(c)}, "refresh_rate_limited", 0)
    BY <1>2, <1>5 DEF ExchangeFailed
  <2>2. EndsAs(c, {TheRow(c)}, "refresh_rate_limited", FALSE, 0)
    BY <1>2, <1>3, <1>4, <2>1, EndsIs
  <2>3. MayEnd(c, {TheRow(c)}, "refresh_rate_limited", FALSE)
    BY <1>2 DEF MayEnd, MayWrite, Results, AtLock, Hashed
  <2> QED
    BY <1>2, <2>2, <2>3, EndsOK
<1> DEFINE gone(reason) == RevokedBy(TheRow(c), reason)
<1>6. ASSUME NEW reason \in Reasons, NEW exchanged \in BOOLEAN
      PROVE  MayEnd(c, {gone(reason)}, "account_revoked", exchanged)
  <2>1. /\ gone(reason) \in Rows /\ gone(reason).pair = row.pair /\ gone(reason).hash = row.hash
        /\ gone(reason).status = "revoked"
    BY <1>2, RowFields
  <2>2. PICK r \in Rows : /\ gone(reason) = r /\ r.pair = row.pair /\ r.hash = row.hash
                          /\ r.status = "revoked"
    BY <2>1
  <2>3. MayWrite(c, r, exchanged)
    BY <1>2, <2>2 DEF MayWrite, AtLock, Hashed, Remembers
  <2> HIDE DEF gone
  <2> QED
    BY <1>2, <2>2, <2>3 DEF MayEnd, Results
<1>7. CASE call[c].pc = "invalid"
  <2>1. Ends(c, {gone("refresh_invalid_grant")}, "account_revoked", 0)
    BY <1>7 DEF ExchangeFailed
  <2>2. EndsAs(c, {gone("refresh_invalid_grant")}, "account_revoked", FALSE, 0)
    BY <1>2, <1>3, <1>4, <2>1, EndsIs
  <2>3. MayEnd(c, {gone("refresh_invalid_grant")}, "account_revoked", FALSE)
    BY <1>6 DEF Reasons
  <2> HIDE DEF gone
  <2> QED
    BY <1>2, <2>2, <2>3, EndsOK
<1>8. CASE call[c].pc = "unknown"
  <2> DEFINE lost == gone("refresh_outcome_unknown")
  <2>1. call' = [call EXCEPT ![c] = [call[c] EXCEPT !.pc = "commit", !.exchanged = TRUE,
                                       !.tx = {lost}, !.result = "account_revoked", !.pair = 0]]
    BY <1>8 DEF ExchangeFailed
  <2>2. MayEnd(c, {lost}, "account_revoked", TRUE)
    BY <1>6 DEF Reasons
  <2> HIDE DEF gone, lost
  <2>3. [call[c] EXCEPT !.pc = "commit", !.exchanged = TRUE,
                        !.tx = {lost}, !.result = "account_revoked", !.pair = 0]
        = [call[c] EXCEPT !.pc = "commit", !.tx = {lost}, !.result = "account_revoked",
                          !.exchanged = TRUE, !.pair = 0]
    BY <1>4 DEF CallRow
  <2>4. EndsAs(c, {lost}, "account_revoked", TRUE, 0)
    BY <1>3, <1>4, <2>1, <2>3 DEF EndsAs
  <2> QED
    BY <1>2, <2>2, <2>4, EndsOK
<1> QED
  BY <1>1, <1>5, <1>7, <1>8

LEMMA ApplyRotatedTokensOK ==
  ASSUME TokenAssumption, TokenInv, NEW c \in Callers, ApplyRotatedTokens(c)
  PROVE  TokenInv'
<1>1. call[c].pc = "rotated"
      /\ UNCHANGED <<row, blocked, lock, flight, brokerVars, excused, faults, edits>>
  BY DEF ApplyRotatedTokens
<1>2. /\ AtLock(c) /\ call[c].pc \in Holding
      /\ Remembers(c) /\ row.status = "active"
      /\ TheRow(c) \in Rows /\ TheRow(c).status = "active"
  BY <1>1, AtTheBroker DEF Deciding
<1>3. call[c].held \in spent /\ call[c].pair \in 1..issued /\ call[c].pair \notin spent
  BY <1>1 DEF TokenInv, CallOK, CarryOK
<1>4. call[c].pair \in Pairs /\ call[c].pair \in 0..MaxPairs /\ 0 \in 0..MaxPairs /\ call[c] \in CallRow
  BY <1>2, <1>3 DEF AtLock, Pairs
<1> DEFINE new == Rotated(c, TheRow(c))
           result == IF blocked THEN "user_blocked" ELSE "ok"
           n == IF blocked THEN 0 ELSE call[c].pair
<1>5. new \in Rows /\ new.pair = call[c].pair /\ new.hash = call[c].pair /\ new.status = "active"
  BY <1>2, <1>4, RotatedFields
<1>6. call' = [call EXCEPT ![c] = [call[c] EXCEPT !.pc = "commit", !.exchanged = TRUE, !.tx = {new},
                                                  !.result = result, !.pair = n]]
  BY DEF ApplyRotatedTokens
<1>7. result \in Results /\ n \in 0..MaxPairs /\ (call[c].late => result # "ok")
  BY <1>4 DEF Results, TokenInv, CallOK, BlockOK
<1> HIDE DEF new, result, n
<1>8. [call[c] EXCEPT !.pc = "commit", !.exchanged = TRUE, !.tx = {new}, !.result = result, !.pair = n]
      = [call[c] EXCEPT !.pc = "commit", !.tx = {new}, !.result = result, !.exchanged = TRUE, !.pair = n]
  BY <1>4 DEF CallRow
<1>9. EndsAs(c, {new}, result, TRUE, n)
  BY <1>1, <1>4, <1>6, <1>7, <1>8 DEF EndsAs
<1>10. MayWrite(c, new, TRUE)
  <2>1. new.pair # row.pair /\ new.pair \notin spent /\ new.pair <= issued /\ new.pair # 0
    BY <1>2, <1>3, <1>5 DEF Remembers, AtLock
  <2> QED
    BY <1>2, <1>5, <2>1 DEF MayWrite, Hashed
<1>11. MayEnd(c, {new}, result, TRUE)
  BY <1>2, <1>5, <1>7, <1>10 DEF MayEnd
<1> QED
  BY <1>2, <1>9, <1>11, EndsOK

-----------------------------------------------------------------------------
(* The end of the transaction, and the second one                           *)

\* The row after a transaction: as it was, or what the caller wrote.
TxRow(c) == row' = row \/ \E r \in Rows : row' = r /\ Written(c, r)

\* A caller gives the lock back; its process' flight ends or goes on.
Unlocks(c, new) ==
  /\ new \in CallRow /\ call' = [call EXCEPT ![c] = new]
  /\ lock' = NoCaller
  /\ \/ UNCHANGED flight
     \/ Leaves(c)
  /\ UNCHANGED <<blocked, brokerVars>> /\ excused' \in BOOLEAN

LEMMA UnlocksKept ==
  ASSUME TokenAssumption, TokenInv, NEW c \in Callers, flight[ProcOf[c]] = c,
         \A d \in Callers \ {c} : lock # d,
         NEW new, Unlocks(c, new), TxRow(c)
  PROVE  /\ Types' /\ Hashed(row)' /\ call'[c] = new
         /\ \A d \in Callers \ {c} : CallKept(d)
<1>1. /\ call' \in [Callers -> CallRow] /\ call'[c] = new
      /\ \A d \in Callers \ {c} : SameCall(d)
  BY SetCall DEF Unlocks, TokenInv
<1>2. flight' \in [Procs -> Callers \cup {NoCaller}]
  BY DEF TokenAssumption, TokenInv, Types, Unlocks, Leaves
<1>3. row' \in Rows /\ row'.pair <= issued /\ Hashed(row') /\ RowGoes
  BY DEF TxRow, Written, TokenInv, Types, RowGoes
<1>4. UNCHANGED <<blocked, issued, spent, replayed>>
  BY DEF Unlocks, brokerVars
<1>5. Types' /\ Hashed(row)'
  BY <1>1, <1>2, <1>3, <1>4 DEF TokenInv, Types, Unlocks, Hashed
<1>6. \A d \in Callers \ {c} : flight[ProcOf[d]] = d => flight'[ProcOf[d]] = d
  BY DEF TokenAssumption, TokenInv, Types, Unlocks, Leaves
<1>7. issued <= issued'
  BY <1>4 DEF TokenInv, Types, Pairs
<1>8. \A d \in Callers \ {c} : lock' # d
  BY DEF Unlocks, TokenAssumption
<1> QED
  BY <1>1, <1>3, <1>4, <1>5, <1>6, <1>7, <1>8 DEF CallKept

\* A call that is over.
LEMMA DoneOK ==
  ASSUME TokenAssumption, TokenInv, NEW c \in Callers, flight[ProcOf[c]] = c,
         \A d \in Callers \ {c} : lock # d,
         NEW new, Unlocks(c, new), TxRow(c), new.pc = "done",
         new.late = call[c].late, new.result \in {call[c].result} \cup (Results \ {"ok"})
  PROVE  TokenInv'
<1>1. /\ Types' /\ Hashed(row)' /\ call'[c] = new /\ \A d \in Callers \ {c} : CallKept(d)
  BY UnlocksKept
<1>2. lock' # c /\ blocked' = blocked
  BY DEF Unlocks, TokenAssumption
<1>3. CallOK(c)'
  BY <1>1, <1>2 DEF TokenInv, CallOK, LockOK, BlockOK, CarryOK, Flying, Holding, Deciding
<1> QED
  BY <1>1, <1>3, OneMoves

\* What a caller at its commit is about to write.
LEMMA AtCommit ==
  ASSUME TokenAssumption, TokenInv, NEW c \in Callers, call[c].pc = "commit"
  PROVE  /\ AtLock(c) /\ \A d \in Callers \ {c} : lock # d
         /\ call[c].tx = {} \/ (TheRow(c) \in Rows /\ Written(c, TheRow(c)))
         /\ call[c].exchanged => Remembers(c) /\ call[c].tx # {}
<1>1. AtLock(c) /\ \A d \in Callers \ {c} : lock # d
  BY HoldsLock DEF Holding, AtLock
<1>2. CarryOK(c)
  BY DEF TokenInv, CallOK
<1>3. \A r : call[c].tx = {r} => TheRow(c) = r
  BY DEF TheRow
<1> QED
  BY <1>1, <1>2, <1>3 DEF CarryOK, Deciding

LEMMA CommitOK ==
  ASSUME TokenAssumption, TokenInv, NEW c \in Callers, Commit(c)
  PROVE  TokenInv'
<1>1. /\ AtLock(c) /\ \A d \in Callers \ {c} : lock # d
      /\ call[c].tx = {} \/ (TheRow(c) \in Rows /\ Written(c, TheRow(c)))
  BY AtCommit DEF Commit
<1> DEFINE new == [call[c] EXCEPT !.pc = "done", !.tx = {}]
<1>2. call[c] \in CallRow /\ "done" \in Pcs
  BY <1>1 DEF AtLock, Pcs
<1>3. new \in CallRow /\ new.pc = "done" /\ new.late = call[c].late /\ new.result = call[c].result
  BY <1>2 DEF CallRow
<1>4. TxRow(c)
  BY <1>1 DEF Commit, TxRow
<1>5. Unlocks(c, new)
  BY <1>3 DEF Unlocks, Commit, TokenInv, Types
<1> HIDE DEF new
<1> QED
  BY <1>1, <1>3, <1>4, <1>5, DoneOK DEF AtLock

LEMMA CommitFailsOK ==
  ASSUME TokenAssumption, TokenInv, NEW c \in Callers, CommitFails(c)
  PROVE  TokenInv'
<1>1. /\ AtLock(c) /\ \A d \in Callers \ {c} : lock # d
      /\ call[c].tx = {} \/ (TheRow(c) \in Rows /\ Written(c, TheRow(c)))
      /\ call[c].exchanged => Remembers(c) /\ call[c].tx # {}
  BY AtCommit DEF CommitFails
<1>2. TxRow(c)
  BY <1>1 DEF CommitFails, TxRow
<1>3. /\ call[c] \in CallRow /\ {"done", "abandon"} \subseteq Pcs /\ "threw" \in Results
      /\ 0 \in 0..MaxPairs
  BY <1>1 DEF AtLock, Pcs, Flying, Results
<1>4. CASE ~PairLost(c)
  <2> DEFINE new == [call[c] EXCEPT !.pc = "done", !.tx = {}, !.result = "threw", !.pair = 0]
  <2>1. new \in CallRow /\ new.pc = "done" /\ new.late = call[c].late /\ new.result = "threw"
    BY <1>3 DEF CallRow
  <2>2. Unlocks(c, new)
    BY <1>4, <2>1 DEF Unlocks, CommitFails, TokenInv, Types
  <2> HIDE DEF new
  <2> QED
    BY <1>1, <1>2, <1>3, <2>1, <2>2, DoneOK DEF AtLock
<1>5. CASE PairLost(c)
  <2> DEFINE new == [call[c] EXCEPT !.pc = "abandon", !.tx = {}, !.pair = 0]
  <2>1. /\ new \in CallRow /\ new.pc = "abandon" /\ new.late = call[c].late
        /\ new.result = call[c].result /\ new.held = call[c].held /\ new.hash = call[c].hash
        /\ new.exchanged
    BY <1>3, <1>5 DEF CallRow, PairLost
  <2>2. Unlocks(c, new) /\ UNCHANGED flight
    BY <1>5, <2>1 DEF Unlocks, CommitFails, TokenInv, Types
  <2> HIDE DEF new
  <2>3. /\ Types' /\ Hashed(row)' /\ call'[c] = new /\ \A d \in Callers \ {c} : CallKept(d)
    BY <1>1, <1>2, <2>2, UnlocksKept DEF AtLock
  <2>4. lock' # c /\ blocked' = blocked /\ flight'[ProcOf[c]] = c /\ issued' = issued
    BY <1>1, <2>2 DEF Unlocks, TokenAssumption, AtLock, brokerVars
  <2>5. LockOK(c)' /\ BlockOK(c)'
    BY <1>1, <2>1, <2>3, <2>4 DEF AtLock, CallOK, LockOK, BlockOK, Flying, Holding, Deciding
  <2>6. Remembers(c) /\ TheRow(c) \in Rows /\ Written(c, TheRow(c)) /\ call[c].exchanged
    BY <1>1, <1>5 DEF PairLost
  <2>7. /\ PolicyOf[c].mayRefresh /\ call[c].held \in 1..issued
        /\ call[c].hash \in {0, call[c].held}
        /\ call[c].hash = 0 => LegacyRow /\ call[c].held = 1
    BY <1>1, <2>6 DEF Remembers, AtLock, Hashed
  <2>8. row'.pair = call[c].held => row'.status # "pending"
    BY <2>6 DEF CommitFails, Written, Remembers
  <2>9. CarryOK(c)'
    BY <2>1, <2>3, <2>4, <2>7, <2>8 DEF CarryOK, Deciding
  <2> QED
    BY <2>3, <2>5, <2>9, OneMoves DEF CallOK
<1> QED
  BY <1>4, <1>5

\* Between the two transactions the caller has its flight and no lock.
LEMMA AtAbandon ==
  ASSUME TokenAssumption, TokenInv, NEW c \in Callers, call[c].pc = "abandon"
  PROVE  /\ flight[ProcOf[c]] = c /\ lock # c /\ call[c] \in CallRow
         /\ call[c].exchanged /\ PolicyOf[c].mayRefresh
         /\ row.pair = call[c].held => row.status # "pending"
         /\ call[c].hash \in {0, call[c].held}
         /\ call[c].hash = 0 => LegacyRow /\ call[c].held = 1
BY DEF TokenInv, Types, CallOK, LockOK, CarryOK, Flying, Holding, Deciding

\* The row has the hash the caller held: it has the pair the caller presented.
LEMMA SameTokenSamePair ==
  ASSUME TokenAssumption, TokenInv, NEW c \in Callers, call[c].pc = "abandon", SameToken(c)
  PROVE  row.pair = call[c].held
<1>1. call[c].hash \in {0, call[c].held} /\ (call[c].hash = 0 => call[c].held = 1)
  BY AtAbandon
<1> QED
  BY <1>1 DEF TokenInv, Hashed, SameToken

LEMMA AbandonLostPairOK ==
  ASSUME TokenAssumption, TokenInv, NEW c \in Callers, AbandonLostPair(c)
  PROVE  TokenInv'
<1>1. /\ flight[ProcOf[c]] = c /\ call[c] \in CallRow /\ lock = NoCaller
      /\ \A d \in Callers \ {c} : lock # d
      /\ call[c].pc = "abandon" /\ call[c].exchanged
  BY AtAbandon DEF AbandonLostPair, TokenAssumption
<1>2. PICK result \in {"account_revoked", "threw"} :
        call' = [call EXCEPT ![c] = [call[c] EXCEPT !.pc = "done", !.result = result]]
  BY DEF AbandonLostPair
<1> DEFINE new == [call[c] EXCEPT !.pc = "done", !.result = result]
<1>3. new \in CallRow /\ new.pc = "done" /\ new.late = call[c].late /\ new.result = result
  <2>1. "done" \in Pcs /\ result \in Results
    BY DEF Pcs, Results
  <2> QED
    BY <1>1, <2>1 DEF CallRow
<1>4. Unlocks(c, new)
  BY <1>1, <1>2, <1>3 DEF Unlocks, AbandonLostPair, TokenInv, Types
<1>5. TxRow(c)
  <2> DEFINE gone == RevokedBy(row, "refresh_outcome_unknown")
  <2>1. row' = row \/ (row' = gone /\ row.status = "active" /\ SameToken(c))
    BY DEF AbandonLostPair
  <2>2. /\ gone \in Rows /\ gone.pair = row.pair /\ gone.hash = row.hash
        /\ gone.status = "revoked"
    BY RowFields DEF Reasons, TokenInv, Types
  <2>3. Hashed(gone) /\ gone.pair <= issued
    BY <2>2 DEF TokenInv, Types, Hashed
  <2>4. SameToken(c) => row.pair = call[c].held
    BY <1>1, SameTokenSamePair
  <2> HIDE DEF gone
  <2>5. row.status = "active" /\ SameToken(c) => Written(c, gone)
    BY <1>1, <2>2, <2>3, <2>4 DEF Written
  <2> QED
    BY <2>1, <2>2, <2>5 DEF TxRow
<1> HIDE DEF new
<1>6. new.result \in Results \ {"ok"}
  BY <1>3 DEF Results
<1> QED
  BY <1>1, <1>3, <1>4, <1>5, <1>6, DoneOK

LEMMA AbandonFailsOK ==
  ASSUME TokenAssumption, TokenInv, NEW c \in Callers, AbandonFails(c)
  PROVE  TokenInv'
<1>1. /\ flight[ProcOf[c]] = c /\ call[c] \in CallRow /\ lock # c /\ call[c].pc = "abandon"
  BY AtAbandon DEF AbandonFails
<1> DEFINE new == [call[c] EXCEPT !.pc = "done", !.result = "threw"]
<1>2. new \in CallRow /\ new.pc = "done" /\ new.late = call[c].late /\ new.result = "threw"
  <2>1. "done" \in Pcs /\ "threw" \in Results
    BY DEF Pcs, Results
  <2> QED
    BY <1>1, <2>1 DEF CallRow
<1>3. call' = [call EXCEPT ![c] = new]
  BY DEF AbandonFails
<1> HIDE DEF new
<1>4. /\ call' \in [Callers -> CallRow] /\ call'[c] = new
      /\ \A d \in Callers \ {c} : SameCall(d)
  BY <1>2, <1>3, SetCall DEF TokenInv
<1>5. /\ UNCHANGED <<row, blocked, lock, brokerVars>> /\ excused' = TRUE
      /\ flight' = [flight EXCEPT ![ProcOf[c]] = NoCaller]
  BY DEF AbandonFails, Leaves
<1>6. Types' /\ Hashed(row)'
  BY <1>4, <1>5 DEF TokenAssumption, TokenInv, Types, Hashed, brokerVars
<1>7. \A d \in Callers \ {c} : CallKept(d)
  BY <1>1, <1>4, <1>5 DEF TokenAssumption, TokenInv, Types, Pairs, brokerVars, CallKept, RowGoes
<1>8. CallOK(c)'
  BY <1>1, <1>2, <1>4, <1>5 DEF TokenInv, CallOK, LockOK, BlockOK, CarryOK, Flying, Holding, Deciding
<1> QED
  BY <1>4, <1>6, <1>7, <1>8, OneMoves

-----------------------------------------------------------------------------
(* Everybody else                                                           *)

\* A process dies: its calls are over, the others keep theirs.
LEMMA CrashOK ==
  ASSUME TokenAssumption, TokenInv, NEW p \in Procs, Crash(p)
  PROVE  TokenInv'
<1> DEFINE mine == {c \in Callers : ProcOf[c] = p /\ call[c].pc \notin {"idle", "done"}}
           over == [NoCall EXCEPT !.pc = "done", !.result = "threw"]
<1>1. over \in CallRow
  <2>1. 0 \in 0..MaxPairs /\ "done" \in Pcs /\ {"none", "threw"} \subseteq Results
    BY DEF TokenAssumption, Pcs, Results
  <2> QED
    BY <2>1 DEF CallRow, NoCall
<1>2. /\ call' = [c \in Callers |-> IF c \in mine THEN over ELSE call[c]]
      /\ lock' = IF lock \in mine THEN NoCaller ELSE lock
      /\ flight' = [flight EXCEPT ![p] = NoCaller]
      /\ excused' \in BOOLEAN
      /\ UNCHANGED <<row, blocked, brokerVars, edits>>
  BY DEF Crash
<1>3. Types' /\ Hashed(row)'
  BY <1>1, <1>2 DEF TokenInv, Types, Hashed, brokerVars
<1>4. ASSUME NEW c \in mine
      PROVE  CallOK(c)'
  <2>1. call'[c] = over /\ over.pc = "done" /\ ~over.late
    BY <1>2 DEF NoCall
  <2>2. lock' # c
    BY <1>2 DEF TokenAssumption
  <2> QED
    BY <2>1, <2>2 DEF CallOK, LockOK, BlockOK, CarryOK, Flying, Holding, Deciding
<1>5. ASSUME NEW c \in Callers \ mine
      PROVE  CallOK(c)'
  <2>1. call'[c] = call[c] /\ SameCall(c)
    BY <1>2 DEF SameCall
  <2>2. lock' = c <=> lock = c
    BY <1>2 DEF TokenAssumption
  <2>3. call[c].pc \in Flying => ProcOf[c] # p
    BY DEF Flying, Holding, Deciding
  <2>4. call[c].pc \in Flying /\ flight[ProcOf[c]] = c => flight'[ProcOf[c]] = c
    BY <1>2, <2>3 DEF TokenAssumption, TokenInv, Types
  <2>5. CallKept(c)
    BY <1>2, <2>1, <2>2, <2>4 DEF CallKept, RowGoes, brokerVars, TokenInv, Types, Pairs
  <2> QED
    BY <1>3, <2>5, KeptOK DEF TokenInv
<1> QED
  BY <1>3, <1>4, <1>5 DEF TokenInv

\* The clock, a block, a login and a confirmation: nobody's call but for relinked.
LEMMA OutsideOK ==
  ASSUME TokenAssumption, TokenInv, Types', Hashed(row)',
         \A c \in Callers : SameCall(c),
         lock' = lock /\ flight' = flight /\ (blocked => blocked') /\ spent' = spent,
         issued <= issued', row' = row \/ lock = NoCaller, RowGoes
  PROVE  TokenInv'
<1>1. \A c \in Callers : CallKept(c)
  BY DEF CallKept, TokenAssumption
<1> QED
  BY <1>1, KeptOK DEF TokenInv

LEMMA TimePassesOK ==
  ASSUME TokenAssumption, TokenInv, TimePasses
  PROVE  TokenInv'
<1>1. /\ row' \in Rows /\ row'.pair = row.pair /\ row'.hash = row.hash /\ row'.status = row.status
  <2> DEFINE Keys == {KeyOf[p] : p \in Procs}
  <2>1. Rows = [status : {"pending", "active", "revoked"}, reason : Reasons, pair : Pairs,
                hash : 0..MaxPairs, access : Ages, aged : BOOLEAN, intact : BOOLEAN, key : Keys]
    BY DEF Rows
  <2>2. row \in Rows /\ {"due", "expired"} \subseteq Ages
    BY DEF TokenInv, Types, Ages
  <2> HIDE DEF Keys
  <2> QED
    BY <2>1, <2>2 DEF TimePasses
<1>2. UNCHANGED <<blocked, lock, flight, call, brokerVars, excused>> /\ lock = NoCaller
  BY DEF TimePasses
<1>3. Types' /\ Hashed(row)'
  BY <1>1, <1>2 DEF TokenInv, Types, Hashed, brokerVars
<1>4. RowGoes /\ issued <= issued' /\ \A c \in Callers : SameCall(c)
  BY <1>1, <1>2 DEF RowGoes, SameCall, brokerVars, TokenInv, Types, Pairs
<1> QED
  BY <1>2, <1>3, <1>4, OutsideOK DEF brokerVars

LEMMA BlockStepOK ==
  ASSUME TokenAssumption, TokenInv, Block
  PROVE  TokenInv'
<1>1. UNCHANGED <<row, lock, flight, call, brokerVars, excused>> /\ blocked' = TRUE
  BY DEF Block
<1>2. Types' /\ Hashed(row)'
  BY <1>1 DEF TokenInv, Types, Hashed, brokerVars
<1>3. RowGoes /\ issued <= issued' /\ \A c \in Callers : SameCall(c)
  BY <1>1 DEF RowGoes, SameCall, brokerVars, TokenInv, Types, Pairs
<1> QED
  BY <1>1, <1>2, <1>3, OutsideOK DEF brokerVars

LEMMA ConfirmOK ==
  ASSUME TokenAssumption, TokenInv, ConfirmBrokerAccount
  PROVE  TokenInv'
<1>1. /\ row' \in Rows /\ row'.pair = row.pair /\ row'.hash = row.hash /\ row'.status = "active"
  BY DEF ConfirmBrokerAccount, TokenInv, Types, Rows
<1>2. UNCHANGED <<blocked, lock, flight, call, brokerVars, excused>> /\ lock = NoCaller
  BY DEF ConfirmBrokerAccount
<1>3. Types' /\ Hashed(row)'
  BY <1>1, <1>2 DEF TokenInv, Types, Hashed, brokerVars
<1>4. RowGoes /\ issued <= issued' /\ \A c \in Callers : SameCall(c)
  BY <1>1, <1>2 DEF RowGoes, SameCall, brokerVars, TokenInv, Types, Pairs
<1> QED
  BY <1>2, <1>3, <1>4, OutsideOK DEF brokerVars

LEMMA RelinkOK ==
  ASSUME TokenAssumption, TokenInv, NEW p \in Procs, NEW activate \in BOOLEAN, Relink(p, activate)
  PROVE  TokenInv'
<1>1. /\ issued \in Nat /\ issued' = issued + 1 /\ issued < MaxPairs /\ MaxPairs \in Nat
      /\ row'.pair = issued + 1 /\ row'.hash = issued + 1
  BY DEF Relink, TokenAssumption, TokenInv, Types, Pairs
<1>2. issued + 1 \in Pairs /\ issued + 1 \in 0..MaxPairs /\ 1..issued \subseteq 1..issued'
  BY <1>1 DEF Pairs
<1>3. row' \in Rows
  BY <1>2 DEF Relink, Rows, Reasons, Ages
<1>4. UNCHANGED <<blocked, lock, flight, spent, replayed, excused>> /\ lock = NoCaller
  BY DEF Relink
<1>5. call' \in [Callers -> CallRow] /\ \A c \in Callers : SameCall(c)
  <2>1. \A c \in Callers : /\ [call[c] EXCEPT !.relinked = TRUE] \in CallRow
                           /\ call'[c] \in {call[c], [call[c] EXCEPT !.relinked = TRUE]}
    BY DEF Relink, TokenInv, Types, CallRow
  <2>2. call' = [c \in Callers |-> call'[c]]
    BY DEF Relink
  <2>3. \A c \in Callers : call[c] \in CallRow
    BY DEF TokenInv, Types
  <2>4. ASSUME NEW c \in Callers PROVE SameCall(c)
    <3> DEFINE m == [call[c] EXCEPT !.relinked = TRUE]
    <3>1. /\ m.pc = call[c].pc /\ m.held = call[c].held /\ m.hash = call[c].hash
          /\ m.tx = call[c].tx /\ m.exchanged = call[c].exchanged /\ m.late = call[c].late
          /\ m.result = call[c].result /\ m.pair = call[c].pair /\ m.read = call[c].read
      BY <2>3 DEF CallRow
    <3>2. call'[c] = call[c] \/ call'[c] = m
      BY <2>1
    <3> HIDE DEF m
    <3> QED
      BY <3>1, <3>2 DEF SameCall
  <2>5. \A c \in Callers : call'[c] \in CallRow
    BY <2>1, <2>3
  <2> QED
    BY <2>2, <2>4, <2>5
<1>6. Types'
  BY <1>1, <1>2, <1>3, <1>4, <1>5 DEF TokenInv, Types
<1>7. Hashed(row)' /\ RowGoes /\ issued <= issued'
  BY <1>1 DEF Hashed, RowGoes
<1> QED
  BY <1>4, <1>5, <1>6, <1>7, OutsideOK

LEMMA InitOK ==
  ASSUME TokenAssumption, Init
  PROVE  TokenInv
<1>1. NoCall \in CallRow /\ NoCall.pc = "idle" /\ ~NoCall.late /\ NoCall.result = "none"
      /\ ~NoCall.exchanged
  <2>1. 0 \in 0..MaxPairs /\ "idle" \in Pcs /\ "none" \in Results
    BY DEF TokenAssumption, Pcs, Results
  <2> QED
    BY <2>1 DEF CallRow, NoCall
<1>2. row \in Rows /\ row.pair = 1 /\ Hashed(row)
  <2>1. 1 \in Pairs /\ {0, 1} \subseteq 0..MaxPairs
    BY DEF TokenAssumption, Pairs
  <2>2. PICK s \in {"pending", "active"}, i \in BOOLEAN, p \in Procs :
          row = [status |-> s, reason |-> "none", pair |-> 1,
                 hash |-> IF LegacyRow THEN 0 ELSE 1, access |-> "valid", aged |-> FALSE,
                 intact |-> i, key |-> KeyOf[p]]
    BY DEF Init
  <2> QED
    BY <2>1, <2>2 DEF Rows, Reasons, Ages, Hashed, TokenAssumption
<1>3. Types
  <2>1. 1 \in Pairs /\ {} \subseteq 1..1 /\ row.pair <= 1
    BY <1>2 DEF Pairs, TokenAssumption
  <2>2. issued = 1 /\ spent = {} /\ lock = NoCaller /\ blocked = FALSE /\ replayed = FALSE
        /\ excused = FALSE /\ flight = [p \in Procs |-> NoCaller]
        /\ call = [c \in Callers |-> NoCall]
    BY DEF Init
  <2> QED
    BY <1>1, <1>2, <2>1, <2>2 DEF Types
<1>4. \A c \in Callers : CallOK(c)
  BY <1>1 DEF Init, TokenAssumption, CallOK, LockOK, BlockOK, CarryOK, Flying, Holding, Deciding
<1> QED
  BY <1>2, <1>3, <1>4 DEF TokenInv

LEMMA NextOK ==
  ASSUME TokenAssumption, TokenInv, [Next]_vars
  PROVE  TokenInv'
<1>1. CASE UNCHANGED vars
  <2>1. Types' /\ Hashed(row)'
    BY <1>1 DEF vars, TokenInv, Types, Hashed
  <2>2. RowGoes /\ issued <= issued' /\ \A c \in Callers : SameCall(c)
    BY <1>1 DEF vars, RowGoes, SameCall, TokenInv, Types, Pairs
  <2> QED
    BY <1>1, <2>1, <2>2, OutsideOK DEF vars
<1>2. ASSUME NEW c \in Callers, Begin(c) \/ Call(c) \/ CommitFails(c) \/ AbandonFails(c)
      PROVE  TokenInv'
  BY <1>2, BeginOK, EnsureOK, ReadOK, FastAnswerOK, LockAccountOK, DecideOK, BrokerRotatesOK,
     BrokerRefusesOK, ExchangeFailedOK, ApplyRotatedTokensOK, CommitOK, CommitFailsOK,
     AbandonLostPairOK, AbandonFailsOK DEF Call
<1> QED
  BY <1>1, <1>2, CrashOK, TimePassesOK, BlockStepOK, ConfirmOK, RelinkOK DEF Next

-----------------------------------------------------------------------------
(* What the invariant says of every step                                    *)

\* The actions that leave the row alone.
RowStays(c) ==
  \/ Begin(c) \/ EnsureFreshAccessToken(c) \/ ReadStoredToken(c) \/ FastAnswer(c)
  \/ LockAccount(c) \/ Decide(c) \/ BrokerRotates(c) \/ BrokerRefuses(c) \/ BrokerFails(c)
  \/ ExchangeFailed(c) \/ ApplyRotatedTokens(c) \/ AbandonFails(c)

LEMMA RowStaysSame ==
  ASSUME NEW c \in Callers, RowStays(c) \/ Block \/ (\E p \in Procs : Crash(p))
  PROVE  row' = row
<1>1. CASE Begin(c) \/ EnsureFreshAccessToken(c) \/ ReadStoredToken(c) \/ FastAnswer(c)
  BY <1>1 DEF Begin, EnsureFreshAccessToken, ReadStoredToken, FastAnswer
<1>2. CASE LockAccount(c) \/ Decide(c) \/ BrokerRotates(c) \/ BrokerRefuses(c) \/ BrokerFails(c)
  BY <1>2 DEF LockAccount, Decide, BrokerRotates, BrokerRefuses, BrokerFails
<1>3. CASE ExchangeFailed(c) \/ ApplyRotatedTokens(c) \/ AbandonFails(c)
  BY <1>3 DEF ExchangeFailed, ApplyRotatedTokens, AbandonFails
<1>4. CASE Block \/ (\E p \in Procs : Crash(p))
  BY <1>4 DEF Block, Crash
<1> QED
  BY <1>1, <1>2, <1>3, <1>4 DEF RowStays

\* A step of a caller is of that caller alone.
CallerStep(d) == Begin(d) \/ Call(d) \/ CommitFails(d) \/ AbandonFails(d)

LEMMA OthersStay ==
  ASSUME TokenInv, NEW d \in Callers, CallerStep(d), NEW c \in Callers, c # d
  PROVE  call'[c] = call[c]
<1>1. call \in [Callers -> CallRow]
  BY DEF TokenInv, Types
<1>2. CASE Begin(d) \/ EnsureFreshAccessToken(d) \/ ReadStoredToken(d) \/ FastAnswer(d)
  BY <1>1, <1>2 DEF Begin, EnsureFreshAccessToken, ReadStoredToken, FastAnswer, Goes
<1>3. CASE LockAccount(d) \/ BrokerRotates(d) \/ BrokerRefuses(d) \/ BrokerFails(d)
  BY <1>1, <1>3 DEF LockAccount, BrokerRotates, BrokerRefuses, BrokerFails, Goes
<1>4. CASE Decide(d)
  BY <1>1, <1>4 DEF Decide, DecideRow, Ends, Revokes, NeedsExchange
<1>5. CASE ExchangeFailed(d) \/ ApplyRotatedTokens(d)
  BY <1>1, <1>5 DEF ExchangeFailed, ApplyRotatedTokens, Ends
<1>6. CASE Commit(d) \/ CommitFails(d) \/ AbandonLostPair(d) \/ AbandonFails(d)
  BY <1>1, <1>6 DEF Commit, CommitFails, AbandonLostPair, AbandonFails
<1> QED
  BY <1>2, <1>3, <1>4, <1>5, <1>6 DEF CallerStep, Call

\* A revocation for an exchange is of the pair its caller presented.
LEMMA LoginStep ==
  ASSUME TokenAssumption, TokenInv, [Next]_vars, NEW c \in Callers,
         row.status = "active", row'.status = "revoked", row'.reason \in ExchangeReasons,
         call[c].pc # "done", call'[c].pc = "done"
  PROVE  row.pair = call[c].held
<1>1. row' # row
  OBVIOUS
<1>2. PICK d \in Callers : Commit(d) \/ CommitFails(d) \/ AbandonLostPair(d)
  <2>1. \A d \in Callers : ~RowStays(d)
    BY <1>1, RowStaysSame
  <2>2. ~Block /\ ~(\E p \in Procs : Crash(p)) /\ ~UNCHANGED vars
    BY <1>1, RowStaysSame DEF vars
  <2>3. ~TimePasses
    BY DEF TimePasses, TokenInv, Types, Rows
  <2>4. ~ConfirmBrokerAccount
    BY DEF ConfirmBrokerAccount
  <2>5. \A p \in Procs, activate \in BOOLEAN : ~Relink(p, activate)
    BY DEF Relink
  <2> QED
    BY <2>1, <2>2, <2>3, <2>4, <2>5 DEF Next, Call, RowStays
<1>3. d = c
  BY <1>2, OthersStay DEF CallerStep, Call
<1>4. CASE Commit(c) \/ CommitFails(c)
  <2>1. call[c].pc = "commit" /\ row' = TheRow(c) /\ call[c].tx # {}
    BY <1>1, <1>4 DEF Commit, CommitFails
  <2>2. Written(c, TheRow(c))
    BY <2>1, AtCommit
  <2> QED
    BY <2>1, <2>2 DEF Written
<1>5. CASE AbandonLostPair(c)
  BY <1>1, <1>5, SameTokenSamePair DEF AbandonLostPair
<1> QED
  BY <1>2, <1>3, <1>4, <1>5

\* An answer of the fast path, by its caller and only while its process has no flight.
LEMMA HitStep ==
  ASSUME TokenAssumption, TokenInv, [Next]_vars, NEW c \in Callers,
         call[c].pc = "read", call'[c].result = "ok"
  PROVE  flight[ProcOf[c]] = NoCaller
<1>1. call[c].result = "none" /\ call \in [Callers -> CallRow]
  BY DEF TokenInv, Types, CallOK, BlockOK
<1>2. ASSUME NEW d \in Callers, CallerStep(d)
      PROVE  FastAnswer(c)
  <2>1. d = c
    BY <1>1, <1>2, OthersStay
  <2> QED
    BY <1>2, <2>1 DEF CallerStep, Call, Begin, EnsureFreshAccessToken, ReadStoredToken,
      LockAccount, Decide, BrokerRotates, BrokerRefuses, BrokerFails, ExchangeFailed,
      ApplyRotatedTokens, Commit, CommitFails, AbandonLostPair, AbandonFails
<1>3. ~(\E p \in Procs : Crash(p))
  BY <1>1 DEF Crash, NoCall
<1>4. ~UNCHANGED vars /\ ~TimePasses /\ ~Block /\ ~ConfirmBrokerAccount
  BY <1>1 DEF vars, TimePasses, Block, ConfirmBrokerAccount
<1>5. \A p \in Procs, activate \in BOOLEAN : ~Relink(p, activate)
  BY <1>1 DEF Relink, CallRow
<1>6. FastAnswer(c)
  BY <1>2, <1>3, <1>4, <1>5 DEF Next, CallerStep
<1> QED
  BY <1>1, <1>6 DEF FastAnswer, Goes, CallRow

LEMMA InvSays ==
  ASSUME TokenAssumption, TokenInv
  PROVE  TypeOK /\ BlockIsSeen
<1>1. \A c \in Callers : call[c].result \in Results /\ call[c].tx \subseteq Rows
  BY DEF TokenInv, Types, CallRow
<1>2. lock # NoCaller => flight[ProcOf[lock]] = lock
  BY DEF TokenInv, Types, CallOK, LockOK, Flying
<1>3. TypeOK
  BY <1>1, <1>2 DEF TypeOK, TokenInv, Types
<1>4. BlockIsSeen
  BY DEF BlockIsSeen, TokenInv, CallOK, BlockOK
<1> QED
  BY <1>3, <1>4

-----------------------------------------------------------------------------
\* The deployment: one backend process exchanges tokens (compose.yaml, docs/binodex-oauth.md),
\* the command line's probe only reads.
OneExchanger ==
  \A c, d \in Callers : PolicyOf[c].mayRefresh /\ PolicyOf[d].mayRefresh => ProcOf[c] = ProcOf[d]

\* The caller will replace the spent pair, or revoke it.
AnswersFor(c) ==
  /\ call[c].held = row.pair
  /\ \/ call[c].pc \in {"rotated", "unknown"}
     \/ call[c].pc \in {"commit", "abandon"} /\ call[c].exchanged

SpentIsOwned ==
  /\ replayed => excused
  /\ row.pair \in spent /\ ~excused =>
       row.status = "revoked" \/ \E c \in Callers : AnswersFor(c)

\* Nothing is spent or presented, and whoever answered for the row still does.
LEMMA OwnedKept ==
  ASSUME SpentIsOwned, row'.pair = row.pair, row.status = "revoked" => row'.status = "revoked",
         spent' = spent, replayed' = replayed, excused => excused',
         ~excused' => \A c \in Callers : AnswersFor(c) /\ row'.status # "revoked" => AnswersFor(c)'
  PROVE  SpentIsOwned'
BY DEF SpentIsOwned

\* A row written by a transaction: revoked, or with the same pair or one that is not spent.
LEMMA OwnedWritten ==
  ASSUME TokenAssumption, TokenInv, SpentIsOwned, NEW c \in Callers, call[c].pc = "commit",
         UNCHANGED <<spent, replayed, excused>>,
         row' = row \/ (call[c].tx # {} /\ row' = TheRow(c)),
         \A d \in Callers \ {c} : call'[d] = call[d],
         row' = row /\ call[c].exchanged => AnswersFor(c)'
  PROVE  SpentIsOwned'
<1>1. /\ call[c].tx # {} => TheRow(c) \in Rows /\ Written(c, TheRow(c))
      /\ call[c].exchanged => Remembers(c)
  BY AtCommit
<1>2. \A d \in Callers \ {c} : AnswersFor(d) /\ row'.pair = row.pair => AnswersFor(d)'
  BY DEF AnswersFor
<1>3. CASE row' = row
  <2>1. AnswersFor(c) => call[c].exchanged
    BY DEF AnswersFor
  <2> QED
    BY <1>2, <1>3, <2>1, OwnedKept
<1>4. CASE row'.pair \notin spent \/ row'.status = "revoked"
  BY <1>4 DEF SpentIsOwned
<1>5. CASE row' # row /\ row'.pair \in spent /\ row'.status # "revoked"
  <2>1. row'.pair = row.pair /\ row.status = "active" /\ ~call[c].exchanged
    BY <1>1, <1>5 DEF Written
  <2>2. ~AnswersFor(c)
    BY <2>1 DEF AnswersFor
  <2> QED
    BY <1>2, <2>1, <2>2, OwnedKept
<1> QED
  BY <1>3, <1>4, <1>5

\* A caller that presents the row's refresh token is the only one of its process' flight.
LEMMA NobodyElseAnswers ==
  ASSUME TokenAssumption, TokenInv, OneExchanger, NEW c \in Callers, call[c].pc = "exchange",
         NEW d \in Callers, AnswersFor(d)
  PROVE  FALSE
<1>1. /\ flight[ProcOf[c]] = c /\ PolicyOf[c].mayRefresh
      /\ \A e \in Callers \ {c} : call[e].pc \notin Holding
  BY HoldsLock DEF Holding, Deciding, AtLock, TokenInv, CallOK, CarryOK, Remembers
<1>2. d # c
  BY DEF AnswersFor
<1>3. call[d].pc = "abandon"
  BY <1>1, <1>2 DEF AnswersFor, Holding, Deciding
<1>4. flight[ProcOf[d]] = d /\ PolicyOf[d].mayRefresh
  BY <1>3, AtAbandon
<1> QED
  BY <1>1, <1>2, <1>4 DEF OneExchanger

LEMMA CallerKeepsOwned ==
  ASSUME TokenAssumption, TokenInv, SpentIsOwned, OneExchanger, ~LegacyRow,
         NEW c \in Callers, CallerStep(c)
  PROVE  SpentIsOwned'
<1>1. \A d \in Callers \ {c} : call'[d] = call[d]
  BY OthersStay
<1>2. \A d \in Callers \ {c} : row'.pair = row.pair /\ AnswersFor(d) => AnswersFor(d)'
  BY <1>1 DEF AnswersFor
<1>3. call \in [Callers -> CallRow] /\ call[c] \in CallRow
  BY DEF TokenInv, Types
<1>4. CASE Begin(c) \/ EnsureFreshAccessToken(c) \/ ReadStoredToken(c) \/ FastAnswer(c)
           \/ LockAccount(c) \/ Decide(c)
  <2>1. UNCHANGED <<row, spent, replayed, excused>>
    BY <1>4 DEF Begin, EnsureFreshAccessToken, ReadStoredToken, FastAnswer, LockAccount, Decide,
                brokerVars
  <2>2. ~AnswersFor(c)
    BY <1>4 DEF Begin, EnsureFreshAccessToken, ReadStoredToken, FastAnswer, LockAccount, Decide,
                AnswersFor
  <2> QED
    BY <1>2, <2>1, <2>2, OwnedKept
<1>5. CASE BrokerRotates(c)
  <2>1. Remembers(c)
    BY <1>5, AtTheBroker DEF BrokerRotates, Deciding
  <2>2. AnswersFor(c)'
    BY <1>3, <1>5, <2>1 DEF BrokerRotates, Goes, Remembers, AnswersFor, CallRow
  <2>3. replayed' = replayed /\ excused' = excused
    BY <1>5 DEF BrokerRotates
  <2> QED
    BY <2>2, <2>3 DEF SpentIsOwned
<1>6. CASE BrokerRefuses(c)
  <2>1. call[c].pc = "exchange" /\ call[c].held \in spent
        /\ UNCHANGED <<row, spent, excused>>
    BY <1>6 DEF BrokerRefuses
  <2>2. row.pair \in spent /\ row.status # "revoked"
    BY <2>1, AtTheBroker DEF Deciding, Remembers
  <2>3. excused
    BY <2>1, <2>2, NobodyElseAnswers DEF SpentIsOwned
  <2> QED
    BY <2>1, <2>3 DEF SpentIsOwned
<1>7. CASE BrokerFails(c)
  <2>1. UNCHANGED <<row, spent, replayed, excused>> /\ ~AnswersFor(c)
    BY <1>7 DEF BrokerFails, brokerVars, AnswersFor
  <2> QED
    BY <1>2, <2>1, OwnedKept
<1>8. CASE ExchangeFailed(c) \/ ApplyRotatedTokens(c)
  <2>1. UNCHANGED <<row, spent, replayed, excused>>
    BY <1>8 DEF ExchangeFailed, ApplyRotatedTokens, brokerVars
  <2>2. call[c].pc \in {"rotated", "unknown"} =>
          call'[c].pc = "commit" /\ call'[c].exchanged /\ call'[c].held = call[c].held
    BY <1>3, <1>8 DEF ExchangeFailed, ApplyRotatedTokens, CallRow
  <2>3. call[c].pc \notin {"commit", "abandon"}
    BY <1>8 DEF ExchangeFailed, ApplyRotatedTokens
  <2>4. AnswersFor(c) => AnswersFor(c)'
    BY <2>1, <2>2, <2>3 DEF AnswersFor
  <2> QED
    BY <1>2, <2>1, <2>4, OwnedKept
<1>9. CASE Commit(c)
  <2>1. UNCHANGED <<spent, replayed, excused>> /\ call[c].pc = "commit"
        /\ row' = IF call[c].tx = {} THEN row ELSE TheRow(c)
    BY <1>9 DEF Commit, brokerVars
  <2>2. call[c].exchanged => Remembers(c) /\ call[c].tx # {} /\ Written(c, TheRow(c))
    BY <2>1, AtCommit
  <2>3. ~(row' = row /\ call[c].exchanged)
    BY <2>1, <2>2 DEF Written
  <2> QED
    BY <1>1, <2>1, <2>3, OwnedWritten
<1>10. CASE CommitFails(c)
  <2>1. UNCHANGED <<spent, replayed, excused>> /\ call[c].pc = "commit"
        /\ (row' = row \/ (call[c].tx # {} /\ row' = TheRow(c)))
    BY <1>10 DEF CommitFails, brokerVars
  <2>2. call[c].exchanged => Remembers(c)
    BY <2>1, AtCommit
  <2>3. call[c].exchanged => /\ call'[c].pc = "abandon" /\ call'[c].exchanged
                             /\ call'[c].held = call[c].held
    BY <1>3, <1>10 DEF CommitFails, PairLost, CallRow
  <2>4. row' = row /\ call[c].exchanged => AnswersFor(c)'
    BY <2>2, <2>3 DEF AnswersFor, Remembers
  <2> QED
    BY <1>1, <2>1, <2>4, OwnedWritten
<1>11. CASE AbandonLostPair(c)
  <2>1. UNCHANGED <<spent, replayed, excused>> /\ call[c].pc = "abandon"
    BY <1>11 DEF AbandonLostPair, brokerVars
  <2>2. CASE row.status = "active" /\ SameToken(c)
    <3>1. row'.status = "revoked" /\ row'.pair = row.pair
      BY <1>11, <2>2 DEF AbandonLostPair, RevokedBy, TokenInv, Types, Rows
    <3> QED
      BY <2>1, <3>1 DEF SpentIsOwned
  <2>3. CASE ~(row.status = "active" /\ SameToken(c))
    <3>1. row' = row
      BY <1>11, <2>3 DEF AbandonLostPair
    <3>2. AnswersFor(c) => row.status = "revoked"
      <4>1. SUFFICES ASSUME row.pair = call[c].held PROVE row.status = "revoked"
        BY DEF AnswersFor
      <4>2. row.status # "pending" /\ call[c].hash = call[c].held
        BY <2>1, <4>1, AtAbandon
      <4>3. row.hash = row.pair
        BY DEF TokenInv, Hashed
      <4> QED
        BY <2>3, <4>1, <4>2, <4>3 DEF SameToken, TokenInv, Types, Rows
    <3> QED
      BY <1>2, <2>1, <3>1, <3>2, OwnedKept
  <2> QED
    BY <2>2, <2>3
<1>12. CASE AbandonFails(c)
  <2>1. UNCHANGED <<row, spent, replayed>> /\ excused' = TRUE
    BY <1>12 DEF AbandonFails, brokerVars
  <2> QED
    BY <2>1 DEF SpentIsOwned
<1> QED
  BY <1>4, <1>5, <1>6, <1>7, <1>8, <1>9, <1>10, <1>11, <1>12 DEF CallerStep, Call

LEMMA NextKeepsOwned ==
  ASSUME TokenAssumption, TokenInv, SpentIsOwned, OneExchanger, ~LegacyRow, [Next]_vars
  PROVE  SpentIsOwned'
<1>1. CASE UNCHANGED vars
  <2>1. \A c \in Callers : AnswersFor(c) => AnswersFor(c)'
    BY <1>1 DEF vars, AnswersFor
  <2> QED
    BY <1>1, <2>1, OwnedKept DEF vars
<1>2. ASSUME NEW p \in Procs, Crash(p)
      PROVE  SpentIsOwned'
  <2> DEFINE mine == {c \in Callers : ProcOf[c] = p /\ call[c].pc \notin {"idle", "done"}}
  <2>1. /\ UNCHANGED <<row, spent, replayed>>
        /\ excused' = (excused \/ \E c \in mine : call[c].held \in spent)
        /\ \A c \in Callers \ mine : call'[c] = call[c]
    BY <1>2 DEF Crash, brokerVars
  <2>2. \A c \in Callers \ mine : AnswersFor(c) => AnswersFor(c)'
    BY <2>1 DEF AnswersFor
  <2>3. \A c \in Callers : AnswersFor(c) /\ row.pair \in spent => call[c].held \in spent
    BY DEF AnswersFor
  <2> HIDE DEF mine
  <2> QED
    BY <2>1, <2>2, <2>3 DEF SpentIsOwned
<1>3. CASE TimePasses \/ Block \/ ConfirmBrokerAccount
  <2>1. /\ UNCHANGED <<spent, replayed, excused, call>> /\ row'.pair = row.pair
        /\ row.status = "revoked" => row'.status = "revoked"
    BY <1>3 DEF TimePasses, Block, ConfirmBrokerAccount, brokerVars, TokenInv, Types, Rows
  <2>2. \A c \in Callers : AnswersFor(c) => AnswersFor(c)'
    BY <2>1 DEF AnswersFor
  <2> QED
    BY <2>1, <2>2, OwnedKept
<1>4. ASSUME NEW p \in Procs, NEW activate \in BOOLEAN, Relink(p, activate)
      PROVE  SpentIsOwned'
  <2>1. UNCHANGED <<spent, replayed, excused>> /\ row'.pair = issued + 1
    BY <1>4 DEF Relink
  <2>2. issued + 1 \notin spent
    BY DEF TokenInv, Types, Pairs
  <2> QED
    BY <2>1, <2>2 DEF SpentIsOwned
<1> QED
  BY <1>1, <1>2, <1>3, <1>4, CallerKeepsOwned DEF Next, CallerStep

-----------------------------------------------------------------------------
\* The invariant holds for every set of callers, processes, policies and keys.
THEOREM TokenInvariant == ASSUME TokenAssumption PROVE Spec => []TokenInv
<1>1. Init => TokenInv
  BY InitOK
<1>2. TokenInv /\ [Next]_vars => TokenInv'
  BY NextOK
<1> QED
  BY <1>1, <1>2, PTL DEF Spec

\* However callers, processes, failures and logins interleave: a block is seen, a login survives
\* the failed exchange of another pair, a hit is not the pair being replaced.
THEOREM PairIsGuarded ==
  ASSUME TokenAssumption
  PROVE  Spec => []TypeOK /\ []BlockIsSeen /\ LoginSurvives /\ HitIsNotBeingReplaced
<1>1. TokenInv => TypeOK /\ BlockIsSeen
  BY InvSays
<1>2. TokenInv /\ [Next]_vars =>
        [\A c \in Callers :
           (/\ row.status = "active" /\ row'.status = "revoked"
            /\ row'.reason \in {"refresh_invalid_grant", "refresh_outcome_unknown"}
            /\ call[c].pc # "done" /\ call'[c].pc = "done")
           => row.pair = call[c].held]_vars
  BY LoginStep DEF ExchangeReasons
<1>3. TokenInv /\ [Next]_vars =>
        [\A c, d \in Callers :
           (/\ call[c].pc = "read" /\ call'[c].result = "ok" /\ ProcOf[d] = ProcOf[c]
            /\ call[d].pc \in {"exchange", "rotated", "unknown", "commit"})
           => call'[c].pair # call[d].held]_vars
  <2> SUFFICES ASSUME TokenInv, [Next]_vars, NEW c \in Callers, NEW d \in Callers,
                      call[c].pc = "read", call'[c].result = "ok", ProcOf[d] = ProcOf[c],
                      call[d].pc \in {"exchange", "rotated", "unknown", "commit"}
               PROVE  FALSE
    OBVIOUS
  <2>1. flight[ProcOf[d]] = NoCaller
    BY HitStep
  <2>2. flight[ProcOf[d]] = d
    BY DEF TokenInv, CallOK, LockOK, Flying, Holding, Deciding
  <2> QED
    BY <2>1, <2>2 DEF TokenAssumption
<1> QED
  BY <1>1, <1>2, <1>3, TokenInvariant, PTL DEF Spec, LoginSurvives, HitIsNotBeingReplaced

\* With one process that exchanges and a row that has its hash: a consumed refresh token is never
\* presented again, unless a process died or the second transaction failed with the new pair.
THEOREM TokensAreSafe ==
  ASSUME TokenAssumption, OneExchanger, ~LegacyRow
  PROVE  Spec => TokensSafe
<1>1. Init => SpentIsOwned
  BY DEF Init, SpentIsOwned
<1>2. TokenInv /\ SpentIsOwned /\ [Next]_vars => SpentIsOwned'
  BY NextKeepsOwned
<1>3. SpentIsOwned => NoReplay
  BY DEF SpentIsOwned, NoReplay
<1>4. Spec => []NoReplay
  BY <1>1, <1>2, <1>3, TokenInvariant, PTL DEF Spec
<1> QED
  BY <1>4, PairIsGuarded, PTL DEF TokensSafe

-----------------------------------------------------------------------------
(* Linking broker accounts *)

Statuses == {"none", "pending", "active", "revoked"}
AccountRow == [owner : Users \cup {NoUser}, status : Statuses]
LinkRow == [step : {"idle", "locked", "written"}, way : Ways \cup {"none"},
            account : Accounts \cup {"none"}, inviter : Users \cup {NoUser}, sees : SUBSET Deposits]
PostRow == [step : {"idle", "read", "done"}, owner : Users \cup {NoUser}, row : BOOLEAN]

LinkTypes ==
  /\ account \in [Accounts -> AccountRow]
  /\ link \in [Users -> LinkRow]
  /\ post \in [Posts -> PostRow]
  /\ deposits \in [Deposits -> Users \cup {NoUser, "absent"}]
  /\ packs \in [Users -> Nat] /\ rewards \in [Users -> Nat]

\* A link in flight holds an account, and the inviter's row only while the referral is unpaid.
LinkOK(u) ==
  Linking(u) => /\ link[u].account \in Accounts /\ link[u].way \in Ways
                /\ link[u].inviter # NoUser => rewards[u] = 0

\* What a postback read of a row it holds is still so; of no row it read no owner.
PostOK(p) ==
  post[p].step = "read" =>
    IF post[p].row
      THEN /\ ~LinkHolds(Trader[Payment[p]]) /\ account[Trader[Payment[p]]].status # "none"
           /\ post[p].owner = OwnerSeen(Trader[Payment[p]])
      ELSE post[p].owner = NoUser

\* Of the deposits a confirming link does not see, those without an owner are in the window.
WindowOK(u) ==
  link[u].step = "written" /\ Attaching(u) =>
    \A d \in Deposits :
      Trader[d] = link[u].account /\ d \notin link[u].sees /\ deposits[d] = NoUser => d \in unseen

LinkInv ==
  /\ LinkTypes /\ LinkSafe
  /\ \A u \in Users : LinkOK(u) /\ WindowOK(u)
  /\ \A p \in Posts : PostOK(p)

LEMMA LinkInitHolds == LinkAssumption /\ LinkInit => LinkInv
BY DEF LinkAssumption, LinkInit, LinkInv, LinkTypes, LinkSafe, LinkTypeOK, ConfirmedDepositHasOwner,
   PendingOwnsNothing, BonusesCountOnce, LinkOK, PostOK, AccountRow, LinkRow, PostRow, Statuses,
   NoAccount, NoLink, NoPost, Linking, WindowOK

\* A link takes an account that is free or its user's, and that nobody else works on.
LEMMA BeginLinkKeeps ==
  ASSUME LinkAssumption, LinkInv, NEW u \in Users, NEW a \in Accounts, NEW way \in Ways,
         BeginLink(u, a, way)
  PROVE  LinkInv'
<1> DEFINE new == [step |-> "locked", way |-> way, account |-> a, inviter |-> InviterToLock(u),
                   sees |-> {}]
<1>1. InviterToLock(u) \in Users \cup {NoUser} /\ (InviterToLock(u) # NoUser => rewards[u] = 0)
  BY DEF InviterToLock, LinkAssumption
<1>2. /\ new \in LinkRow /\ new.step = "locked" /\ new.way = way /\ new.account = a
      /\ new.inviter = InviterToLock(u)
  BY <1>1 DEF LinkRow
<1> HIDE DEF new
<1>3. /\ link' \in [Users -> LinkRow] /\ link'[u] = new
      /\ \A v \in Users \ {u} : link'[v] = link[v]
  BY <1>2 DEF BeginLink, LinkInv, LinkTypes, new
<1>4. UNCHANGED <<account, linkBlocked, post, deposits, unseen, packs, rewards, rules, toggles>>
  BY DEF BeginLink
<1>5. /\ ~LinkHolds(a) /\ ~ShareHeld(a)
      /\ account[a].status = "none" \/ account[a].owner = u
  BY DEF BeginLink
<1>6. LinkTypes'
  BY <1>3, <1>4 DEF LinkInv, LinkTypes
<1>7. \A b \in Accounts : LinkHolds(b)' => LinkHolds(b) \/ b = a
  BY <1>2, <1>3 DEF LinkHolds, Linking
<1>8. LinkTypeOK'
  BY <1>2, <1>3, <1>4, <1>5 DEF LinkInv, LinkSafe, LinkTypeOK, Linking, LinkHolds
<1>9. \A v \in Users : LinkOK(v)' /\ WindowOK(v)'
  <2>1. \A v \in Users : LinkOK(v)'
    BY <1>1, <1>2, <1>3, <1>4 DEF LinkInv, LinkOK, Linking
  <2>2. \A v \in Users : WindowOK(v)'
    BY <1>2, <1>3, <1>4 DEF LinkInv, WindowOK, Attaching, Activates
  <2> QED BY <2>1, <2>2
<1>10. \A p \in Posts : PostOK(p)'
  <2> SUFFICES ASSUME NEW p \in Posts, post[p].step = "read" PROVE PostOK(p)'
    BY <1>4 DEF PostOK
  <2>1. Trader[Payment[p]] \in Accounts
    BY DEF LinkAssumption
  <2>2. post[p].row => Trader[Payment[p]] # a
    BY <1>5 DEF ShareHeld
  <2> QED BY <2>1, <2>2, <1>4, <1>7 DEF LinkInv, PostOK, OwnerSeen
<1>11. ConfirmedDepositHasOwner' /\ PendingOwnsNothing' /\ BonusesCountOnce'
  BY <1>4 DEF LinkInv, LinkSafe, ConfirmedDepositHasOwner, PendingOwnsNothing, BonusesCountOnce
<1> QED BY <1>6, <1>8, <1>9, <1>10, <1>11 DEF LinkInv, LinkSafe

\* The statement sees what is committed; from then on what comes is in the window.
LEMMA WriteLinkKeeps ==
  ASSUME LinkAssumption, LinkInv, NEW u \in Users, WriteLink(u)
  PROVE  LinkInv'
<1> DEFINE seen == {d \in Deposits : deposits[d] # "absent"}
           new == [link[u] EXCEPT !.step = "written", !.sees = seen]
<1>1. link[u] \in LinkRow /\ link[u].step = "locked"
  BY DEF LinkInv, LinkTypes, WriteLink
<1>2. /\ new \in LinkRow /\ new.step = "written" /\ new.way = link[u].way
      /\ new.account = link[u].account /\ new.inviter = link[u].inviter /\ new.sees = seen
  BY <1>1 DEF LinkRow
<1>3. link' = [link EXCEPT ![u] = new]
  BY DEF WriteLink
<1> HIDE DEF new
<1>4. /\ link' \in [Users -> LinkRow] /\ link'[u] = new
      /\ \A v \in Users \ {u} : link'[v] = link[v]
  BY <1>2, <1>3 DEF LinkInv, LinkTypes
<1>5. UNCHANGED <<account, linkBlocked, post, deposits, unseen, packs, rewards, rules, toggles>>
  BY DEF WriteLink
<1>6. \A v \in Users : /\ Linking(v)' <=> Linking(v)
                       /\ link'[v].account = link[v].account /\ link'[v].way = link[v].way
                       /\ link'[v].inviter = link[v].inviter
  BY <1>1, <1>2, <1>4 DEF Linking
<1>7. LinkTypes'
  BY <1>4, <1>5 DEF LinkInv, LinkTypes
<1>8. LinkTypeOK' /\ \A v \in Users : LinkOK(v)'
  BY <1>5, <1>6 DEF LinkInv, LinkSafe, LinkTypeOK, LinkOK
<1>9. \A v \in Users : WindowOK(v)'
  <2> SUFFICES ASSUME NEW v \in Users PROVE WindowOK(v)'
    OBVIOUS
  <2>1. CASE v = u
    <3>1. \A d \in Deposits : deposits[d] = NoUser => d \in seen
      BY DEF LinkInv, LinkTypes, LinkAssumption
    <3> QED BY <2>1, <3>1, <1>2, <1>4, <1>5 DEF WindowOK
  <2>2. CASE v # u
    BY <2>2, <1>4, <1>5 DEF LinkInv, WindowOK, Attaching, Activates
  <2> QED BY <2>1, <2>2
<1>10. \A p \in Posts : PostOK(p)'
  <2>1. \A b : LinkHolds(b)' <=> LinkHolds(b)
    BY <1>6 DEF LinkHolds
  <2> QED BY <2>1, <1>5 DEF LinkInv, PostOK, OwnerSeen
<1>11. ConfirmedDepositHasOwner' /\ PendingOwnsNothing' /\ BonusesCountOnce'
  BY <1>5 DEF LinkInv, LinkSafe, ConfirmedDepositHasOwner, PendingOwnsNothing, BonusesCountOnce
<1> QED BY <1>7, <1>8, <1>9, <1>10, <1>11 DEF LinkInv, LinkSafe

\* A commit gives the account to its user and confirms it, or leaves it pending; deposits without an
\* owner follow a login that confirms, and an account that was confirmed has none left to follow.
LEMMA CommitLinkKeeps ==
  ASSUME LinkAssumption, LinkInv, NEW u \in Users, CommitLink(u)
  PROVE  LinkInv'
<1> DEFINE a == link[u].account
           new == [owner |-> u, status |-> StatusAfter(u)]
<1>1. /\ a \in Accounts /\ account[a] \in AccountRow /\ account[a].owner \in {NoUser, u}
      /\ link[u].inviter # NoUser => rewards[u] = 0
      /\ \A v \in Users \ {u} : Linking(v) => link[v].account # a
      /\ Linking(u) /\ u # NoUser /\ link[u].step = "written"
  <2>1. Linking(u) /\ link[u].step = "written"
    BY DEF CommitLink, Linking
  <2> QED BY <2>1 DEF LinkInv, LinkTypes, LinkOK, LinkSafe, LinkTypeOK, LinkAssumption
<1>2. /\ StatusAfter(u) \in {"pending", "active"}
      /\ Activates(u) => StatusAfter(u) = "active"
      /\ account[a].status \in {"active", "revoked"} => StatusAfter(u) = "active"
      /\ ~Activates(u) /\ account[a].status \in {"none", "pending"} => StatusAfter(u) = "pending"
  BY DEF StatusAfter
<1>3. new \in AccountRow /\ new.owner = u /\ new.status = StatusAfter(u)
  BY <1>2 DEF AccountRow, Statuses
<1>4. account' = [account EXCEPT ![a] = new]
  BY DEF CommitLink
<1> HIDE DEF new
<1>5. /\ account' \in [Accounts -> AccountRow] /\ account'[a] = new
      /\ \A b \in Accounts \ {a} : account'[b] = account[b]
  BY <1>1, <1>3, <1>4 DEF LinkInv, LinkTypes
<1>6. NoLink \in LinkRow /\ NoLink.step = "idle"
  BY DEF NoLink, LinkRow
<1>7. /\ link' \in [Users -> LinkRow] /\ ~Linking(u)'
      /\ \A v \in Users \ {u} : link'[v] = link[v] /\ (Linking(v)' <=> Linking(v))
  BY <1>6 DEF CommitLink, LinkInv, LinkTypes, Linking
<1>8. UNCHANGED <<linkBlocked, post, rules, toggles>>
  BY DEF CommitLink
<1>9. \A d \in Deposits :
        /\ deposits'[d] = IF /\ Activates(u) /\ Trader[d] = a /\ d \in link[u].sees
                             /\ deposits[d] = NoUser
                          THEN u ELSE deposits[d]
        /\ d \in unseen' <=>
             d \in unseen /\ ~(Activates(u) /\ Trader[d] = a /\ d \in link[u].sees)
  BY DEF CommitLink, AttachDeposits, Attaching, Attached
<1>10. deposits' \in [Deposits -> Users \cup {NoUser, "absent"}]
  BY DEF CommitLink, AttachDeposits, LinkInv, LinkTypes
<1>11. /\ packs' \in [Users -> Nat] /\ \A v \in Users \ {u} : packs'[v] = packs[v]
       /\ packs'[u] <= 1
       /\ packs'[u] # packs[u] => a \in Partner /\ StatusAfter(u) = "active"
  <2>1. packs[u] \in Nat /\ packs[u] <= 1
    BY DEF LinkInv, LinkTypes, LinkSafe, BonusesCountOnce
  <2> QED BY <2>1, <1>2 DEF CommitLink, Pack, Packed, LinkInv, LinkTypes
<1>12. /\ rewards' \in [Users -> Nat] /\ \A v \in Users \ {u} : rewards'[v] = rewards[v]
       /\ rewards'[u] <= 1
       /\ rewards'[u] # rewards[u] => a \in Partner /\ StatusAfter(u) = "active"
  <2>1. rewards[u] \in Nat /\ rewards[u] <= 1
    BY DEF LinkInv, LinkTypes, LinkSafe, BonusesCountOnce
  <2> QED BY <2>1, <1>1 DEF CommitLink, Reward, RewardIsDue, LinkInv, LinkTypes
<1>13. LinkTypes'
  BY <1>5, <1>7, <1>8, <1>10, <1>11, <1>12 DEF LinkInv, LinkTypes
<1>14. LinkTypeOK'
  <2>1. \A b \in Accounts : (account'[b].status = "none") = (account'[b].owner = NoUser)
    BY <1>1, <1>2, <1>3, <1>5 DEF LinkInv, LinkSafe, LinkTypeOK
  <2>2. \A v \in Users : Linking(v)' =>
          /\ account'[link'[v].account].owner \in {NoUser, v}
          /\ \A w \in Users \ {v} : Linking(w)' => link'[w].account # link'[v].account
    <3> SUFFICES ASSUME NEW v \in Users, Linking(v)'
                 PROVE  /\ account'[link'[v].account].owner \in {NoUser, v}
                        /\ \A w \in Users \ {v} :
                             Linking(w)' => link'[w].account # link'[v].account
      OBVIOUS
    <3>1. v # u /\ Linking(v) /\ link'[v] = link[v]
      BY <1>7
    <3>2. link[v].account \in Accounts \ {a}
      BY <3>1, <1>1 DEF LinkInv, LinkOK
    <3>3. account'[link'[v].account] = account[link[v].account]
      BY <3>1, <3>2, <1>5
    <3> QED BY <3>1, <3>3, <1>7 DEF LinkInv, LinkSafe, LinkTypeOK
  <2> QED BY <2>1, <2>2, <1>8, <1>11, <1>12 DEF LinkTypeOK, LinkInv, LinkSafe
<1>15. \A v \in Users : LinkOK(v)' /\ WindowOK(v)'
  <2> SUFFICES ASSUME NEW v \in Users PROVE LinkOK(v)' /\ WindowOK(v)'
    OBVIOUS
  <2>1. LinkOK(v)'
    BY <1>7, <1>12 DEF LinkInv, LinkOK
  <2>2. CASE v = u
    <3>1. link'[v].step # "written"
      BY <2>2, <1>7 DEF Linking
    <3> QED BY <2>1, <3>1 DEF WindowOK
  <2>3. CASE v # u
    <3>1. link'[v] = link[v]
      BY <2>3, <1>7
    <3> SUFFICES ASSUME link[v].step = "written", Attaching(v), NEW d \in Deposits,
                        Trader[d] = link[v].account, d \notin link[v].sees, deposits'[d] = NoUser
                 PROVE  d \in unseen'
      BY <2>1, <3>1 DEF WindowOK, Attaching, Activates
    <3>2. Trader[d] # a
      BY <2>3, <1>1 DEF Linking
    <3> QED BY <3>2, <1>9 DEF LinkInv, WindowOK
  <2> QED BY <2>1, <2>2, <2>3
<1>16. \A p \in Posts : PostOK(p)'
  <2> SUFFICES ASSUME NEW p \in Posts, post[p].step = "read" PROVE PostOK(p)'
    BY <1>8 DEF PostOK
  <2> DEFINE b == Trader[Payment[p]]
  <2>1. b \in Accounts
    BY DEF LinkAssumption
  <2>2. LinkHolds(b)' => LinkHolds(b)
    BY <1>7 DEF LinkHolds
  <2>3. post[p].row => b # a
    BY <1>1 DEF LinkInv, PostOK, LinkHolds
  <2> QED BY <2>1, <2>2, <2>3, <1>5, <1>8 DEF LinkInv, PostOK, OwnerSeen
<1>17. ConfirmedDepositHasOwner' /\ PendingOwnsNothing'
  <2> SUFFICES ASSUME NEW d \in Deposits
               PROVE  /\ /\ account'[Trader[d]].status \in {"active", "revoked"}
                         /\ deposits'[d] # "absent"
                         => \/ deposits'[d] = account'[Trader[d]].owner
                            \/ deposits'[d] = NoUser /\ d \in unseen'
                      /\ account'[Trader[d]].status \in {"none", "pending"}
                         => deposits'[d] \in {"absent", NoUser}
    BY DEF ConfirmedDepositHasOwner, PendingOwnsNothing
  <2>1. Trader[d] \in Accounts /\ account[Trader[d]].status \in Statuses
    BY DEF LinkAssumption, LinkInv, LinkTypes, AccountRow
  <2>2. /\ /\ account[Trader[d]].status \in {"active", "revoked"} /\ deposits[d] # "absent"
           => \/ deposits[d] = account[Trader[d]].owner
              \/ deposits[d] = NoUser /\ d \in unseen
        /\ account[Trader[d]].status \in {"none", "pending"} => deposits[d] \in {"absent", NoUser}
        /\ (account[Trader[d]].status = "none") = (account[Trader[d]].owner = NoUser)
    BY <2>1 DEF LinkInv, LinkSafe, LinkTypeOK, ConfirmedDepositHasOwner, PendingOwnsNothing
  <2>3. CASE Trader[d] # a
    BY <2>1, <2>2, <2>3, <1>5, <1>8, <1>9
  <2>4. CASE Trader[d] = a
    <3>1. Activates(u) /\ d \notin link[u].sees /\ deposits[d] = NoUser => d \in unseen
      BY <2>4, <1>1 DEF LinkInv, WindowOK, Attaching
    <3> QED BY <2>1, <2>2, <2>4, <3>1, <1>1, <1>2, <1>3, <1>5, <1>8, <1>9 DEF Statuses
  <2> QED BY <2>3, <2>4
<1>18. BonusesCountOnce'
  <2>1. \A v \in Users : packs'[v] <= 1 /\ rewards'[v] <= 1
    BY <1>11, <1>12 DEF LinkInv, LinkSafe, BonusesCountOnce
  <2>2. ASSUME NEW v \in Users, NEW b \in Partner, account[b].owner = v,
               account[b].status \in {"active", "revoked"}
        PROVE  account'[b].owner = v /\ account'[b].status \in {"active", "revoked"}
    <3>1. b \in Accounts
      BY DEF LinkAssumption
    <3>2. CASE b # a
      BY <3>1, <3>2, <2>2, <1>5
    <3>3. CASE b = a
      <4>1. v = u
        BY <3>3, <2>2, <1>1 DEF LinkAssumption
      <4> QED BY <3>3, <4>1, <2>2, <1>2, <1>3, <1>5
    <3> QED BY <3>2, <3>3
  <2>3. ASSUME NEW v \in Users, packs'[v] + rewards'[v] > 0
        PROVE  \E b \in Partner :
                 account'[b].owner = v /\ account'[b].status \in {"active", "revoked"}
    <3>1. CASE packs[v] + rewards[v] > 0
      <4>1. PICK b \in Partner : account[b].owner = v /\ account[b].status \in {"active", "revoked"}
        BY <3>1 DEF LinkInv, LinkSafe, BonusesCountOnce
      <4> QED BY <4>1, <2>2
    <3>2. CASE ~(packs[v] + rewards[v] > 0)
      <4>1. v = u /\ (packs'[v] # packs[v] \/ rewards'[v] # rewards[v])
        BY <3>2, <2>3, <1>11, <1>12
      <4>2. a \in Partner /\ account'[a].owner = v /\ account'[a].status = "active"
        BY <4>1, <1>3, <1>5, <1>11, <1>12
      <4> QED BY <4>2
    <3> QED BY <3>1, <3>2
  <2> QED BY <2>1, <2>3 DEF BonusesCountOnce
<1> QED BY <1>13, <1>14, <1>15, <1>16, <1>17, <1>18 DEF LinkInv, LinkSafe

LEMMA RollBackLinkKeeps ==
  ASSUME LinkAssumption, LinkInv, NEW u \in Users, RollBackLink(u)
  PROVE  LinkInv'
<1>1. NoLink \in LinkRow /\ NoLink.step = "idle"
  BY DEF NoLink, LinkRow
<1>2. /\ link' \in [Users -> LinkRow] /\ ~Linking(u)'
      /\ \A v \in Users \ {u} : link'[v] = link[v] /\ (Linking(v)' <=> Linking(v))
  BY <1>1 DEF RollBackLink, LinkInv, LinkTypes, Linking
<1>3. UNCHANGED <<account, linkBlocked, post, deposits, unseen, packs, rewards, rules, toggles>>
  BY DEF RollBackLink
<1>4. LinkTypes' /\ LinkTypeOK'
  BY <1>2, <1>3 DEF LinkInv, LinkTypes, LinkSafe, LinkTypeOK
<1>5. \A v \in Users : LinkOK(v)' /\ WindowOK(v)'
  BY <1>2, <1>3 DEF LinkInv, LinkOK, WindowOK, Attaching, Activates, Linking
<1>6. \A b : LinkHolds(b)' => LinkHolds(b)
  BY <1>2 DEF LinkHolds
<1>7. \A p \in Posts : PostOK(p)'
  BY <1>3, <1>6 DEF LinkInv, PostOK, OwnerSeen
<1>8. ConfirmedDepositHasOwner' /\ PendingOwnsNothing' /\ BonusesCountOnce'
  BY <1>3 DEF LinkInv, LinkSafe, ConfirmedDepositHasOwner, PendingOwnsNothing, BonusesCountOnce
<1> QED BY <1>4, <1>5, <1>7, <1>8 DEF LinkInv, LinkSafe

-----------------------------------------------------------------------------
\* The read waits for a link that holds the row, so what it read is what its commit will meet.
LEMMA ReadAccountKeeps ==
  ASSUME LinkAssumption, LinkInv, NEW p \in Posts, ReadAccount(p)
  PROVE  LinkInv'
<1> DEFINE a == Trader[Payment[p]]
           new == [step |-> "read", row |-> account[a].status # "none", owner |-> OwnerSeen(a)]
<1>1. a \in Accounts /\ account[a] \in AccountRow
  BY DEF LinkAssumption, LinkInv, LinkTypes
<1>2. /\ new \in PostRow /\ new.step = "read" /\ new.owner = OwnerSeen(a)
      /\ new.row = (account[a].status # "none")
  BY <1>1 DEF PostRow, OwnerSeen, AccountRow
<1>3. post' = [post EXCEPT ![p] = new]
  BY DEF ReadAccount
<1>4. new.row => ~LinkHolds(a)
  BY <1>2 DEF ReadAccount, WaitsFor
<1>5. ~new.row => new.owner = NoUser
  BY <1>2 DEF OwnerSeen
<1> HIDE DEF new
<1>6. /\ post' \in [Posts -> PostRow] /\ post'[p] = new
      /\ \A q \in Posts \ {p} : post'[q] = post[q]
  BY <1>2, <1>3 DEF LinkInv, LinkTypes
<1>7. UNCHANGED <<account, linkBlocked, link, deposits, unseen, packs, rewards, rules, toggles>>
  BY DEF ReadAccount
<1>8. LinkTypes' /\ \A u \in Users : LinkOK(u)' /\ WindowOK(u)'
  BY <1>6, <1>7 DEF LinkInv, LinkTypes, LinkOK, Linking, WindowOK, Attaching, Activates
<1>9. LinkTypeOK'
  BY <1>5, <1>6, <1>7 DEF LinkInv, LinkSafe, LinkTypeOK, Linking
<1>10. \A b : LinkHolds(b)' <=> LinkHolds(b)
  BY <1>7 DEF LinkHolds, Linking
<1>11. \A q \in Posts : PostOK(q)'
  <2> SUFFICES ASSUME NEW q \in Posts PROVE PostOK(q)'
    OBVIOUS
  <2>1. CASE q = p
    BY <2>1, <1>2, <1>4, <1>5, <1>6, <1>7, <1>10 DEF PostOK, OwnerSeen
  <2>2. CASE q # p
    BY <2>2, <1>6, <1>7, <1>10 DEF LinkInv, PostOK, OwnerSeen
  <2> QED BY <2>1, <2>2
<1>12. ConfirmedDepositHasOwner' /\ PendingOwnsNothing' /\ BonusesCountOnce'
  BY <1>7 DEF LinkInv, LinkSafe, ConfirmedDepositHasOwner, PendingOwnsNothing, BonusesCountOnce
<1> QED BY <1>8, <1>9, <1>11, <1>12 DEF LinkInv, LinkSafe

\* A postback's step past its read: it writes at most its own deposit, absent before, with the owner
\* it read.
LEMMA PostMoves ==
  ASSUME LinkAssumption, LinkInv, NEW p \in Posts, NEW new \in PostRow, new.step # "read",
         new.owner # NoUser => new.row,
         post' = [post EXCEPT ![p] = new],
         UNCHANGED <<account, linkBlocked, link, packs, rewards, rules, toggles>>
  PROVE  LinkTypeOK' /\ BonusesCountOnce' /\ post' \in [Posts -> PostRow]
         /\ (\A u \in Users : LinkOK(u)') /\ \A q \in Posts : PostOK(q)'
<1>1. /\ post' \in [Posts -> PostRow] /\ post'[p] = new
      /\ \A q \in Posts \ {p} : post'[q] = post[q]
  BY DEF LinkInv, LinkTypes
<1>2. \A b : LinkHolds(b)' <=> LinkHolds(b)
  BY DEF LinkHolds, Linking
<1>3. LinkTypeOK'
  BY <1>1 DEF LinkInv, LinkSafe, LinkTypeOK, Linking
<1>4. BonusesCountOnce' /\ \A u \in Users : LinkOK(u)'
  BY DEF LinkInv, LinkSafe, BonusesCountOnce, LinkOK, Linking
<1>5. \A q \in Posts : PostOK(q)'
  BY <1>1, <1>2 DEF LinkInv, PostOK, OwnerSeen
<1> QED BY <1>1, <1>3, <1>4, <1>5

LEMMA CommitPostKeeps ==
  ASSUME LinkAssumption, LinkInv, NEW p \in Posts, CommitPost(p)
  PROVE  LinkInv'
<1> DEFINE d == Payment[p]
           a == Trader[d]
           new == [post[p] EXCEPT !.step = "done"]
<1>1. /\ d \in Deposits /\ a \in Accounts /\ post[p] \in PostRow /\ post[p].step = "read"
      /\ account[a].status \in Statuses
  BY DEF LinkAssumption, LinkInv, LinkTypes, AccountRow, CommitPost
<1>2. new \in PostRow /\ new.step # "read" /\ (new.owner # NoUser => new.row)
  BY <1>1 DEF PostRow, LinkInv, LinkSafe, LinkTypeOK
<1>3. /\ post' = [post EXCEPT ![p] = new]
      /\ UNCHANGED <<account, linkBlocked, link, packs, rewards, rules, toggles>>
  BY DEF CommitPost
<1> HIDE DEF new
<1>4. /\ LinkTypeOK' /\ BonusesCountOnce' /\ post' \in [Posts -> PostRow]
      /\ (\A u \in Users : LinkOK(u)') /\ \A q \in Posts : PostOK(q)'
  BY <1>2, <1>3, PostMoves
<1>5. /\ deposits' \in [Deposits -> Users \cup {NoUser, "absent"}]
      /\ \A e \in Deposits :
           \/ deposits'[e] = deposits[e]
           \/ /\ e = d /\ deposits[e] = "absent"
              /\ deposits'[e] = post[p].owner
      /\ unseen \subseteq unseen'
      /\ deposits[d] = "absent" /\ Overtaken(p) => d \in unseen'
  <2>1. /\ deposits \in [Deposits -> Users \cup {NoUser, "absent"}]
        /\ post[p].owner \in Users \cup {NoUser}
    BY <1>1 DEF LinkInv, LinkTypes, PostRow
  <2>2. CASE deposits[d] = "absent"
    <3>1. deposits' = [deposits EXCEPT ![d] = post[p].owner]
      BY <2>2 DEF CommitPost
    <3>2. unseen' = IF Overtaken(p) THEN unseen \cup {d} ELSE unseen
      BY <2>2 DEF CommitPost
    <3> QED BY <2>1, <2>2, <3>1, <3>2, <1>1
  <2>3. CASE deposits[d] # "absent"
    BY <2>1, <2>3 DEF CommitPost
  <2> QED BY <2>2, <2>3
<1>6. LinkTypes'
  BY <1>3, <1>4, <1>5 DEF LinkInv, LinkTypes
<1>7. ConfirmedDepositHasOwner' /\ PendingOwnsNothing'
  <2> SUFFICES ASSUME NEW e \in Deposits
               PROVE  /\ /\ account[Trader[e]].status \in {"active", "revoked"}
                         /\ deposits'[e] # "absent"
                         => \/ deposits'[e] = account[Trader[e]].owner
                            \/ deposits'[e] = NoUser /\ e \in unseen'
                      /\ account[Trader[e]].status \in {"none", "pending"}
                         => deposits'[e] \in {"absent", NoUser}
    BY <1>3 DEF ConfirmedDepositHasOwner, PendingOwnsNothing
  <2>1. CASE deposits'[e] = deposits[e]
    BY <2>1, <1>5 DEF LinkInv, LinkSafe, ConfirmedDepositHasOwner, PendingOwnsNothing
  <2>2. CASE e = d /\ deposits[e] = "absent" /\ deposits'[e] = post[p].owner
    <3>1. IF post[p].row THEN post[p].owner = OwnerSeen(a) ELSE post[p].owner = NoUser
      BY <1>1 DEF LinkInv, PostOK
    <3>2. post[p].row \in BOOLEAN
      BY <1>1 DEF PostRow
    <3> QED BY <2>2, <3>1, <3>2, <1>1, <1>5 DEF OwnerSeen, Statuses, Overtaken
  <2> QED BY <2>1, <2>2, <1>5
<1>8. \A u \in Users : WindowOK(u)'
  <2> SUFFICES ASSUME NEW u \in Users, link[u].step = "written", Attaching(u), NEW e \in Deposits,
                      Trader[e] = link[u].account, e \notin link[u].sees, deposits'[e] = NoUser
               PROVE  e \in unseen'
    BY <1>3 DEF WindowOK, Attaching, Activates
  <2>1. CASE deposits'[e] = deposits[e]
    BY <2>1, <1>5 DEF LinkInv, WindowOK
  <2>2. CASE e = d /\ deposits[e] = "absent" /\ deposits'[e] = post[p].owner
    <3>1. LinkHolds(a)
      BY <2>2 DEF LinkHolds, Linking
    <3>2. ~post[p].row
      BY <3>1, <1>1 DEF LinkInv, PostOK
    <3>3. Overtaken(p)
      BY <2>2, <3>2 DEF Overtaken
    <3> QED BY <2>2, <3>3, <1>5
  <2> QED BY <2>1, <2>2, <1>5
<1> QED BY <1>4, <1>6, <1>7, <1>8 DEF LinkInv, LinkSafe

LEMMA RollBackPostKeeps ==
  ASSUME LinkAssumption, LinkInv, NEW p \in Posts, RollBackPost(p)
  PROVE  LinkInv'
<1>1. NoPost \in PostRow /\ NoPost.step # "read" /\ NoPost.owner = NoUser
  BY DEF NoPost, PostRow
<1>2. /\ post' = [post EXCEPT ![p] = NoPost]
      /\ UNCHANGED <<account, linkBlocked, link, deposits, unseen, packs, rewards, rules, toggles>>
  BY DEF RollBackPost
<1>3. /\ LinkTypeOK' /\ BonusesCountOnce' /\ post' \in [Posts -> PostRow]
      /\ (\A u \in Users : LinkOK(u)') /\ \A q \in Posts : PostOK(q)'
  BY <1>1, <1>2, PostMoves
<1>4. \A u \in Users : WindowOK(u)'
  BY <1>2 DEF LinkInv, WindowOK, Attaching, Activates
<1> QED
  BY <1>2, <1>3, <1>4 DEF LinkInv, LinkTypes, LinkSafe, ConfirmedDepositHasOwner, PendingOwnsNothing

-----------------------------------------------------------------------------
\* A revocation waits for the row and changes its status between two that are both confirmed.
LEMMA RevokeAccountKeeps ==
  ASSUME LinkAssumption, LinkInv, NEW a \in Accounts, RevokeAccount(a)
  PROVE  LinkInv'
<1> DEFINE new == [account[a] EXCEPT !.status = "revoked"]
<1>1. account[a] \in AccountRow /\ account[a].status = "active"
  BY DEF RevokeAccount, LinkInv, LinkTypes
<1>2. new \in AccountRow /\ new.owner = account[a].owner /\ new.status = "revoked"
  BY <1>1 DEF AccountRow, Statuses
<1>3. account' = [account EXCEPT ![a] = new]
  BY DEF RevokeAccount
<1> HIDE DEF new
<1>4. /\ account' \in [Accounts -> AccountRow] /\ account'[a] = new
      /\ \A b \in Accounts \ {a} : account'[b] = account[b]
  BY <1>2, <1>3 DEF LinkInv, LinkTypes
<1>5. \A b \in Accounts :
        /\ account'[b].owner = account[b].owner
        /\ \/ account'[b].status = account[b].status
           \/ account[b].status = "active" /\ account'[b].status = "revoked"
  <2> TAKE b \in Accounts
  <2>1. CASE b = a
    BY <2>1, <1>1, <1>2, <1>4
  <2>2. CASE b # a
    BY <2>2, <1>4
  <2> QED BY <2>1, <2>2
<1>6. UNCHANGED <<linkBlocked, link, post, deposits, unseen, packs, rewards, rules>>
  BY DEF RevokeAccount
<1>7. LinkTypes' /\ \A u \in Users : LinkOK(u)' /\ WindowOK(u)'
  BY <1>4, <1>6 DEF LinkInv, LinkTypes, LinkOK, Linking, WindowOK, Attaching, Activates
<1>8. LinkTypeOK'
  <2>1. \A u \in Users : Linking(u) => link[u].account \in Accounts
    BY DEF LinkInv, LinkOK
  <2> QED BY <2>1, <1>5, <1>6 DEF LinkInv, LinkSafe, LinkTypeOK, Linking
<1>9. \A p \in Posts : PostOK(p)'
  <2>1. \A p \in Posts : Trader[Payment[p]] \in Accounts
    BY DEF LinkAssumption
  <2>2. \A b : LinkHolds(b)' <=> LinkHolds(b)
    BY <1>6 DEF LinkHolds, Linking
  <2> QED BY <2>1, <2>2, <1>5, <1>6 DEF LinkInv, PostOK, OwnerSeen
<1>10. ConfirmedDepositHasOwner' /\ PendingOwnsNothing'
  <2>1. \A d \in Deposits : Trader[d] \in Accounts
    BY DEF LinkAssumption
  <2> QED BY <2>1, <1>5, <1>6 DEF LinkInv, LinkSafe, ConfirmedDepositHasOwner, PendingOwnsNothing
<1>11. BonusesCountOnce'
  <2>1. Partner \subseteq Accounts
    BY DEF LinkAssumption
  <2> QED BY <2>1, <1>5, <1>6 DEF LinkInv, LinkSafe, BonusesCountOnce
<1> QED BY <1>7, <1>8, <1>9, <1>10, <1>11 DEF LinkInv, LinkSafe

LEMMA RestKeeps ==
  ASSUME LinkInv,
         UNCHANGED <<account, link, post, deposits, unseen, packs, rewards>>
  PROVE  LinkInv'
BY DEF LinkInv, LinkTypes, LinkOK, PostOK, LinkSafe, LinkTypeOK, ConfirmedDepositHasOwner,
   PendingOwnsNothing, BonusesCountOnce, Linking, LinkHolds, OwnerSeen, WindowOK, Attaching, Activates

\* Whatever logins, callbacks, confirmations, postbacks, blocks and rules interleave: a confirmed
\* account's deposits have its owner, a pending one owns nothing, each bonus counts once.
THEOREM LinksStaySafe == LinkAssumption /\ LinkSpec => []LinkSafe
<1> SUFFICES ASSUME LinkAssumption PROVE LinkSpec => []LinkSafe
  OBVIOUS
<1>1. LinkInit => LinkInv
  BY LinkInitHolds
<1>2. LinkInv /\ [LinkNext]_linkVars => LinkInv'
  <2> SUFFICES ASSUME LinkInv, [LinkNext]_linkVars PROVE LinkInv'
    OBVIOUS
  <2>1. ASSUME NEW u \in Users, NEW a \in Accounts, NEW way \in Ways, BeginLink(u, a, way)
        PROVE  LinkInv'
    BY <2>1, BeginLinkKeeps
  <2>2. ASSUME NEW u \in Users, CommitLink(u) PROVE LinkInv'
    BY <2>2, CommitLinkKeeps
  <2>3. ASSUME NEW u \in Users, RollBackLink(u) PROVE LinkInv'
    BY <2>3, RollBackLinkKeeps
  <2>4. ASSUME NEW u \in Users, BlockUser(u) PROVE LinkInv'
    BY <2>4, RestKeeps DEF BlockUser
  <2>5. ASSUME NEW p \in Posts, ReadAccount(p) PROVE LinkInv'
    BY <2>5, ReadAccountKeeps
  <2>6. ASSUME NEW p \in Posts, CommitPost(p) PROVE LinkInv'
    BY <2>6, CommitPostKeeps
  <2>7. ASSUME NEW p \in Posts, RollBackPost(p) PROVE LinkInv'
    BY <2>7, RollBackPostKeeps
  <2>8. ASSUME NEW a \in Accounts, RevokeAccount(a) PROVE LinkInv'
    BY <2>8, RevokeAccountKeeps
  <2>9. ASSUME NEW code \in Codes, SetRule(code) PROVE LinkInv'
    BY <2>9, RestKeeps DEF SetRule
  <2>10. CASE UNCHANGED linkVars
    BY <2>10, RestKeeps DEF linkVars
  <2>11. ASSUME NEW u \in Users, WriteLink(u) PROVE LinkInv'
    BY <2>11, WriteLinkKeeps
  <2> QED BY <2>1, <2>2, <2>3, <2>4, <2>5, <2>6, <2>7, <2>8, <2>9, <2>10, <2>11 DEF LinkNext
<1>3. LinkInv => LinkSafe
  BY DEF LinkInv
<1> QED BY <1>1, <1>2, <1>3, PTL DEF LinkSpec

-----------------------------------------------------------------------------
(* The switch of the mode after a deposit *)

SwitchInv ==
  /\ SwitchTypeOK /\ SessionRunsInMode
  /\ attributed \subseteq SwitchDeposits
  /\ pass \in [Processes -> [left : SUBSET SwitchDeposits, read : SwitchDeposits \cup {0}]]

\* What a step may do to outcomes and modes: an outcome that stands stays, and a mode changes for a
\* reason.
OutcomesStand == \A d \in SwitchDeposits : outcome[d] # "none" => outcome'[d] = outcome[d]

ForADeposit(u) ==
  /\ mode'[u] = "real" /\ ~Running(u)
  /\ \E d \in SwitchDeposits :
       /\ UserOf(d) = u /\ outcome[d] = "none" /\ outcome'[d] = "switched"
       /\ \A e \in SwitchDeposits \ {d} : outcome'[e] = outcome[e]

ByTheUser(u) ==
  /\ \A a \in SwitchAccounts : Owner[a] = u => session'[a] = "none"
  /\ \A d \in attributed : UserOf(d) = u => outcome'[d] # "none"

ModesMove == \A u \in SwitchUsers : mode'[u] # mode[u] => ForADeposit(u) \/ ByTheUser(u)

SwitchKept == SwitchInv' /\ OutcomesStand /\ ModesMove

LEMMA SwitchInitHolds == SwitchAssumption /\ SwitchInit => SwitchInv
BY DEF SwitchAssumption, SwitchInit, SwitchInv, SwitchTypeOK, SessionRunsInMode, Modes, Idle

\* The user's change stops the user's sessions and closes the user's waiting deposits.
LEMMA SetModeKeeps ==
  ASSUME SwitchAssumption, SwitchInv, NEW u \in SwitchUsers, NEW m \in Modes, SetMode(u, m)
  PROVE  SwitchKept
<1>1. /\ mode' = [mode EXCEPT ![u] = m]
      /\ session' = [a \in SwitchAccounts |-> IF Owner[a] = u THEN "none" ELSE session[a]]
      /\ outcome' = [d \in SwitchDeposits |->
                       IF d \in Superseded(u) THEN "superseded" ELSE outcome[d]]
      /\ UNCHANGED <<attributed, pass>>
  BY DEF SetMode
<1>2. /\ \A d \in Superseded(u) : d \in attributed /\ outcome[d] = "none"
      /\ \A d \in attributed : UserOf(d) = u /\ outcome[d] = "none" => d \in Superseded(u)
  BY DEF Superseded, Waiting, SwitchInv
<1>3. SwitchTypeOK'
  BY <1>1, <1>2 DEF SwitchInv, SwitchTypeOK, Outcomes
<1>4. SessionRunsInMode'
  <2>1. \A a \in SwitchAccounts : Owner[a] \in SwitchUsers
    BY DEF SwitchAssumption
  <2>2. \A v \in SwitchUsers \ {u} : mode'[v] = mode[v]
    BY <1>1 DEF SwitchInv, SwitchTypeOK
  <2> QED BY <1>1, <2>1, <2>2 DEF SwitchInv, SessionRunsInMode
<1>5. OutcomesStand
  BY <1>1, <1>2 DEF OutcomesStand
<1>6. ModesMove
  <2>1. \A v \in SwitchUsers : mode'[v] # mode[v] => v = u
    BY <1>1 DEF SwitchInv, SwitchTypeOK
  <2>2. ByTheUser(u)
    BY <1>1, <1>2 DEF ByTheUser, SwitchInv
  <2> QED BY <2>1, <2>2 DEF ModesMove
<1> QED BY <1>1, <1>3, <1>4, <1>5, <1>6 DEF SwitchKept, SwitchInv

\* A session is started in its user's mode.
LEMMA StartSessionKeeps ==
  ASSUME SwitchAssumption, SwitchInv, NEW a \in SwitchAccounts, StartSession(a)
  PROVE  SwitchKept
<1>1. Owner[a] \in SwitchUsers
  BY DEF SwitchAssumption
<1>2. /\ session' = [session EXCEPT ![a] = mode[Owner[a]]]
      /\ UNCHANGED <<mode, attributed, outcome, pass>>
  BY DEF StartSession
<1>3. mode[Owner[a]] \in Modes
  BY <1>1 DEF SwitchInv, SwitchTypeOK
<1> QED BY <1>2, <1>3 DEF SwitchKept, SwitchInv, SwitchTypeOK, SessionRunsInMode, OutcomesStand,
                      ModesMove

LEMMA StopSessionKeeps ==
  ASSUME SwitchInv, NEW a \in SwitchAccounts, StopSession(a)
  PROVE  SwitchKept
BY DEF StopSession, SwitchKept, SwitchInv, SwitchTypeOK, SessionRunsInMode, OutcomesStand, ModesMove

LEMMA AttributeKeeps ==
  ASSUME SwitchInv, NEW d \in SwitchDeposits, Attribute(d)
  PROVE  SwitchKept
<1>1. /\ attributed' = attributed \cup {d}
      /\ UNCHANGED <<mode, session, outcome, pass>>
  BY DEF Attribute
<1> QED BY <1>1 DEF SwitchKept, SwitchInv, SwitchTypeOK, SessionRunsInMode, OutcomesStand, ModesMove

\* A step of a pass that writes no row: the pass reads or drops deposits that are attributed.
LEMMA PassMoves ==
  ASSUME SwitchInv, NEW p \in Processes, NEW new, pass' = [pass EXCEPT ![p] = new],
         new \in [left : SUBSET SwitchDeposits, read : SwitchDeposits \cup {0}],
         new.left \subseteq attributed, new.read \in {0} \cup attributed,
         UNCHANGED <<mode, session, attributed, outcome>>
  PROVE  SwitchKept
<1>1. /\ pass' \in [Processes -> [left : SUBSET SwitchDeposits, read : SwitchDeposits \cup {0}]]
      /\ \A q \in Processes : pass'[q] = IF q = p THEN new ELSE pass[q]
  BY DEF SwitchInv
<1> QED BY <1>1 DEF SwitchKept, SwitchInv, SwitchTypeOK, SessionRunsInMode, OutcomesStand, ModesMove

LEMMA StartTickKeeps ==
  ASSUME SwitchInv, NEW p \in Processes, StartTick(p)
  PROVE  SwitchKept
<1> DEFINE new == [pass[p] EXCEPT !.left = Candidates]
<1>1. pass[p] = Idle /\ Candidates \subseteq attributed /\ attributed \subseteq SwitchDeposits
  BY DEF StartTick, Candidates, Waiting, SwitchInv
<1>2. /\ new \in [left : SUBSET SwitchDeposits, read : SwitchDeposits \cup {0}]
      /\ new.left \subseteq attributed /\ new.read \in {0} \cup attributed
  BY <1>1 DEF Idle
<1>3. pass' = [pass EXCEPT ![p] = new] /\ UNCHANGED <<mode, session, attributed, outcome>>
  BY DEF StartTick
<1> HIDE DEF new
<1> QED BY <1>2, <1>3, PassMoves

LEMMA SkipHeldKeeps ==
  ASSUME SwitchInv, NEW p \in Processes, NEW d \in SwitchDeposits, SkipHeld(p, d)
  PROVE  SwitchKept
<1> DEFINE new == [pass[p] EXCEPT !.left = @ \ {d}]
<1>1. /\ pass[p] \in [left : SUBSET SwitchDeposits, read : SwitchDeposits \cup {0}]
      /\ pass[p].left \subseteq attributed /\ pass[p].read \in {0} \cup attributed
  BY DEF SwitchInv, SwitchTypeOK
<1>2. /\ new \in [left : SUBSET SwitchDeposits, read : SwitchDeposits \cup {0}]
      /\ new.left \subseteq attributed /\ new.read \in {0} \cup attributed
  BY <1>1
<1>3. pass' = [pass EXCEPT ![p] = new] /\ UNCHANGED <<mode, session, attributed, outcome>>
  BY DEF SkipHeld
<1> HIDE DEF new
<1> QED BY <1>2, <1>3, PassMoves

LEMMA ReadDepositKeeps ==
  ASSUME SwitchInv, NEW p \in Processes, NEW d \in SwitchDeposits, ReadDeposit(p, d)
  PROVE  SwitchKept
<1> DEFINE new == [left |-> pass[p].left \ {d}, read |-> IF Waiting(d) THEN d ELSE 0]
<1>1. /\ pass[p] \in [left : SUBSET SwitchDeposits, read : SwitchDeposits \cup {0}]
      /\ pass[p].left \subseteq attributed
  BY DEF SwitchInv, SwitchTypeOK
<1>2. /\ new \in [left : SUBSET SwitchDeposits, read : SwitchDeposits \cup {0}]
      /\ new.left \subseteq attributed /\ new.read \in {0} \cup attributed
  BY <1>1 DEF Waiting
<1>3. pass' = [pass EXCEPT ![p] = new] /\ UNCHANGED <<mode, session, attributed, outcome>>
  BY DEF ReadDeposit
<1> HIDE DEF new
<1> QED BY <1>2, <1>3, PassMoves

LEMMA GivesUpKeeps ==
  ASSUME SwitchInv, NEW p \in Processes, Throw(p) \/ Restart(p)
  PROVE  SwitchKept
<1> DEFINE new == IF Throw(p) THEN [pass[p] EXCEPT !.read = 0] ELSE Idle
<1>1. /\ pass[p] \in [left : SUBSET SwitchDeposits, read : SwitchDeposits \cup {0}]
      /\ pass[p].left \subseteq attributed
  BY DEF SwitchInv, SwitchTypeOK
<1>2. /\ new \in [left : SUBSET SwitchDeposits, read : SwitchDeposits \cup {0}]
      /\ new.left \subseteq attributed /\ new.read \in {0} \cup attributed
  BY <1>1 DEF Idle
<1>3. pass' = [pass EXCEPT ![p] = new] /\ UNCHANGED <<mode, session, attributed, outcome>>
  BY DEF Throw, Restart
<1> HIDE DEF new
<1> QED BY <1>2, <1>3, PassMoves

\* DEMO_ONLY closes an attributed deposit that nobody closed before.
LEMMA CloseDemoOnlyKeeps ==
  ASSUME SwitchInv, NEW p \in Processes, NEW d \in SwitchDeposits, CloseDemoOnly(p, d)
  PROVE  SwitchKept
<1> DEFINE new == [pass[p] EXCEPT !.left = @ \ {d}]
<1>1. /\ pass[p] \in [left : SUBSET SwitchDeposits, read : SwitchDeposits \cup {0}]
      /\ pass[p].left \subseteq attributed /\ pass[p].read \in {0} \cup attributed
      /\ d \in attributed
  BY DEF SwitchInv, SwitchTypeOK, CloseDemoOnly, AtCandidate
<1>2. /\ new \in [left : SUBSET SwitchDeposits, read : SwitchDeposits \cup {0}]
      /\ new.left \subseteq attributed /\ new.read \in {0} \cup attributed
  BY <1>1
<1>3. pass' = [pass EXCEPT ![p] = new]
  BY DEF CloseDemoOnly
<1> HIDE DEF new
<1>4. /\ pass' \in [Processes -> [left : SUBSET SwitchDeposits, read : SwitchDeposits \cup {0}]]
      /\ \A q \in Processes : pass'[q] = IF q = p THEN new ELSE pass[q]
  BY <1>2, <1>3 DEF SwitchInv
<1>5. /\ outcome' = IF outcome[d] = "none" THEN [outcome EXCEPT ![d] = "demo_only"] ELSE outcome
      /\ UNCHANGED <<mode, session, attributed>>
  BY DEF CloseDemoOnly
<1>6. /\ outcome' \in [SwitchDeposits -> Outcomes \cup {"none"}]
      /\ \A e \in SwitchDeposits : outcome'[e] # outcome[e] => e = d /\ outcome[e] = "none"
  BY <1>5 DEF SwitchInv, SwitchTypeOK, Outcomes
<1>7. SwitchTypeOK'
  BY <1>1, <1>2, <1>4, <1>5, <1>6 DEF SwitchInv, SwitchTypeOK
<1> QED BY <1>4, <1>5, <1>6, <1>7
      DEF SwitchKept, SwitchInv, SessionRunsInMode, OutcomesStand, ModesMove

\* The decision writes one outcome that nobody wrote before; it switches a mode under no session.
LEMMA DecideSwitchKeeps ==
  ASSUME SwitchAssumption, SwitchInv, NEW p \in Processes, DecideSwitch(p)
  PROVE  SwitchKept
<1> DEFINE d == pass[p].read
           v == Verdict(d)
           writes == v # "session_active" /\ Unmarked(d)
           u == UserOf(d)
           new == [pass[p] EXCEPT !.read = 0]
<1>1. /\ pass[p] \in [left : SUBSET SwitchDeposits, read : SwitchDeposits \cup {0}]
      /\ pass[p].left \subseteq attributed
      /\ d \in attributed /\ d \in SwitchDeposits
  BY DEF SwitchInv, SwitchTypeOK, DecideSwitch
<1>2. new = [left |-> pass[p].left, read |-> 0]
  BY <1>1
<1>3. pass' = [pass EXCEPT ![p] = new]
  BY DEF DecideSwitch
<1> HIDE DEF new
<1>4. /\ pass' \in [Processes -> [left : SUBSET SwitchDeposits, read : SwitchDeposits \cup {0}]]
      /\ \A q \in Processes : pass'[q] = IF q = p THEN new ELSE pass[q]
  BY <1>1, <1>2, <1>3 DEF SwitchInv
<1>5. /\ outcome' = IF writes THEN [outcome EXCEPT ![d] = v] ELSE outcome
      /\ mode' = IF writes /\ v = "switched" THEN [mode EXCEPT ![u] = "real"] ELSE mode
      /\ UNCHANGED <<session, attributed>>
  BY DEF DecideSwitch
<1>6. /\ v \in Outcomes \cup {"session_active"}
      /\ v = "switched" => ~Running(u)
  BY DEF Verdict, Outcomes, SessionActive
<1>7. u \in SwitchUsers
  BY <1>1 DEF UserOf, SwitchAssumption
<1> HIDE DEF v, u
<1>8. /\ outcome' \in [SwitchDeposits -> Outcomes \cup {"none"}]
      /\ \A e \in SwitchDeposits : outcome'[e] # outcome[e] =>
           e = d /\ outcome[e] = "none" /\ outcome'[e] = v
      /\ writes => outcome'[d] = v /\ outcome[d] = "none"
  BY <1>1, <1>5, <1>6 DEF SwitchInv, SwitchTypeOK, Unmarked
<1>9. /\ mode' \in [SwitchUsers -> Modes]
      /\ \A w \in SwitchUsers : mode'[w] # mode[w] =>
           w = u /\ writes /\ v = "switched" /\ mode'[w] = "real"
  BY <1>5, <1>7 DEF SwitchInv, SwitchTypeOK, Modes
<1>10. SwitchTypeOK'
  BY <1>1, <1>2, <1>4, <1>5, <1>8, <1>9 DEF SwitchInv, SwitchTypeOK
<1>11. SessionRunsInMode'
  <2> SUFFICES ASSUME NEW a \in SwitchAccounts, session[a] # "none"
               PROVE  mode'[Owner[a]] = mode[Owner[a]]
    BY <1>5 DEF SwitchInv, SessionRunsInMode
  <2>1. Owner[a] \in SwitchUsers /\ Running(Owner[a])
    BY DEF SwitchAssumption, Running
  <2> QED BY <2>1, <1>6, <1>9
<1>12. OutcomesStand
  BY <1>8 DEF OutcomesStand
<1>13. ModesMove
  <2> SUFFICES ASSUME NEW w \in SwitchUsers, mode'[w] # mode[w] PROVE ForADeposit(w)
    BY DEF ModesMove
  <2>1. w = u /\ writes /\ v = "switched" /\ mode'[w] = "real"
    BY <1>9
  <2>2. UserOf(d) = w /\ outcome[d] = "none" /\ outcome'[d] = "switched"
    BY <2>1, <1>8 DEF u
  <2>3. \A e \in SwitchDeposits \ {d} : outcome'[e] = outcome[e]
    BY <1>8
  <2> QED BY <2>1, <2>2, <2>3, <1>1, <1>6 DEF ForADeposit
<1> QED BY <1>4, <1>10, <1>11, <1>12, <1>13, <1>5 DEF SwitchKept, SwitchInv

LEMMA SwitchRestKeeps ==
  ASSUME SwitchInv, UNCHANGED <<mode, session, attributed, outcome, pass>>
  PROVE  SwitchKept
BY DEF SwitchKept, SwitchInv, SwitchTypeOK, SessionRunsInMode, OutcomesStand, ModesMove

\* One deposit fell, and by itself.
LEMMA OneFell ==
  ASSUME NEW u \in SwitchUsers, ForADeposit(u)
  PROVE  Cardinality({d \in {e \in SwitchDeposits : UserOf(e) = u} :
                        outcome[d] = "none" /\ outcome'[d] = "switched"}) = 1
<1>1. PICK d \in SwitchDeposits :
        /\ UserOf(d) = u /\ outcome[d] = "none" /\ outcome'[d] = "switched"
        /\ \A e \in SwitchDeposits \ {d} : outcome'[e] = outcome[e]
  BY DEF ForADeposit
<1>2. {x \in {e \in SwitchDeposits : UserOf(e) = u} :
         outcome[x] = "none" /\ outcome'[x] = "switched"} = {d}
  BY <1>1
<1> QED BY <1>2, FS_Singleton

\* For any users, accounts, deposits and processes: a session runs in its user's mode, an outcome is
\* never written over, and a mode changes for exactly one deposit, under no session, or by the user.
THEOREM SwitchStaysSafe == SwitchAssumption /\ SwitchSpec => SwitchSafe
<1> SUFFICES ASSUME SwitchAssumption PROVE SwitchSpec => SwitchSafe
  OBVIOUS
<1>1. SwitchInit => SwitchInv
  BY SwitchInitHolds
<1>2. SwitchInv /\ [SwitchNext]_switchVars => SwitchKept
  <2> SUFFICES ASSUME SwitchInv, [SwitchNext]_switchVars PROVE SwitchKept
    OBVIOUS
  <2>1. ASSUME NEW u \in SwitchUsers, BlockOwner(u) PROVE SwitchKept
    BY <2>1, SwitchRestKeeps DEF BlockOwner
  <2>2. ASSUME NEW u \in SwitchUsers, NEW m \in Modes, SetMode(u, m) PROVE SwitchKept
    BY <2>2, SetModeKeeps
  <2>3. ASSUME NEW a \in SwitchAccounts, StartSession(a) PROVE SwitchKept
    BY <2>3, StartSessionKeeps
  <2>4. ASSUME NEW a \in SwitchAccounts, StopSession(a) PROVE SwitchKept
    BY <2>4, StopSessionKeeps
  <2>5. ASSUME NEW a \in SwitchAccounts, RevokeOwned(a) PROVE SwitchKept
    BY <2>5, SwitchRestKeeps DEF RevokeOwned
  <2>6. ASSUME NEW d \in SwitchDeposits, Attribute(d) PROVE SwitchKept
    BY <2>6, AttributeKeeps
  <2>7. ASSUME NEW p \in Processes, StartTick(p) PROVE SwitchKept
    BY <2>7, StartTickKeeps
  <2>8. ASSUME NEW p \in Processes, DecideSwitch(p) PROVE SwitchKept
    BY <2>8, DecideSwitchKeeps
  <2>9. ASSUME NEW p \in Processes, Throw(p) \/ Restart(p) PROVE SwitchKept
    BY <2>9, GivesUpKeeps
  <2>10. ASSUME NEW p \in Processes, HoldEnds(p) PROVE SwitchKept
    BY <2>10, SwitchRestKeeps DEF HoldEnds
  <2>11. ASSUME NEW p \in Processes, NEW d \in SwitchDeposits, SkipHeld(p, d) PROVE SwitchKept
    BY <2>11, SkipHeldKeeps
  <2>12. ASSUME NEW p \in Processes, NEW d \in SwitchDeposits, CloseDemoOnly(p, d)
         PROVE  SwitchKept
    BY <2>12, CloseDemoOnlyKeeps
  <2>13. ASSUME NEW p \in Processes, NEW d \in SwitchDeposits, ReadDeposit(p, d) PROVE SwitchKept
    BY <2>13, ReadDepositKeeps
  <2>14. CASE UNCHANGED switchVars
    BY <2>14, SwitchRestKeeps DEF switchVars
  <2> QED BY <2>1, <2>2, <2>3, <2>4, <2>5, <2>6, <2>7, <2>8, <2>9, <2>10, <2>11, <2>12, <2>13,
             <2>14 DEF SwitchNext
<1>3. SwitchKept => SwitchInv'
  BY DEF SwitchKept
<1>4. SwitchInv => SwitchTypeOK /\ SessionRunsInMode
  BY DEF SwitchInv
<1>5. SwitchKept =>
        [\A d \in SwitchDeposits : outcome[d] # "none" => outcome'[d] = outcome[d]]_switchVars
  BY DEF SwitchKept, OutcomesStand
<1>6. SwitchInv /\ SwitchKept =>
        [\A u \in SwitchUsers : mode'[u] # mode[u] =>
           LET mine == {d \in SwitchDeposits : UserOf(d) = u}
               fell == {d \in mine : outcome[d] = "none" /\ outcome'[d] = "switched"}
           IN  \/ mode'[u] = "real" /\ Cardinality(fell) = 1 /\ ~Running(u)
               \/ /\ \A a \in SwitchAccounts : Owner[a] = u => session'[a] = "none"
                  /\ \A d \in mine \cap attributed : outcome'[d] # "none"]_switchVars
  <2> SUFFICES ASSUME SwitchKept, NEW u \in SwitchUsers, mode'[u] # mode[u]
               PROVE  LET mine == {d \in SwitchDeposits : UserOf(d) = u}
                          fell == {d \in mine : outcome[d] = "none" /\ outcome'[d] = "switched"}
                      IN  \/ mode'[u] = "real" /\ Cardinality(fell) = 1 /\ ~Running(u)
                          \/ /\ \A a \in SwitchAccounts : Owner[a] = u => session'[a] = "none"
                             /\ \A d \in mine \cap attributed : outcome'[d] # "none"
    OBVIOUS
  <2>1. CASE ForADeposit(u)
    BY <2>1, OneFell DEF ForADeposit
  <2>2. CASE ByTheUser(u)
    BY <2>2 DEF ByTheUser
  <2> QED BY <2>1, <2>2 DEF SwitchKept, ModesMove
<1> QED BY <1>1, <1>2, <1>3, <1>4, <1>5, <1>6, PTL
      DEF SwitchSpec, SwitchSafe, OutcomeStands, ModeChangesForAReason

-----------------------------------------------------------------------------
(* Payments in Stars *)

\* A sum is a number, grows by what one member grew and does not see the others.
Units(f, S) == UNION {{c} \X (1..f[c]) : c \in S}

LEMMA UnitsFinite ==
  ASSUME NEW S \in SUBSET Charges, IsFiniteSet(S), NEW f \in [Charges -> Nat]
  PROVE  IsFiniteSet(Units(f, S)) /\ Total(f, S) \in Nat
<1> DEFINE T == {{c} \X (1..f[c]) : c \in S}
           g == [c \in S |-> {c} \X (1..f[c])]
<1>1. g \in Surjection(S, T)
  BY DEF Surjection
<1>2. IsFiniteSet(T)
  BY <1>1, FS_Surjection
<1>3. ASSUME NEW c \in S PROVE IsFiniteSet({c} \X (1..f[c]))
  <2>1. IsFiniteSet({c})
    BY FS_Singleton
  <2>2. IsFiniteSet(1..f[c])
    <3>1. f[c] \in Int /\ 1 \in Int
      OBVIOUS
    <3> QED BY <3>1, FS_Interval
  <2> QED BY <2>1, <2>2, FS_Product
<1>4. \A U \in T : IsFiniteSet(U)
  BY <1>3
<1>5. IsFiniteSet(UNION T)
  BY <1>2, <1>4, FS_UNION
<1> QED BY <1>5, FS_CardinalityType DEF Units, Total

LEMMA TotalGrows ==
  ASSUME NEW S \in SUBSET Charges, IsFiniteSet(S), NEW f \in [Charges -> Nat],
         NEW h \in [Charges -> Nat], NEW c \in S, NEW t \in Nat, h[c] = f[c] + t,
         \A d \in Charges \ {c} : h[d] = f[d]
  PROVE  Total(h, S) = Total(f, S) + t
<1> DEFINE D == {c} \X (f[c] + 1 .. h[c])
<1>1. f[c] \in Nat /\ h[c] \in Nat
  OBVIOUS
<1>2. IsFiniteSet(D) /\ Cardinality(D) = t
  <2>1. IsFiniteSet({c}) /\ Cardinality({c}) = 1
    BY FS_Singleton
  <2>2. IsFiniteSet(f[c] + 1 .. h[c]) /\ Cardinality(f[c] + 1 .. h[c]) = t
    <3>1. f[c] + 1 \in Int /\ h[c] \in Int
      BY <1>1
    <3>2. /\ IsFiniteSet(f[c] + 1 .. h[c])
          /\ Cardinality(f[c] + 1 .. h[c]) =
               IF f[c] + 1 > h[c] THEN 0 ELSE h[c] - (f[c] + 1) + 1
      BY <3>1, FS_Interval
    <3> QED BY <3>2, <1>1
  <2>3. IsFiniteSet(D) /\ Cardinality(D) = Cardinality({c}) * Cardinality(f[c] + 1 .. h[c])
    BY <2>1, <2>2, FS_Product
  <2> QED BY <2>1, <2>2, <2>3
<1>3. Units(h, S) = Units(f, S) \cup D
  <2>1. 1..h[c] = (1..f[c]) \cup (f[c] + 1 .. h[c])
    BY <1>1
  <2>2. {c} \X (1..h[c]) = ({c} \X (1..f[c])) \cup D
    BY <2>1
  <2>3. \A d \in S \ {c} : {d} \X (1..h[d]) = {d} \X (1..f[d])
    OBVIOUS
  <2> HIDE DEF D
  <2> QED BY <2>2, <2>3 DEF Units
<1>4. Units(f, S) \cap D = {}
  <2> SUFFICES ASSUME NEW x \in D PROVE x \notin Units(f, S)
    OBVIOUS
  <2>1. x[1] = c /\ x[2] \in f[c] + 1 .. h[c]
    OBVIOUS
  <2>2. \A d \in S : x \in {d} \X (1..f[d]) => d = c /\ x[2] \in 1..f[c]
    BY <2>1
  <2>3. ~(x[2] \in 1..f[c])
    BY <2>1, <1>1
  <2> QED BY <2>2, <2>3 DEF Units
<1> HIDE DEF D
<1>5. IsFiniteSet(Units(f, S)) /\ Cardinality(Units(f, S)) \in Nat
  BY UnitsFinite DEF Total, Units
<1>6. Cardinality(Units(h, S)) = Cardinality(Units(f, S)) + Cardinality(D) - Cardinality({})
  BY <1>2, <1>3, <1>4, <1>5, FS_Union
<1>7. Cardinality({}) = 0
  BY FS_EmptySet
<1> QED BY <1>2, <1>5, <1>6, <1>7 DEF Units, Total

LEMMA TotalStays ==
  ASSUME NEW S, NEW f, NEW h, \A d \in S : h[d] = f[d]
  PROVE  Total(h, S) = Total(f, S)
<1>1. {{c} \X (1..h[c]) : c \in S} = {{c} \X (1..f[c]) : c \in S}
  OBVIOUS
<1> QED BY <1>1 DEF Total

-----------------------------------------------------------------------------
\* What the status of a payment says of its ledger rows.
PaymentOK(c) ==
  /\ payments[c] # "none" => BuyerOf[c] \in Buyers
  /\ payments[c] \in {"none", "held"} => purchased[c] = 0 /\ taken[c] = 0
  /\ payments[c] = "paid" => purchased[c] = Tokens[c] /\ taken[c] = 0

PaymentStatuses == {"none", "paid", "held", "refunded"}

LedgerTypes ==
  /\ payments \in [Charges -> PaymentStatuses]
  /\ purchased \in [Charges -> Nat] /\ taken \in [Charges -> Nat]
  /\ balance \in [Buyers -> Nat] /\ reserved \in [Buyers -> Nat] /\ starsSpent \in [Buyers -> Nat]

LedgerOK ==
  /\ LedgerTypes /\ ChargeCountsOnce /\ ReserveIsCovered
  /\ \A c \in Charges : PaymentOK(c)

\* What the desks and the pass remember: a refund is recorded of a charge that Telegram returned.
TickRow == [phase : {"idle", "read", "known", "credit", "record"}, page : Nat, size : Nat,
            todo : SUBSET Charges, out : SUBSET Charges]
DeskRow == [at : {"idle", "ask", "record"}, charge : Charges \cup {NoDesk.charge}]

DeskOK(p) ==
  /\ desk[p].at # "idle" => desk[p].charge \in Charges
  /\ desk[p].at = "record" => Returned(desk[p].charge)

TickOK ==
  /\ tick \in TickRow
  /\ \A c \in tick.out : Returned(c)

TransactionRows == Seq([kind : {"in", "out"}, charge : Charges])

MemoryOK ==
  /\ transactions \in TransactionRows
  /\ requests \subseteq Charges
  /\ desk \in [Staff -> DeskRow] /\ \A p \in Staff : DeskOK(p)
  /\ TickOK
  /\ RefundedWasReturned

StarInv == LedgerOK /\ MemoryOK

LEMMA StarInvSafe == StarInv => StarsSafe
BY DEF StarInv, LedgerOK, MemoryOK, LedgerTypes, StarsSafe, StarTypeOK, PaymentStatuses

LEMMA OwnedFinite ==
  ASSUME StarAssumption, NEW u
  PROVE  OwnedBy(u) \in SUBSET Charges /\ IsFiniteSet(OwnedBy(u))
<1>1. OwnedBy(u) \in SUBSET Charges
  BY DEF OwnedBy
<1> QED BY <1>1, FS_Subset DEF StarAssumption

LEMMA StarInitHolds == StarAssumption /\ StarInit => StarInv
<1> SUFFICES ASSUME StarAssumption, StarInit PROVE StarInv
  OBVIOUS
<1>1. LedgerTypes /\ ReserveIsCovered /\ \A c \in Charges : PaymentOK(c)
  BY DEF StarInit, LedgerTypes, ReserveIsCovered, PaymentOK, PaymentStatuses
<1>2. ChargeCountsOnce
  <2>1. \A c \in Charges : purchased[c] \in {0, Tokens[c]} /\ taken[c] <= purchased[c]
    BY DEF StarInit
  <2>2. ASSUME NEW u \in Buyers
        PROVE  balance[u] + starsSpent[u] + Total(taken, OwnedBy(u)) = Total(purchased, OwnedBy(u))
    <3>1. taken = purchased /\ balance[u] = 0 /\ starsSpent[u] = 0
      BY DEF StarInit
    <3>2. Total(taken, OwnedBy(u)) \in Nat
      BY <1>1, OwnedFinite, UnitsFinite DEF LedgerTypes
    <3> QED BY <3>1, <3>2
  <2> QED BY <2>1, <2>2 DEF ChargeCountsOnce
<1>3. MemoryOK
  BY DEF StarInit, MemoryOK, TransactionRows, DeskRow, DeskOK, TickOK, TickRow, NoTick, NoDesk,
     RefundedWasReturned
<1> QED BY <1>1, <1>2, <1>3 DEF StarInv, LedgerOK

-----------------------------------------------------------------------------
(* The two writers *)

LEMMA LedgerStays ==
  ASSUME LedgerOK, UNCHANGED <<payments, tokens>>
  PROVE  LedgerOK' /\ \A d \in Charges : payments'[d] = "refunded" => payments[d] = "refunded"
BY DEF LedgerOK, LedgerTypes, ChargeCountsOnce, ReserveIsCovered, PaymentOK, tokens

\* The insert's conflict is what keeps a second report, or the pass, from a second credit.
LEMMA CreditKeeps ==
  ASSUME StarAssumption, LedgerOK, NEW c \in Charges, CreditStarPayment(c)
  PROVE  LedgerOK' /\ \A d \in Charges : payments'[d] = "refunded" => payments[d] = "refunded"
<1> DEFINE u == BuyerOf[c]
<1>1. CASE u = NoBuyer \/ Recorded(c)
  BY <1>1, LedgerStays DEF CreditStarPayment
<1>2. CASE ~(u = NoBuyer \/ Recorded(c))
  <2>1. PICK verdict \in Verdicts[c] :
          /\ payments' = [payments EXCEPT ![c] = verdict]
          /\ IF verdict = "paid"
             THEN /\ purchased' = [purchased EXCEPT ![c] = @ + Tokens[c]]
                  /\ balance' = [balance EXCEPT ![u] = @ + Tokens[c]]
                  /\ UNCHANGED <<taken, reserved, starsSpent>>
             ELSE UNCHANGED tokens
    BY <1>2 DEF CreditStarPayment
  <2>2. /\ verdict \in {"paid", "held"} /\ Tokens[c] \in Nat \ {0}
        /\ u \in Buyers /\ payments[c] = "none"
    BY <1>2 DEF StarAssumption, Recorded
  <2>3. /\ payments' \in [Charges -> PaymentStatuses] /\ payments'[c] = verdict
        /\ \A d \in Charges \ {c} : payments'[d] = payments[d]
    BY <2>1, <2>2 DEF LedgerOK, LedgerTypes, PaymentStatuses
  <2>4. CASE verdict = "held"
    <3>1. UNCHANGED <<purchased, taken, balance, reserved, starsSpent>>
      BY <2>1, <2>4 DEF tokens
    <3> QED BY <2>2, <2>3, <2>4, <3>1
          DEF LedgerOK, LedgerTypes, ChargeCountsOnce, ReserveIsCovered, PaymentOK
  <2>5. CASE verdict = "paid"
    <3>1. /\ purchased' = [purchased EXCEPT ![c] = @ + Tokens[c]]
          /\ balance' = [balance EXCEPT ![u] = @ + Tokens[c]]
          /\ UNCHANGED <<taken, reserved, starsSpent>>
      BY <2>1, <2>5
    <3>2. /\ purchased' \in [Charges -> Nat] /\ purchased'[c] = Tokens[c]
          /\ purchased[c] = 0 /\ taken[c] = 0
          /\ \A d \in Charges \ {c} : purchased'[d] = purchased[d]
      BY <3>1, <2>2 DEF LedgerOK, LedgerTypes, PaymentOK
    <3>3. /\ balance' \in [Buyers -> Nat] /\ balance'[u] = balance[u] + Tokens[c]
          /\ balance[u] \in Nat
          /\ \A v \in Buyers \ {u} : balance'[v] = balance[v]
      BY <3>1, <2>2 DEF LedgerOK, LedgerTypes
    <3>4. LedgerTypes'
      BY <2>3, <3>1, <3>2, <3>3 DEF LedgerOK, LedgerTypes
    <3>5. \A d \in Charges : PaymentOK(d)'
      BY <2>2, <2>3, <2>5, <3>1, <3>2 DEF LedgerOK, PaymentOK
    <3>6. ReserveIsCovered'
      <4>1. \A v \in Buyers : reserved[v] <= balance[v] /\ reserved[v] \in Nat
        BY DEF LedgerOK, LedgerTypes, ReserveIsCovered
      <4> QED BY <4>1, <3>1, <3>3, <2>2 DEF ReserveIsCovered
    <3>7. \A d \in Charges : purchased'[d] \in {0, Tokens[d]} /\ taken'[d] <= purchased'[d]
      BY <3>1, <3>2, <2>2 DEF LedgerOK, ChargeCountsOnce
    <3>8. ASSUME NEW v \in Buyers
          PROVE  balance'[v] + starsSpent'[v] + Total(taken', OwnedBy(v)) =
                   Total(purchased', OwnedBy(v))
      <4>1. balance[v] + starsSpent[v] + Total(taken, OwnedBy(v)) = Total(purchased, OwnedBy(v))
        BY DEF LedgerOK, ChargeCountsOnce
      <4>2. OwnedBy(v) \in SUBSET Charges /\ IsFiniteSet(OwnedBy(v))
        BY OwnedFinite
      <4>3. /\ balance[v] \in Nat /\ starsSpent[v] \in Nat
            /\ Total(taken, OwnedBy(v)) \in Nat /\ Total(purchased, OwnedBy(v)) \in Nat
        BY <4>2, UnitsFinite DEF LedgerOK, LedgerTypes
      <4>4. CASE v = u
        <5>1. c \in OwnedBy(v)
          BY <4>4 DEF OwnedBy
        <5>2. purchased \in [Charges -> Nat] /\ purchased'[c] = purchased[c] + Tokens[c]
          BY <3>2, <2>2 DEF LedgerOK, LedgerTypes
        <5>3. Total(purchased', OwnedBy(v)) = Total(purchased, OwnedBy(v)) + Tokens[c]
          BY <5>1, <5>2, <4>2, <3>2, <2>2, TotalGrows
        <5> QED BY <5>3, <4>1, <4>3, <4>4, <3>1, <3>3, <2>2
      <4>5. CASE v # u
        <5>1. \A d \in OwnedBy(v) : purchased'[d] = purchased[d]
          BY <4>5, <3>2 DEF OwnedBy
        <5>2. Total(purchased', OwnedBy(v)) = Total(purchased, OwnedBy(v))
          BY <5>1, TotalStays
        <5> QED BY <5>2, <4>1, <4>5, <3>1, <3>3
      <4> QED BY <4>4, <4>5
    <3>9. ChargeCountsOnce'
      BY <3>7, <3>8 DEF ChargeCountsOnce, OwnedBy
    <3> QED BY <2>2, <2>3, <3>4, <3>5, <3>6, <3>9 DEF LedgerOK
  <2> QED BY <2>2, <2>4, <2>5
<1> QED BY <1>1, <1>2

\* A refund takes what was credited, as far as no trade holds it.
LEMMA RefundKeeps ==
  ASSUME StarAssumption, LedgerOK, NEW c \in Charges, RecordStarRefund(c)
  PROVE  /\ LedgerOK'
         /\ \A d \in Charges : payments'[d] = "refunded" => payments[d] = "refunded" \/ d = c
<1> DEFINE u == BuyerOf[c]
           t == IF Credited(c) < Available(u) THEN Credited(c) ELSE Available(u)
<1>1. CASE payments[c] \notin {"paid", "held"}
  BY <1>1, LedgerStays DEF RecordStarRefund
<1>2. CASE payments[c] \in {"paid", "held"}
  <2>1. /\ payments' = [payments EXCEPT ![c] = "refunded"]
        /\ taken' = [taken EXCEPT ![c] = @ + t]
        /\ balance' = [balance EXCEPT ![u] = @ - t]
        /\ UNCHANGED <<purchased, reserved, starsSpent>>
    BY <1>2 DEF RecordStarRefund
  <2>2. /\ u \in Buyers /\ Tokens[c] \in Nat \ {0} /\ purchased[c] = Credited(c) /\ taken[c] = 0
        /\ Credited(c) \in Nat
    BY <1>2 DEF LedgerOK, PaymentOK, StarAssumption, Credited
  <2>3. balance[u] \in Nat /\ reserved[u] \in Nat /\ reserved[u] <= balance[u]
    BY <2>2 DEF LedgerOK, LedgerTypes, ReserveIsCovered
  <2>4. t \in Nat /\ t <= purchased[c] /\ t <= balance[u] - reserved[u]
    BY <2>2, <2>3 DEF Available
  <2> HIDE DEF t
  <2>5. /\ payments' \in [Charges -> PaymentStatuses] /\ payments'[c] = "refunded"
        /\ \A d \in Charges \ {c} : payments'[d] = payments[d]
    BY <2>1 DEF LedgerOK, LedgerTypes, PaymentStatuses
  <2>6. /\ taken' \in [Charges -> Nat] /\ taken'[c] = taken[c] + t /\ taken'[c] = t
        /\ \A d \in Charges \ {c} : taken'[d] = taken[d]
    BY <2>1, <2>2, <2>4 DEF LedgerOK, LedgerTypes
  <2>7. /\ balance' \in [Buyers -> Nat] /\ balance'[u] = balance[u] - t
        /\ \A v \in Buyers \ {u} : balance'[v] = balance[v]
    <3>1. balance[u] - t \in Nat
      BY <2>3, <2>4
    <3> QED BY <3>1, <2>1, <2>2 DEF LedgerOK, LedgerTypes
  <2>8. LedgerTypes'
    BY <2>1, <2>5, <2>6, <2>7 DEF LedgerOK, LedgerTypes
  <2>9. \A d \in Charges : PaymentOK(d)'
    BY <2>1, <2>2, <2>5, <2>6 DEF LedgerOK, PaymentOK
  <2>10. ReserveIsCovered'
    <3>1. \A v \in Buyers : reserved[v] <= balance[v] /\ reserved[v] \in Nat
      BY DEF LedgerOK, LedgerTypes, ReserveIsCovered
    <3> QED BY <3>1, <2>1, <2>3, <2>4, <2>7 DEF ReserveIsCovered
  <2>11. \A d \in Charges : purchased'[d] \in {0, Tokens[d]} /\ taken'[d] <= purchased'[d]
    BY <2>1, <2>4, <2>6 DEF LedgerOK, ChargeCountsOnce
  <2>12. ASSUME NEW v \in Buyers
         PROVE  balance'[v] + starsSpent'[v] + Total(taken', OwnedBy(v)) =
                  Total(purchased', OwnedBy(v))
    <3>1. balance[v] + starsSpent[v] + Total(taken, OwnedBy(v)) = Total(purchased, OwnedBy(v))
      BY DEF LedgerOK, ChargeCountsOnce
    <3>2. OwnedBy(v) \in SUBSET Charges /\ IsFiniteSet(OwnedBy(v))
      BY OwnedFinite
    <3>3. /\ balance[v] \in Nat /\ starsSpent[v] \in Nat
          /\ Total(taken, OwnedBy(v)) \in Nat /\ Total(purchased, OwnedBy(v)) \in Nat
      BY <3>2, UnitsFinite DEF LedgerOK, LedgerTypes
    <3>4. CASE v = u
      <4>1. c \in OwnedBy(v)
        BY <3>4 DEF OwnedBy
      <4>2. taken \in [Charges -> Nat]
        BY DEF LedgerOK, LedgerTypes
      <4>3. Total(taken', OwnedBy(v)) = Total(taken, OwnedBy(v)) + t
        BY <4>1, <4>2, <3>2, <2>4, <2>6, TotalGrows
      <4> QED BY <4>3, <3>1, <3>3, <3>4, <2>1, <2>4, <2>7
    <3>5. CASE v # u
      <4>1. \A d \in OwnedBy(v) : taken'[d] = taken[d]
        BY <3>5, <2>6 DEF OwnedBy
      <4>2. Total(taken', OwnedBy(v)) = Total(taken, OwnedBy(v))
        BY <4>1, TotalStays
      <4> QED BY <4>2, <3>1, <3>5, <2>1, <2>7
    <3> QED BY <3>4, <3>5
  <2>13. ChargeCountsOnce'
    BY <2>11, <2>12 DEF ChargeCountsOnce, OwnedBy
  <2> QED BY <2>5, <2>8, <2>9, <2>10, <2>13 DEF LedgerOK
<1> QED BY <1>1, <1>2

\* A trade moves tokens between balance, reserve and what was spent.
LEMMA TradeKeeps ==
  ASSUME LedgerOK, NEW u \in Buyers, Trade(u)
  PROVE  LedgerOK' /\ \A d \in Charges : payments'[d] = "refunded" => payments[d] = "refunded"
<1>1. UNCHANGED <<payments, purchased, taken>>
  BY DEF Trade
<1>2. \A v \in Buyers : /\ balance[v] \in Nat /\ reserved[v] \in Nat /\ starsSpent[v] \in Nat
                        /\ reserved[v] <= balance[v]
  BY DEF LedgerOK, LedgerTypes, ReserveIsCovered
<1>3. /\ balance' \in [Buyers -> Nat] /\ reserved' \in [Buyers -> Nat]
      /\ starsSpent' \in [Buyers -> Nat]
      /\ \A v \in Buyers : /\ balance'[v] + starsSpent'[v] = balance[v] + starsSpent[v]
                           /\ reserved'[v] <= balance'[v]
  <2>1. CASE reserved[u] < balance[u] /\ reserved' = [reserved EXCEPT ![u] = @ + 1]
             /\ UNCHANGED <<balance, starsSpent>>
    BY <2>1, <1>2 DEF LedgerOK, LedgerTypes
  <2>2. CASE reserved[u] > 0 /\ reserved' = [reserved EXCEPT ![u] = @ - 1]
             /\ UNCHANGED <<balance, starsSpent>>
    BY <2>2, <1>2 DEF LedgerOK, LedgerTypes
  <2>3. CASE reserved[u] > 0 /\ reserved' = [reserved EXCEPT ![u] = @ - 1]
             /\ balance' = [balance EXCEPT ![u] = @ - 1]
             /\ starsSpent' = [starsSpent EXCEPT ![u] = @ + 1]
    BY <2>3, <1>2 DEF LedgerOK, LedgerTypes
  <2> QED BY <2>1, <2>2, <2>3 DEF Trade
<1>4. LedgerTypes' /\ ReserveIsCovered' /\ \A c \in Charges : PaymentOK(c)'
  BY <1>1, <1>3 DEF LedgerOK, LedgerTypes, ReserveIsCovered, PaymentOK
<1>5. ChargeCountsOnce'
  <2>1. ASSUME NEW v \in Buyers
        PROVE  balance'[v] + starsSpent'[v] + Total(taken', OwnedBy(v)) =
                 Total(purchased', OwnedBy(v))
    <3>1. balance[v] + starsSpent[v] + Total(taken, OwnedBy(v)) = Total(purchased, OwnedBy(v))
      BY DEF LedgerOK, ChargeCountsOnce
    <3>2. balance'[v] + starsSpent'[v] = balance[v] + starsSpent[v]
      BY <1>3
    <3> QED BY <3>1, <3>2, <1>1
  <2> QED BY <2>1, <1>1 DEF LedgerOK, ChargeCountsOnce, OwnedBy
<1> QED BY <1>1, <1>4, <1>5 DEF LedgerOK

-----------------------------------------------------------------------------
(* What is remembered *)

\* Telegram's list only grows.
LEMMA ListGrows ==
  ASSUME transactions \in TransactionRows, NEW kind \in {"in", "out"}, NEW c \in Charges,
         transactions' = Append(transactions, [kind |-> kind, charge |-> c])
  PROVE  /\ transactions' \in TransactionRows
         /\ \A d : Returned(d) => Returned(d)'
         /\ kind = "out" => Returned(c)'
<1> DEFINE e == [kind |-> kind, charge |-> c]
<1>1. /\ e \in [kind : {"in", "out"}, charge : Charges]
      /\ kind = "out" => e = [kind |-> "out", charge |-> c]
  OBVIOUS
<1>2. /\ transactions \in Seq([kind : {"in", "out"}, charge : Charges])
      /\ transactions' = Append(transactions, e)
  BY DEF TransactionRows
<1> HIDE DEF e
<1>3. /\ transactions' \in Seq([kind : {"in", "out"}, charge : Charges])
      /\ DOMAIN transactions = 1..Len(transactions) /\ Len(transactions) \in Nat
      /\ DOMAIN transactions' = 1..(Len(transactions) + 1)
      /\ \A i \in 1..Len(transactions) : transactions'[i] = transactions[i]
      /\ transactions'[Len(transactions) + 1] = e
  BY <1>1, <1>2
<1>4. \A i \in 1..Len(transactions) : i \in 1..(Len(transactions) + 1)
  BY <1>3
<1>5. Len(transactions) + 1 \in 1..(Len(transactions) + 1)
  BY <1>3
<1> QED BY <1>1, <1>3, <1>4, <1>5 DEF Returned, TransactionRows

\* A step keeps the memory if Telegram's list stays or grows, and new memories are sound.
LEMMA MemoryKept ==
  ASSUME MemoryOK, transactions' \in TransactionRows, \A d : Returned(d) => Returned(d)',
         requests' \subseteq Charges,
         desk' \in [Staff -> DeskRow], \A p \in Staff : desk'[p] = desk[p] \/ DeskOK(p)',
         tick' = tick \/ TickOK',
         \A d \in Charges : payments'[d] = "refunded" => payments[d] = "refunded" \/ Returned(d)'
  PROVE  MemoryOK'
<1>1. \A p \in Staff : DeskOK(p)'
  BY DEF MemoryOK, DeskOK
<1>2. TickOK'
  BY DEF MemoryOK, TickOK
<1> QED BY <1>1, <1>2 DEF MemoryOK, RefundedWasReturned

LEMMA PagesAreReturned ==
  ASSUME StarAssumption, transactions \in TransactionRows, NEW n
  PROVE  /\ ChargesOf("in", PageOf(n)) \subseteq Charges
         /\ ChargesOf("out", PageOf(n)) \subseteq {c \in Charges : Returned(c)}
         /\ Cardinality(PageOf(n)) \in Nat
<1>1. /\ \A i \in DOMAIN transactions : transactions[i] \in [kind : {"in", "out"}, charge : Charges]
      /\ DOMAIN transactions = 1..Len(transactions) /\ Len(transactions) \in Int
  <2> DEFINE R == [kind : {"in", "out"}, charge : Charges]
  <2>1. transactions \in Seq(R)
    BY DEF TransactionRows
  <2> HIDE DEF R
  <2>2. /\ \A i \in DOMAIN transactions : transactions[i] \in R
        /\ DOMAIN transactions = 1..Len(transactions) /\ Len(transactions) \in Nat
    BY <2>1
  <2> QED BY <2>2 DEF R
<1>2. PageOf(n) \in SUBSET (DOMAIN transactions)
  BY DEF PageOf
<1>3. IsFiniteSet(1..Len(transactions))
  BY <1>1, FS_Interval
<1>4. Cardinality(PageOf(n)) \in Nat
  BY <1>1, <1>2, <1>3, FS_Subset, FS_CardinalityType
<1>5. \A i \in DOMAIN transactions :
        transactions[i].kind = "out" => Returned(transactions[i].charge)
  <2> TAKE i \in DOMAIN transactions
  <2> HAVE transactions[i].kind = "out"
  <2>1. transactions[i] = [kind |-> "out", charge |-> transactions[i].charge]
    BY <1>1
  <2> QED BY <2>1 DEF Returned
<1> QED BY <1>1, <1>2, <1>4, <1>5 DEF ChargesOf

-----------------------------------------------------------------------------
(* The steps *)

LEMMA BotKeeps ==
  ASSUME StarAssumption, StarInv, NEW c \in Charges,
         Pay(c) \/ Report(c) \/ LoseReport(c) \/ Paid(c) \/ RequestRefund(c) \/ ReturnElsewhere(c)
  PROVE  StarInv'
<1>1. /\ transactions \in TransactionRows /\ requests \subseteq Charges
      /\ desk \in [Staff -> DeskRow]
  BY DEF StarInv, MemoryOK
<1>2. CASE Pay(c) \/ ReturnElsewhere(c)
  <2>1. PICK kind \in {"in", "out"} :
          transactions' = Append(transactions, [kind |-> kind, charge |-> c])
    BY <1>2 DEF Pay, ReturnElsewhere, Return
  <2>2. UNCHANGED <<payments, tokens, requests, tick, desk>>
    BY <1>2 DEF Pay, ReturnElsewhere
  <2>3. LedgerOK'
    BY <2>2, LedgerStays DEF StarInv
  <2>4. MemoryOK'
    BY <1>1, <2>1, <2>2, ListGrows, MemoryKept DEF StarInv
  <2> QED BY <2>3, <2>4 DEF StarInv
<1>3. CASE Report(c) \/ LoseReport(c) \/ RequestRefund(c)
  <2>1. UNCHANGED <<transactions, payments, tokens, tick, desk>> /\ requests' \subseteq Charges
    BY <1>1, <1>3 DEF Report, LoseReport, RequestRefund
  <2>2. LedgerOK'
    BY <2>1, LedgerStays DEF StarInv
  <2>3. MemoryOK'
    BY <1>1, <2>1, MemoryKept DEF StarInv, Returned
  <2> QED BY <2>2, <2>3 DEF StarInv
<1>4. CASE Paid(c)
  <2>1. CreditStarPayment(c) /\ UNCHANGED <<transactions, requests, tick, desk>>
    BY <1>4 DEF Paid
  <2>2. LedgerOK' /\ \A d \in Charges : payments'[d] = "refunded" => payments[d] = "refunded"
    BY <2>1, CreditKeeps DEF StarInv
  <2>3. MemoryOK'
    BY <1>1, <2>1, <2>2, MemoryKept DEF StarInv, Returned
  <2> QED BY <2>2, <2>3 DEF StarInv
<1> QED BY <1>2, <1>3, <1>4

LEMMA BuyerKeeps ==
  ASSUME StarInv, NEW u \in Buyers, Trade(u)
  PROVE  StarInv'
<1>1. UNCHANGED <<transactions, requests, tick, desk>>
  BY DEF Trade
<1>2. LedgerOK' /\ \A d \in Charges : payments'[d] = "refunded" => payments[d] = "refunded"
  BY TradeKeeps DEF StarInv
<1>3. MemoryOK'
  BY <1>1, <1>2, MemoryKept DEF StarInv, MemoryOK, Returned
<1> QED BY <1>2, <1>3 DEF StarInv

\* One desk moves.
LEMMA DeskMoves ==
  ASSUME StarInv, NEW p \in Staff, NEW new \in DeskRow, desk' = [desk EXCEPT ![p] = new]
  PROVE  /\ desk' \in [Staff -> DeskRow] /\ desk'[p] = new
         /\ \A q \in Staff \ {p} : desk'[q] = desk[q]
BY DEF StarInv, MemoryOK

LEMMA NoDeskRow == NoDesk \in DeskRow /\ NoDesk.at = "idle"
BY DEF NoDesk, DeskRow

LEMMA ReadPaymentKeeps ==
  ASSUME StarInv, NEW p \in Staff, NEW c \in Charges, ReadPayment(p, c)
  PROVE  StarInv'
<1> DEFINE new == [at |-> "ask", charge |-> c]
<1>1. new \in DeskRow /\ new.at = "ask" /\ new.charge = c
  BY DEF DeskRow
<1>2. desk' = [desk EXCEPT ![p] = new]
  BY DEF ReadPayment
<1> HIDE DEF new
<1>3. /\ desk' \in [Staff -> DeskRow] /\ desk'[p] = new
      /\ \A q \in Staff \ {p} : desk'[q] = desk[q]
  BY <1>1, <1>2, DeskMoves
<1>4. UNCHANGED <<transactions, payments, tokens, requests, tick>>
  BY DEF ReadPayment
<1>5. LedgerOK'
  BY <1>4, LedgerStays DEF StarInv
<1>6. DeskOK(p)'
  BY <1>1, <1>3 DEF DeskOK
<1>7. MemoryOK'
  BY <1>3, <1>4, <1>6, MemoryKept DEF StarInv, MemoryOK, Returned
<1> QED BY <1>5, <1>7 DEF StarInv

\* Only an answer that says the Stars went back leads to the record.
LEMMA AskRefundKeeps ==
  ASSUME StarInv, NEW p \in Staff, AskRefund(p)
  PROVE  StarInv'
<1> DEFINE asked == [desk[p] EXCEPT !.at = "record"]
<1>0. desk[p] \in DeskRow /\ desk[p].charge \in Charges /\ transactions \in TransactionRows
  BY DEF StarInv, MemoryOK, DeskOK, AskRefund
<1> PICK c \in Charges : c = desk[p].charge
  BY <1>0
<1>1. desk[p] \in DeskRow /\ c \in Charges /\ transactions \in TransactionRows
  BY <1>0
<1>2. asked \in DeskRow /\ asked.at = "record" /\ asked.charge = c
  BY <1>1 DEF DeskRow
<1>3. UNCHANGED <<payments, tokens, requests, tick>>
  BY DEF AskRefund
<1>4. LedgerOK'
  BY <1>3, LedgerStays DEF StarInv
<1>5. PICK new \in DeskRow :
        /\ desk' = [desk EXCEPT ![p] = new]
        /\ new.at = "idle" \/ (new = asked /\ (Return(c) \/ Returned(c)))
        /\ Return(c) \/ UNCHANGED transactions
  BY <1>2, NoDeskRow DEF AskRefund, SaysNothing
<1> HIDE DEF asked
<1>6. /\ desk' \in [Staff -> DeskRow] /\ desk'[p] = new
      /\ \A q \in Staff \ {p} : desk'[q] = desk[q]
  BY <1>5, DeskMoves
<1>7. /\ transactions' \in TransactionRows
      /\ \A d : Returned(d) => Returned(d)'
      /\ Return(c) => Returned(c)'
  <2>1. CASE Return(c)
    <3>1. transactions' = Append(transactions, [kind |-> "out", charge |-> c])
      BY <2>1 DEF Return
    <3>2. "out" \in {"in", "out"}
      OBVIOUS
    <3> QED BY <3>1, <3>2, <1>1, ListGrows
  <2>2. CASE ~Return(c)
    BY <2>2, <1>1, <1>5 DEF Returned
  <2> QED BY <2>1, <2>2
<1>8. DeskOK(p)'
  BY <1>1, <1>2, <1>5, <1>6, <1>7 DEF DeskOK
<1>9. MemoryOK'
  BY <1>3, <1>6, <1>7, <1>8, MemoryKept DEF StarInv, MemoryOK
<1> QED BY <1>4, <1>9 DEF StarInv

LEMMA StaffKeeps ==
  ASSUME StarAssumption, StarInv, NEW p \in Staff, RecordByStaff(p) \/ StaffFails(p)
  PROVE  StarInv'
<1> DEFINE c == desk[p].charge
<1>1. c \in Charges /\ Returned(c) /\ desk[p].at = "record"
  BY DEF StarInv, MemoryOK, DeskOK, RecordByStaff, StaffFails
<1>2. desk' = [desk EXCEPT ![p] = NoDesk] /\ UNCHANGED <<transactions, requests, tick>>
  BY DEF RecordByStaff, StaffFails
<1>3. /\ desk' \in [Staff -> DeskRow] /\ desk'[p] = NoDesk
      /\ \A q \in Staff \ {p} : desk'[q] = desk[q]
  BY <1>2, NoDeskRow, DeskMoves
<1>4. DeskOK(p)'
  BY <1>3, NoDeskRow DEF DeskOK
<1>5. /\ LedgerOK'
      /\ \A d \in Charges : payments'[d] = "refunded" => payments[d] = "refunded" \/ d = c
  <2>1. CASE RecordByStaff(p)
    BY <2>1, <1>1, RefundKeeps DEF RecordByStaff, StarInv
  <2>2. CASE StaffFails(p)
    BY <2>2, LedgerStays DEF StaffFails, StarInv
  <2> QED BY <2>1, <2>2
<1>6. MemoryOK'
  BY <1>1, <1>2, <1>3, <1>4, <1>5, MemoryKept DEF StarInv, MemoryOK, Returned
<1> QED BY <1>5, <1>6 DEF StarInv

\* A step of the pass that writes no row.
LEMMA PassKeeps ==
  ASSUME StarInv, UNCHANGED <<transactions, payments, tokens, requests, desk>>, TickOK'
  PROVE  StarInv'
<1>1. LedgerOK'
  BY LedgerStays DEF StarInv
<1>2. MemoryOK'
  BY MemoryKept DEF StarInv, MemoryOK, Returned
<1> QED BY <1>1, <1>2 DEF StarInv

LEMMA ReconcilerKeeps ==
  ASSUME StarAssumption, StarInv, Reconciler
  PROVE  StarInv'
<1>1. /\ tick \in TickRow /\ \A c \in tick.out : Returned(c)
      /\ transactions \in TransactionRows
  BY DEF StarInv, MemoryOK, TickOK
<1>2. NoTick \in TickRow /\ NoTick.out = {}
  BY DEF NoTick, TickRow
<1>3. ASSUME StartPass \/ NextPage \/ TickFails PROVE StarInv'
  <2>1. tick' \in TickRow /\ tick'.out = {}
    <3>1. tick.page + 1 \in Nat
      BY <1>1 DEF TickRow
    <3>2. CASE StartPass
      BY <3>2 DEF StartPass, TickRow, NoTick
    <3>3. CASE NextPage
      BY <3>1, <3>3, <1>2 DEF NextPage, TickRow, NoTick
    <3>4. CASE TickFails
      BY <3>4, <1>2 DEF TickFails
    <3> QED BY <1>3, <3>2, <3>3, <3>4
  <2>2. UNCHANGED <<transactions, payments, tokens, requests, desk>>
    BY <1>3 DEF StartPass, NextPage, TickFails
  <2> QED BY <2>1, <2>2, PassKeeps DEF TickOK
<1>4. ASSUME ReadPage PROVE StarInv'
  <2> DEFINE page == PageOf(tick.page)
  <2>1. /\ ChargesOf("in", page) \subseteq Charges
        /\ ChargesOf("out", page) \subseteq {c \in Charges : Returned(c)}
        /\ Cardinality(page) \in Nat
    BY <1>1, PagesAreReturned
  <2>2. /\ tick' = [tick EXCEPT !.phase = "known", !.size = Cardinality(page),
                                !.todo = ChargesOf("in", page), !.out = ChargesOf("out", page)]
        /\ UNCHANGED <<transactions, payments, tokens, requests, desk>>
    BY <1>4 DEF ReadPage
  <2> HIDE DEF page
  <2>3. tick' \in TickRow /\ tick'.out = ChargesOf("out", page)
    BY <1>1, <2>1, <2>2 DEF TickRow
  <2>4. \A c \in tick'.out : Returned(c)'
    BY <2>1, <2>2, <2>3 DEF Returned
  <2> QED BY <2>2, <2>3, <2>4, PassKeeps DEF TickOK
<1>5. ASSUME ReadKnown \/ ReadRefunds PROVE StarInv'
  <2>1. tick' \in TickRow /\ tick'.out \subseteq tick.out
    <3>1. RefundsOf(tick.out) \in SUBSET tick.out
      BY DEF RefundsOf
    <3>2. CASE ReadKnown
      BY <1>1, <3>2 DEF ReadKnown, TickRow
    <3>3. CASE ReadRefunds
      BY <1>1, <3>1, <3>3 DEF ReadRefunds, TickRow
    <3> QED
      BY <1>5, <3>2, <3>3
  <2>2. UNCHANGED <<transactions, payments, tokens, requests, desk>>
    BY <1>5 DEF ReadKnown, ReadRefunds
  <2>3. \A c \in tick'.out : Returned(c)'
    BY <1>1, <2>1, <2>2 DEF Returned
  <2> QED BY <2>1, <2>2, <2>3, PassKeeps DEF TickOK
<1>6. ASSUME NEW c \in Charges, Settle(c) \/ RecordRefund(c) PROVE StarInv'
  <2>1. tick' \in TickRow /\ tick'.out \subseteq tick.out
    BY <1>1, <1>6 DEF Settle, RecordRefund, TickRow
  <2>2. UNCHANGED <<transactions, requests, desk>>
    BY <1>6 DEF Settle, RecordRefund
  <2>3. TickOK'
    BY <1>1, <2>1, <2>2 DEF TickOK, Returned
  <2>4. /\ LedgerOK'
        /\ \A d \in Charges : payments'[d] = "refunded" => payments[d] = "refunded" \/ Returned(d)
    <3>1. CASE Settle(c)
      BY <3>1, CreditKeeps DEF Settle, StarInv
    <3>2. CASE RecordRefund(c)
      BY <3>2, <1>1, RefundKeeps DEF RecordRefund, StarInv
    <3> QED BY <1>6, <3>1, <3>2
  <2>5. MemoryOK'
    BY <2>2, <2>3, <2>4, MemoryKept DEF StarInv, MemoryOK, Returned
  <2> QED BY <2>4, <2>5 DEF StarInv
<1> QED BY <1>3, <1>4, <1>5, <1>6 DEF Reconciler

\* For any charges, buyers, desks and pages, however reports repeat, answers get lost and passes
\* fail: a charge counts once, a refund leaves held tokens and is recorded of returned Stars only.
THEOREM StarsStaySafe == StarAssumption /\ StarSpec => []StarsSafe
<1> SUFFICES ASSUME StarAssumption PROVE StarSpec => []StarsSafe
  OBVIOUS
<1>1. StarInit => StarInv
  BY StarInitHolds
<1>2. StarInv /\ [StarNext]_starVars => StarInv'
  <2> SUFFICES ASSUME StarInv, [StarNext]_starVars PROVE StarInv'
    OBVIOUS
  <2>1. CASE UNCHANGED starVars
    <3>1. UNCHANGED <<transactions, payments, tokens, requests, desk, tick>>
      BY <2>1 DEF starVars
    <3>2. TickOK'
      BY <3>1 DEF TickOK, Returned, StarInv, MemoryOK
    <3> QED BY <3>1, <3>2, PassKeeps
  <2> QED BY <2>1, BotKeeps, BuyerKeeps, ReadPaymentKeeps, AskRefundKeeps, StaffKeeps,
             ReconcilerKeeps DEF StarNext
<1>3. StarInv => StarsSafe
  BY StarInvSafe
<1> QED BY <1>1, <1>2, <1>3, PTL DEF StarSpec

=============================================================================
