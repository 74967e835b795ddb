------------------------------- MODULE RowsMC -------------------------------
(***************************************************************************)
(* Small instances of three parts of the database that transactions of     *)
(* several connections write, each with its own state: the row locks of    *)
(* the trading tables, the logins of the staff, the jobs of the mailing.   *)
(* A behaviour is of one of them.  The mailing is run twice: one process   *)
(* with every kind and MaxMailFaults faults, and two beside each other     *)
(* with the ordinary kinds and one fault.                                  *)
(***************************************************************************)
EXTENDS LockOrder, StaffLogin, MailingEngine, TLC

VARIABLE part             \* the component the behaviour is of

\* User 1 was invited by user 0 and owns the account.
MCOwnerOf == 11 :> 1
MCInviter == 1 :> 0

MCKinds == <<"first", "real", "half">>

-----------------------------------------------------------------------------
Parts == {"locks", "staffLogin", "mailing", "deploy"}

\* the second process stays idle
OneProcess == \A p \in Mailers \ {"q1"} : UNCHANGED proc[p]

\* bound of two processes: one fault, and no important fact
TwoProcesses == mailFaults' <= 1 /\ \A k \in Important : UNCHANGED fact[k]

PartsInit ==
  /\ part \in Parts
  /\ Init /\ StaffInit /\ MailingInit

\* One component moves and the others stay in their initial states.
PartsNext ==
  /\ UNCHANGED part
  /\ \/ part = "locks" /\ Next /\ UNCHANGED <<staffVars, mailingVars>>
     \/ part = "staffLogin" /\ StaffNext /\ UNCHANGED <<vars, mailingVars>>
     \/ part = "mailing" /\ MailingNext /\ OneProcess /\ UNCHANGED <<vars, staffVars>>
     \/ part = "deploy" /\ MailingNext /\ TwoProcesses /\ UNCHANGED <<vars, staffVars>>

PartsSpec == PartsInit /\ [][PartsNext]_<<part, vars, staffVars, mailingVars>>

=============================================================================
