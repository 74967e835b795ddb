------------------------------ MODULE BrokerMC ------------------------------
(***************************************************************************)
(* Small instances of four parts of the connection to the broker, each     *)
(* with its own state: the lease of an account's session, the manager of   *)
(* the sessions of a process, the socket client under a session, the two   *)
(* slots of the market data.  A behaviour is of one of them.               *)
(***************************************************************************)
EXTENDS SessionLease, SessionManager, BrokerSocket, DataSocket

VARIABLES
  part              \* the component the behaviour is of

-----------------------------------------------------------------------------
Parts == {"lease", "manager", "socket", "feed"}

PartsInit ==
  /\ part \in Parts
  /\ Init /\ ManagerInit /\ SocketInit /\ FeedInit

\* One component moves and the others stay in their initial states.
PartsNext ==
  /\ UNCHANGED part
  /\ \/ part = "lease" /\ Next /\ UNCHANGED <<managerVars, socketVars, feedVars>>
     \/ part = "manager" /\ ManagerNext /\ UNCHANGED <<vars, socketVars, feedVars>>
     \/ part = "socket" /\ SocketNext /\ UNCHANGED <<vars, managerVars, feedVars>>
     \/ part = "feed" /\ FeedNext /\ UNCHANGED <<vars, managerVars, socketVars>>

PartsSpec == PartsInit /\ [][PartsNext]_<<part, vars, managerVars, socketVars, feedVars>>

=============================================================================
