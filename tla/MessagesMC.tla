----------------------------- MODULE MessagesMC -----------------------------
(***************************************************************************)
(* Small instances of two parts that write to a user's chat, each with its *)
(* own state: the backend's notices of a session and the bot's wait for a  *)
(* signal.  A behaviour is of one of them.                                 *)
(***************************************************************************)
EXTENDS SessionNotices

VARIABLES
  part,             \* the component the behaviour is of
  entry, wait, job, queue, pace, tick, freeze, stop, msg, waitRecorded

OneUser == [w \in {1} |-> 1]

Wait == INSTANCE SignalWait WITH
  Users <- {1}, Waits <- {1}, UserOf <- OneUser, NoWait <- 0,
  Kinds <- {"list", "door", "analysis"}, DrawnAs <- {"text", "animation"}, MayStop <- TRUE,
  ReadSlots <- 1, FailuresMax <- 1, MaxPauses <- 1, MaxCaptions <- 0,
  recorded <- waitRecorded

-----------------------------------------------------------------------------
Parts == {"notices", "wait"}

waitVars ==
  <<entry, wait, job, queue, pace, tick, freeze, stop, msg, waitRecorded>>

PartsInit ==
  /\ part \in Parts
  /\ NoticesInit /\ Wait!Init

\* One component moves and the others stay in their initial states.
PartsNext ==
  /\ UNCHANGED part
  /\ \/ part = "notices" /\ NoticesNext /\ UNCHANGED waitVars
     \/ part = "wait" /\ Wait!Next /\ UNCHANGED noticesVars

PartsSpec == PartsInit /\ [][PartsNext]_<<part, noticesVars, waitVars>>

-----------------------------------------------------------------------------
\* Edits of a message do not overlap, a final screen stays, signals are remembered as they were
\* shown, no wait is left after a stop, and a pause of Telegram is kept.
WaitSafe ==
  /\ [](Wait!WaitTypeOK /\ Wait!EditsApart /\ Wait!NoWaitAfterStop)
  /\ Wait!FinalStays /\ Wait!RecordedWhenShown /\ Wait!PauseHolds

=============================================================================
