SPECIFICATION PartsSpec
CONSTANTS
  Newest = 1
  Procs = {"q1", "q2", "q3"}
  Accounts = {11}
  OwnerOf <- MCOwnerOf
  Inviter <- MCInviter
  Connections = {"q1", "q2"}
  Challenges = {"c1"}
  Links = {"l1"}
  Sessions = {"s1", "s2"}
  Begun = {"c1", "l1"}
  Ops = {"login", "wrong", "press", "complete", "follow", "request", "disable"}
  MaxEpoch = 1
  Mailers = {"q1", "q2"}
  Kinds <- MCKinds
  Important = {"real"}
  Replans = {"real"}
  MaxAttempts = 2
  MaxMailFaults = 2
INVARIANTS NoWaitCycle MailingSafe
PROPERTIES StaffSafe
CHECK_DEADLOCK FALSE
