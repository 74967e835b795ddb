\* One intent, a slot that may be left behind, one reconciling process, one fault.
SPECIFICATION PipelineSpec
CONSTANTS
  u1 = u1  a1 = a1  s1 = s1  i1 = i1  i2 = i2  i3 = i3  w1 = w1  w2 = w2  r1 = r1
  NoSession = NoSession  NoTrade = NoTrade  NoWorker = NoWorker  NoIntent = NoIntent
  Users = {u1}
  Accounts = {a1}
  Sessions = {}
  Intents = {i1}
  Trades = {i1}
  Workers = {w1, w2}
  Replicas = {r1}
  Terms <- RoundedTerms
  OwnerOf <- Owner
  AccountOf <- OneOf
  TermsOf <- OneDemo
  SessionOf <- OneBot
  SessionAccount <- NoSessions
  SessionMode <- NoSessions
  ApiDemoOnly = FALSE
  WorkerDemoOnly = FALSE
  InitialBalance = 1
  MaxAttempts = 1
  MaxVersion = 8
  MaxEdits = 0
  MaxStalledCount = 1
  MaxFaults = 1
SYMMETRY SlotSymmetry
INVARIANTS SendsAreSafe ReleasedOrderNeverOpens
PROPERTY ImplementsStore
CHECK_DEADLOCK FALSE
