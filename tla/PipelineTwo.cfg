\* Three intents of one account in turn: a session's entry, a demo trade and a real one that meets a
\* DEMO_ONLY worker.
SPECIFICATION PipelineSpec
CONSTANTS
  u1 = u1  a1 = a1  s1 = s1  i1 = i1  i2 = i2  i3 = i3  w1 = w1  w2 = w2  r1 = r1
  NoSession = NoSession  NoTrade = NoTrade  NoWorker = NoWorker  NoIntent = NoIntent
  Users = {u1}
  Accounts = {a1}
  Sessions = {s1}
  Intents = {i1, i2, i3}
  Trades = {i1, i2, i3}
  Workers = {w1}
  Replicas = {r1}
  Terms <- MixedTerms
  OwnerOf <- Owner
  AccountOf <- ThreeOf
  TermsOf <- ThreeTerms
  SessionOf <- EntryFirst
  SessionAccount <- S1Account
  SessionMode <- S1Mode
  ApiDemoOnly = FALSE
  WorkerDemoOnly = TRUE
  InitialBalance = 2
  MaxAttempts = 1
  MaxVersion = 7
  MaxEdits = 0
  MaxStalledCount = 1
  MaxFaults = 0
INVARIANTS LinkedToOwnTrade DemoOnlySendsNoReal
CHECK_DEADLOCK FALSE
