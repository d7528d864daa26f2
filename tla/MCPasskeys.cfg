\* Two tabs of one account, over either database.
SPECIFICATION FairSpec
CONSTANTS
  alice = alice  bob = bob
  c1 = c1  c2 = c2  c3 = c3
  h1 = h1  h2 = h2
  t1 = t1  t2 = t2
  NoRow = NoRow
  NoUser = NoUser
  NoProc = NoProc
  NoKeys = NoKeys
  Shared = Shared
  NoCred = NoCred
  NoChallenge = NoChallenge
  Users = {alice}
  Creds = {c1, c2, c3}
  Challenges = {h1}
  Procs = {t1, t2}
  Backends = {"sqlite", "postgres"}
  SessionUser <- AliceEverywhere
  Registered <- OneEach
  AdvanceChoices = {TRUE}
  MaxEpoch = 2
INVARIANTS
  TypeOK
  
  AuditTellsAll
PROPERTIES
  RingKept
  CallsEnd
CHECK_DEADLOCK FALSE
