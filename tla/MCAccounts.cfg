\* Two accounts signing up and in, over either database.
SPECIFICATION Spec
CONSTANTS
  alice = alice  bob = bob
  c1 = c1  c2 = c2
  h1 = h1  h2 = h2
  t1 = t1  t2 = t2
  NoRow = NoRow
  NoUser = NoUser
  NoProc = NoProc
  NoKeys = NoKeys
  Shared = Shared
  NoCred = NoCred
  NoChallenge = NoChallenge
  Users = {alice, bob}
  Creds = {c1}
  Challenges = {h1}
  Procs = {t1, t2}
  Backends = {"sqlite", "postgres"}
  Counting = {c1}
  MaxCount = 2
  MaxKey = 2
  DeliveryLimit = 1
SYMMETRY SameNames
INVARIANTS
  TypeOK
  ReadyForGood
  KeysAgree
PROPERTIES
  SignCountGrows
  ChallengeUsedOnce
  AccountKept
CHECK_DEADLOCK FALSE
