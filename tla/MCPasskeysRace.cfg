\* A password change and an added passkey race in Postgres.
SPECIFICATION Spec
CONSTANTS
  alice = alice  bob = bob
  c1 = c1  c2 = c2  c3 = c3
  h1 = h1  h2 = h2
  t1 = t1  t2 = t2
  NoRow = NoRow
  NoUser = NoUser
  NoProc = NoProc
  NoKeys = NoKeys
  Shared = Shared
  NoCred = NoCred
  NoChallenge = NoChallenge
  Users = {alice}
  Creds = {c1, c2, c3}
  Challenges = {h1}
  Procs = {t1, t2}
  Backends = {"postgres"}
  SessionUser <- AliceEverywhere
  Registered <- TwoPasskeys
  AdvanceChoices = {TRUE}
  MaxEpoch = 2
INVARIANTS
  FreshOpensWithCurrent
CHECK_DEADLOCK FALSE
