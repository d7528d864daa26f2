\* Two long polls and two sessions race over one request; two requests are
\* expired by one statement of a reader.
SPECIFICATION Spec
CONSTANTS
  alice = alice  bob = bob
  r1 = r1  r2 = r2
  p1 = p1  p2 = p2
  s1 = s1  s2 = s2
  Requests = {r1, r2}
  Users = {alice}
  Sessions = {s1, s2}
  Pollers = {p1, p2}
  Owner <- AliceOwnsAll
  SessionUser <- AliceSignsIn
  PollUser <- AlicePolls
  NoPoller = NoPoller
  NoRequest = NoRequest
  NoResult = NoResult
  Retention = 1
  QueueSlack = 1
  Timeouts = {1}
  MaxTime = 5
  LastCreate = 0
  MaxCrashes = 1
CONSTRAINT TogetherBriefly
SYMMETRY SymmetricCallers
INVARIANTS
  TypeOK
  NoLostWakeup
  OneVerdict
PROPERTIES
  ApprovedResultKept
  PromiseKept
CHECK_DEADLOCK FALSE
