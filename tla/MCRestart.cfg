\* Two users, and the loss and restart of the process.
SPECIFICATION Spec
CONSTANTS
  alice = alice  bob = bob
  r1 = r1  r2 = r2
  p1 = p1  p2 = p2
  s1 = s1  s2 = s2
  Requests = {r1}
  Users = {alice, bob}
  Sessions = {s1, s2}
  Pollers = {p1, p2}
  Owner <- OwnerOfTwo
  SessionUser <- SessionsOfTwo
  PollUser <- PollersOfTwo
  NoPoller = NoPoller
  NoRequest = NoRequest
  NoResult = NoResult
  Retention = 1
  QueueSlack = 2
  Timeouts = {1}
  MaxTime = 5
  LastCreate = 0
  MaxCrashes = 1
INVARIANTS
  ResultIsOwners
  ScheduledUntilDeadline
CHECK_DEADLOCK FALSE
