\* The event of a request reloaded at startup is due one second early.
SPECIFICATION FairSpec
CONSTANTS
  alice = alice  bob = bob
  r1 = r1  r2 = r2
  p1 = p1  p2 = p2
  s1 = s1  s2 = s2
  Requests = {r1}
  Users = {alice}
  Sessions = {s1}
  Pollers = {p1}
  Owner <- AliceOwnsAll
  SessionUser <- AliceSignsIn
  PollUser <- AlicePolls
  NoPoller = NoPoller
  NoRequest = NoRequest
  NoResult = NoResult
  Retention = 1
  QueueSlack = 2
  Timeouts = {1}
  MaxTime = 5
  LastCreate = 0
  MaxCrashes = 1
PROPERTIES
  PendingExpires
CHECK_DEADLOCK FALSE
