SPECIFICATION Spec
CONSTANTS
    StreamRequests = {r1}
    OwnRequests = {r1}
    BufferSize = 1
    Actors = {me}
    AuditReader = me
    PageSize = 1
    MaxId = 1
    Slots = {slotA}
    Thumbprints = {key1}
    Sessions = {tab1}
    NoRow = NoRow
    NoProof = NoProof
    NoCall = NoCall
    Free = Free
    Anyone = Anyone
    Challenges = {c1}
    Signups = {c1}
    Slack = 1
    Grace = 10
    Day = 2
    ChallengeLife = 1
    Horizon = 1
PROPERTY NonreadyUserCollected
CHECK_DEADLOCK FALSE
