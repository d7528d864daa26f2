SPECIFICATION FairSpec
CONSTANTS
    StreamRequests = {r1, r2, r3}
    OwnRequests = {r1, r2}
    BufferSize = 2
    Actors = {me, other}
    AuditReader = me
    PageSize = 2
    MaxId = 4
    Slots = {slotA, slotB}
    Thumbprints = {key1, key2}
    Sessions = {tab1}
    NoRow = NoRow
    NoProof = NoProof
    NoCall = NoCall
    Free = Free
    Anyone = Anyone
    Challenges = {c1, c2}
    Signups = {c1}
    Slack = 1
    Grace = 2
    Day = 1
    ChallengeLife = 1
    Horizon = 1
INVARIANTS
    TypeOK
    NothingMissing
    GhostsExplained
    PagesExact
    AcceptedWereProven
    OnePrune
PROPERTIES
    StreamCatchesUp
    ProvenKeysStay
    NothingNeededGoes
CHECK_DEADLOCK FALSE
