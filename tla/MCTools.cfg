SPECIFICATION Spec
CONSTANTS
    Asked = {0, 1, 2, 3, 9}
    Second = 2
    Longest = 8
    ServerDefault = 12
    ClientDefault = 10
    AgentDefault = 6
    PollGrace = 7
    QueueDelay = 1
    Latency = 1
    LongestWait = 2
    PollHorizon = 16
    Targets = {t1, t2}
    Legacy = {t1}
    Operations = {o1, o2}
    Forged = Forged
    NoAnchor = NoAnchor
    Torn = Torn
    Runs = {e1}
    Pipes = {w1}
    Texts = {Empty, text}
    Empty = Empty
    Half = Half
    NoFile = NoFile
    Mangled = Mangled
    Accounts = {a1, a2}
    Newcomer = Newcomer
    Bundled = 2
    Labels = {l1, l2}
    Foreign = Foreign
    SshClients = {c1, c2}
    Digests = {d1}
    Garbled = Garbled
    NoKey = NoKey
SYMMETRY Symmetry
INVARIANTS
    TypeOK
    VerdictFirst
    OnlyAgreed
    SignupBundleVerifies
    OpensWithItsKey
    NothingLostSilently
    
    SignedAsAsked
    NothingWasted
PROPERTIES
    PinsStay
    AllOrNothing
CHECK_DEADLOCK FALSE
