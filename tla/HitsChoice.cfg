SPECIFICATION Spec
CONSTANTS
    Nodes = {n1, n2}
    Conns = {p}
    Announcements <- Moving
    Leaving = {}
    Tips <- OneTip
    ServerHost = home
    Client <- LocalClient
    DeadHitAge = 1
    RelayRetry = 1
    TrackerRetry = 1
    AnswerDelay = 1
    PushDelay = 1
    MaxAnswer = 2
    Us = us
    None = none
    wanA = wanA
    wanB = wanB
    wanC = wanC
    lan = lan
    s1 = s1
    s2 = s2
    s3 = s3
    s4 = s4
SYMMETRY NodeSymmetry
INVARIANT NearestPicked
INVARIANT AnnouncedIsListed
PROPERTY FailedNotPicked
PROPERTY RefusedIsHelped
