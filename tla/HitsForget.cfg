SPECIFICATION FairSpec
CONSTANTS
    Nodes = {n1, n2}
    Conns = {p}
    Announcements <- Firewalled
    Leaving <- Firewalled
    Tips = {}
    ServerHost = home
    Client = none
    DeadHitAge = 1
    RelayRetry = 1
    TrackerRetry = 1
    AnswerDelay = 1
    PushDelay = 1
    MaxAnswer = 8
    Us = us
    None = none
    wanA = wanA
    wanB = wanB
    wanC = wanC
    lan = lan
    s1 = s1
    s2 = s2
    s3 = s3
    s4 = s4
PROPERTY OldIsForgotten
