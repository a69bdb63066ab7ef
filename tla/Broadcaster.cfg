SPECIFICATION FairSpec
CONSTANTS
    s1 = s1
    s2 = s2
    w1 = w1
    w2 = w2
    Away = Away
    Senders <- TwoSenders
    Watchers <- TwoWatchers
    QueueLimit = 2
    ResultLimit = 1
    MaxEvents = 3
INVARIANTS
    NothingLost
    NoCircularWait
PROPERTIES
    FollowsTheLog
    ActionsReturn
    WatchAndStopReturn
