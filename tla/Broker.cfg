\* One page, two orders; one change of the switch, beat or wipe; one broken
\* stream or restart; a queue of three and a replay of two.
SPECIFICATION FairBrokerSpec
CONSTANTS
    None = None
    Clients = {page}
    Orders = {o1, o2}
    FeedMax = 2
    QueueMax = 3
    RecentMax = 2
    MaxChanges = 1
    MaxBreaks = 1
INVARIANT RefreshCatchesUp
PROPERTY ViewConverges
CHECK_DEADLOCK FALSE
