\* Five trades of two wallets, a queue of one, a page of two rows.
SPECIFICATION FairTradesSpec
CONSTANTS
    NoSignal = NoSignal
    a = a
    b = b
    Wallets <- MCWallets
    Tape <- MCTape
    PageSize = 2
    TradeQueueSize = 1
    SeenCap = 4
    Decay = 1
    Window = 2
    MinUsd = 2
    Volume <- MCVolume
    Count <- MCCount
    MinCluster <- MCMinCluster
    MaxTime = 2
INVARIANTS TalliedOnce SignalIsBacked
PROPERTY PageIsDrained
CHECK_DEADLOCK FALSE
