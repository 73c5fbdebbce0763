\* Two price levels, two changes of the venue and a broken connection.
SPECIFICATION Spec
CONSTANTS
    None = None
    Tokens = {"YES", "NO"}
    Levels = {1, 3}
    Listed <- MCListed
    MaxMoves = 2
    MaxBreaks = 1
    One = 4
    MinGap = 1
    MinEdge = 1
INVARIANTS BookIsReplayed PaysAnAsk PairLocksProfit ClaimIsOfToken
CHECK_DEADLOCK FALSE
