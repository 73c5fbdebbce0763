\* The two legs of an arbitrage pair, routed and unwound, with sweeps,
\* reconciliations, the user channel and every loss.
SPECIFICATION FairSpec
CONSTANTS
    None = None
    Orders = {yes, no}
    ExitOrders = {}
    Legs = {yes, no}
    Size = 1
    MaxWire = 1
    Repeats = 0
    Lossy = TRUE
INVARIANT KnownCancelIsReal
PROPERTIES RouteEnds SweepEnds OwnUnlistedIsOffVenue
CHECK_DEADLOCK FALSE
