\* One order of the exit monitor, two lots, a trade pushed again, every loss
\* the code can meet.
SPECIFICATION FairSpec
CONSTANTS
    None = None
    Orders = {exit}
    ExitOrders = {exit}
    Legs = {}
    Size = 2
    MaxWire = 3
    Repeats = 1
    Lossy = TRUE
INVARIANT BookedAtMostOnce
PROPERTIES SubmitResolves ClosedIsNoticed
CHECK_DEADLOCK FALSE
