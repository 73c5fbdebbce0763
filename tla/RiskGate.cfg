\* Proposals within the cap, to reduce and to reject: three orders on four markets.
SPECIFICATION Spec
CONSTANTS
    None = None
    c1 = c1
    c2 = c2
    c3 = c3
    c4 = c4
    Conditions <- MCConditions
    Tokens <- MCTokens
    EventOf <- MCEventOf
    CategoryOf <- MCCategoryOf
    Sizes = {1, 3, 4}
    Paired = {TRUE, FALSE}
    MaxShare = 3
    MaxOrders = 3
    MaxMarks = 1
    MaxRestarts = 1
    MaxPosition = 2
    MaxCategory = 3
    MaxTotal = 4
    MaxOpen = 2
    MaxPerEvent = 1
    MaxPerCondition = 1
INVARIANTS ExposureWithinLimits ConcentrationWithinLimits
PROPERTY NeverInflates
CHECK_DEADLOCK FALSE
