\* Two callers and one market, a midnight, an expiry and a restart of each
\* day, with one tier that is charged and one that is not in the price table.
SPECIFICATION FairSpec
CONSTANTS
    Callers = {c1, c2}
    Markets = {m1}
    None = None
    TriageCost = 1
    DeepCost = 1
    Priced = {"triage"}
    Budget = 1
    TTL = 1
    DayLen = 2
    Start = 1
    MaxTime = 2
    MaxRestarts = 1
    MaxQuery = 1
INVARIANT SpendIsBounded
PROPERTIES OneQueryPerMarket ResolveEnds
CHECK_DEADLOCK FALSE
