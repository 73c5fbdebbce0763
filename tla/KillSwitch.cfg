\* A pair or two single orders of the pipeline, scans of up to two exits, one
\* intervention of the operator, one restart.
SPECIFICATION FairSwitchSpec
CONSTANTS
    NoReason = NoReason
    Orders = {yes, no, exit1, exit2}
    Exits = {exit1, exit2}
    Reasons = {"manual"}
    MaxClicks = 1
    MaxReboots = 1
PROPERTIES LateWasUnderWay OpenOrdersClosed
CHECK_DEADLOCK FALSE
