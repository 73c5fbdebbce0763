\* A position bought in parts, sold, written, restored and sold again.
SPECIFICATION FairSpec
CONSTANTS
    None = None
    t1 = t1
    Tokens = {t1}
    PolicyName <- MCPolicyName
    LLMNames <- MCLLMNames
    Modes = {"paper", "live"}
    LLM = {FALSE}
    OrderSizes = {4}
    Floor = 2
    CooldownScans = 2
    MaxOrders = 1
    MaxToggles = 1
    MaxRestarts = 2
INVARIANTS PaperNeverShort 
PROPERTIES PositionsSurvive FlatBeforeSettlement
CHECK_DEADLOCK FALSE
