\* An arbitrage pair of maker orders and an exit order and a FOK order.
SPECIFICATION FairSpec
CONSTANTS
    yes = yes
    no = no
    exit = exit
    fok = fok
    Orders <- MCOrders
    Legs = {yes, no}
    Type <- MCType
    Limit <- MCLimit
    Size = 2
    Levels = 2
    MaxDepth = 2
INVARIANTS RestingIsOpen PairIsUnwound
PROPERTIES KeepsContract MakersEnd
CHECK_DEADLOCK FALSE
