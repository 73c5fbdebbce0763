\* Two tokens, fills of one or three shares, with and without a fee.
SPECIFICATION Spec
CONSTANTS
    Tokens = {yes, no}
    Prices = {2, 5}
    Sizes = {1, 3}
    Fees = {0, 1}
    AvgCosts <- MCAvgCosts
    MaxFills = 4
    StartingCash = 100
INVARIANTS BooksBalance RoundTripIsNet AvgIsWithinPaid NavIsExplained
CHECK_DEADLOCK FALSE
