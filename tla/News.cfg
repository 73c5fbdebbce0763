\* Two articles about one market, either way of matching, one fault.
SPECIFICATION FairNewsSpec
CONSTANTS
    a = a
    b = b
    m = m
    Articles = {a, b}
    Markets = {m}
    About <- MCAbout
    Modes = {"inmem", "keyword"}
    Scores <- MCScores
    Words <- MCWords
    MinImpact = 1
    Threshold = 2
    Batch = 1
    TopK = 1
    ArticleQueueSize = 1
    SeenMax = 1
    SeenKeep = 1
    MaxFaults = 1
INVARIANT OneVoicePerRound
PROPERTIES StoredIsProcessed BetEnds
CHECK_DEADLOCK FALSE
