CONSTANTS
    MaxRequests = 3
    Framings = {"counted", "open"}
    Local = TRUE
    Procs = {p1, p2}
    Pairs = {k1, k2, k3, k4}
    Torn = Torn
    None = None
SPECIFICATION ISpec
INVARIANT ITypeOK
INVARIANT AnswersInOrder
INVARIANT PairMatches
INVARIANT TrustLasts
PROPERTY LoopEnds
