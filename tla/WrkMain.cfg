CONSTANTS
    Threads  = {1, 2, 3}
    Limit    = 6
    Values   = {0, 1, 2, 3, 4, 5, 6}
    Infinity = 9
    MaxCalls = 4
    Words    = {"fe"}
    Letters  = {"fe", "http", "https"}
    Numbers  = {"0", "80", "70000"}
    Secure   = {"https"}
    PortOf  <- MCPortOf
    CommandLines <- Lines
SPECIFICATION MainFairSpec
INVARIANTS TypeOK FramedAtRest ReadAlone ReportIsComplete CorrectedOnce ReadersSeeSamples UrlUnderstood
PROPERTIES BoundsOnlyWiden RunEnds
