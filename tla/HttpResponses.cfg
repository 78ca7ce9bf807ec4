SPECIFICATION MCSpec
CONSTANTS
    HTTP_MAX_HEADER_SIZE = 80
    ULLONG_MAX = 63
    Streams <- AllStreams
    LaterStreams <- TwoStreams
    RecvSizes = {1, 2, 5, 1000}
    MaxSockets = 2
    Breaks = TRUE
    Texts <- AllTexts
    Wants = {TRUE, FALSE}
INVARIANTS DepthVerified CutIndependent DeliveredAsSent RefusesOnlyBad AssertsHold
CHECK_DEADLOCK FALSE
