SPECIFICATION FairSpec
CONSTANTS
    Slates = {1, 2}
    Methods = {"epicbox", "keybase", "http", "file", "self"}
    MaxFaults = 2
    ReconnectLimit = 2
INVARIANTS PostedIsBacked ReceivedOnce
PROPERTIES OnlyEarlyAnswerLost SendEnds EpicboxSettles
CHECK_DEADLOCK FALSE
