SPECIFICATION FairSpec
CONSTANTS
    Clients = {"c1", "c2"}
    MethodsOf <- MCMethodsOf
    MaxKeys = 2
    MaxMasks = 2
INVARIANTS ReadableReply KeyAgreement ForeignMaskFollows SentIsLocked
PROPERTIES Answered
