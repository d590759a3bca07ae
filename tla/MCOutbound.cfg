SPECIFICATION Spec
CONSTANTS
    u = u
    s1 = s1
    s2 = s2
    Peers = {u}
    Senders = {s1, s2}
    Requests <- MCRequests
    ChunkRunes = 2
    MaxChunks = 1
    ApprovalRunes = 1
    CutMark = 1
    MaxAttempts = 2
    CdnBase = TRUE
INVARIANTS
    TypeOK
    OkMeansAll
    DeliveredIsPrefix
    CaptionNeedsUpload
    TypingEnds
SYMMETRY SenderSymmetry
