SPECIFICATION Spec
CONSTANTS
    Letters <- MCLetters
    Labels <- MCLabels
    Peers <- MCPeers
    MsgIds <- MCMsgIds
    MaxJobs = 2
INVARIANTS
    TapeRoundTrip
    OwnConversationReached
    NeverMisrouted
    KeysAreDistinct
