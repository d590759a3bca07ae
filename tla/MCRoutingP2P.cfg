SPECIFICATION Spec
CONSTANTS
    Letters <- MCLetters
    Labels <- MCLabelsP2P
    Peers <- MCPeers
    MsgIds <- MCMsgIds
    MaxJobs = 1
INVARIANTS
    TapeRoundTrip
