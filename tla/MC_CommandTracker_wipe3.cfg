\* Three peers, connects complete at once, genuine replies only.
CONSTANTS
    Peer <- MCPeer3
    CmdType <- MCCmdType
    InfoReplied <- MCInfoReplied
    MaxId = 3
    MaxCmd = 2
    Unsolicited = FALSE
    AsyncConnect = FALSE
SPECIFICATION Spec
INVARIANT ResentOnReconnect
