SPECIFICATION Spec
CONSTANTS
    NumLen = 2
    LockLen = 3
    MaxOpsPerScript = 4
    MaxStackSize = 9
    MaxPubKeysPerMultiSig = 3
    LockTimeThreshold = 10
    SequenceLockTimeDisabled = 64
    SequenceLockTimeIsSeconds = 16
    MaxTxInSequenceNum = 127
    RelativeLockSeconds = 2
    ParsedScripts <- MCParsedScripts
INVARIANTS
    WireAgrees
    RpcAgrees
PROPERTIES
    ScriptsAgree
CHECK_DEADLOCK FALSE
