CONSTANTS
    Servers = {"s1", "s2"}
    Secrets = {"k1", "k2"}
    WeakSecrets = {"weak"}
    Uuids = {"u1"}
    Garbage = "garbage"
    Empty = ""
    Malformed = Malformed
    NoFile = NoFile
    None = None
    MaxApplies = 2
    MaxLoads = 2
    Payloads <- MCAll
    Overrides <- MCEnvironment
SPECIFICATION FairSpec
CHECK_DEADLOCK FALSE
INVARIANTS OneCommitter DiskTracksCurrent
PROPERTIES SecretChangesByTransfer TransferNotDisplaced IsRegister AcceptedSettles StaleSessionEnds
