CONSTANTS
    Servers = {"s1"}
    Secrets = {"k1", "k2"}
    WeakSecrets = {"weak"}
    Uuids = {"u1"}
    Garbage = "garbage"
    Empty = ""
    Malformed = Malformed
    NoFile = NoFile
    None = None
    MaxApplies = 1
    MaxLoads = 1
    Payloads <- MCPayloads
    Overrides <- MCNoOverrides
SPECIFICATION Spec
CHECK_DEADLOCK FALSE
INVARIANTS StaleSessionIsNotified
