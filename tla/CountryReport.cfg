CONSTANTS
    a = a
    b = b
    Addresses = {a, b}
    NoAddress = NoAddress
    UseV6 = FALSE
    MaxFailures = 1
    MaxBoots = 3
SPECIFICATION ReportSpec
CHECK_DEADLOCK FALSE
INVARIANTS ReportKnown
