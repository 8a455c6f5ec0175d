CONSTANTS
    write = write
    writeBack = writeBack
    upload = upload
    delete = delete
    tree = tree
    a = a
    b = b
    old = old
    other = other
    link = link
    AnyContent = AnyContent
    Torn = Torn
    Short = Short
    NotRegular = NotRegular
    None = None
    Ops = {upload}
    Targets = {a}
    Foreign = {old, other, link}
    Exposed = {a, upload}
    MaxCrashes = 1
    Kind <- MCKinds
    Target <- MCTarget
    Stripe <- MCStripe
    NewData <- MCNewData
    Expected <- MCExpected
    ForeignData <- MCForeignData
    Initial <- MCInitial
SPECIFICATION Spec
CHECK_DEADLOCK FALSE
INVARIANTS FailedUploadPreservesTarget
