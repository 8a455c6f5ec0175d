CONSTANTS
    write = write
    writeBack = writeBack
    upload = upload
    delete = delete
    tree = tree
    a = a
    b = b
    old = old
    other = other
    link = link
    AnyContent = AnyContent
    Torn = Torn
    Short = Short
    NotRegular = NotRegular
    None = None
    Ops = {write, writeBack, upload, delete, tree}
    Targets = {a, b}
    Foreign = {old}
    Exposed = {}
    MaxCrashes = 0
    Kind <- MCKinds
    Target <- MCTarget
    Stripe <- MCStripe
    NewData <- MCNewData
    Expected <- MCExpected
    ForeignData <- MCForeignData
    Initial <- MCInitial
SPECIFICATION FairSpec
CHECK_DEADLOCK FALSE
PROPERTIES IsStore OpsEnd
