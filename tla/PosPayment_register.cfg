\* One sale, paid in every way, with the dialog closed at any moment.
SPECIFICATION FairSpec
CONSTANTS
    Ops = {"manual", "provider", "account", "split", "reduce", "cancel", "resolve", "close"}
    Watches = {"w1"}
    Parts = 2
    Lossy = {"net"}
    LossyAt = {"settle", "leg"}
    Failures = TRUE
    MaxCarts = 1
    MaxOrders = 1
    MaxKeys = 4
    MaxLost = 1
    MaxTime = 3
INVARIANTS
    TypeOK
    PartTakenOnce
    ReceiptIsPosted
PROPERTIES
    DoneOrderLeaves
CHECK_DEADLOCK FALSE
