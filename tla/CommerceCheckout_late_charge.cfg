\* A cart is checked out again while the first order's payment is under way.
CONSTANTS
    c1 = c1
    o1 = o1
    o2 = o2
    i1 = i1
    i2 = i2
    m1 = m1
    paynow = paynow
    ecocash = ecocash
    Cart = {c1}
    Order = {o1, o2}
    Intent = {i1, i2}
    Manual = {m1}
    CartOf <- OneCartOf
    OrderOf <- AgainOrderOf
    Provider = {paynow, ecocash}
    ProviderOf <- SameProvider
    Variant = {v1}
    DispatchCart = {}
    MaxNeed = 1
    MaxStock = 1
    NoOrder = NoOrder
    NoIntent = NoIntent
    NoPay = NoPay
SPECIFICATION FairSpec
PROPERTIES
    ChargeRecorded
