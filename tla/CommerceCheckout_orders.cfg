\* One order, two providers and the staff.
CONSTANTS
    c1 = c1
    o1 = o1
    o2 = o2
    i1 = i1
    i2 = i2
    m1 = m1
    paynow = paynow
    ecocash = ecocash
    Cart = {c1}
    Order = {o1}
    Intent = {i1, i2}
    Manual = {m1}
    CartOf <- OneCartOf
    OrderOf <- OneOrderOf
    Provider = {paynow, ecocash}
    ProviderOf <- EachProvider
    Variant = {v1}
    DispatchCart = {}
    MaxNeed = 2
    MaxStock = 2
    NoOrder = NoOrder
    NoIntent = NoIntent
    NoPay = NoPay
SPECIFICATION FairSpec
INVARIANTS
    TypeOK
    SettlementAccounted
    InvoicedIffServed
    LockHeldByLiveOrder
    CreditBacked
PROPERTIES
    PaidOrderProtected
    NoStaffPaymentWhilePending
    AbandonedCartFreed
    ChargeRecorded
