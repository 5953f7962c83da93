\* A provider reports one failure in two different payloads.
CONSTANTS
    c1 = c1
    o1 = o1
    o2 = o2
    i1 = i1
    i2 = i2
    m1 = m1
    paynow = paynow
    ecocash = ecocash
    Cart = {c1}
    Order = {o1}
    Intent = {i1, i2}
    Manual = {m1}
    CartOf <- OneCartOf
    OrderOf <- OneOrderOf
    Provider = {paynow, ecocash}
    ProviderOf <- SameProvider
    Variant = {v1, v2}
    DispatchCart = {}
    MaxNeed = 1
    MaxStock = 1
    NoOrder = NoOrder
    NoIntent = NoIntent
    NoPay = NoPay
SPECIFICATION Spec
PROPERTIES
    NoStaffPaymentWhilePending
