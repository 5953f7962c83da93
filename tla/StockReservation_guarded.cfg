\* A slow pick-up order, a dispatch order and a POS dispatch order.
CONSTANTS
    Rsv = {r1, r2, r3}
    Pos = {r3}
    Dispatch = {r2, r3}
    Stale = {r1}
    MaxQty = 2
    MaxPhysical = 3
SPECIFICATION Spec
INVARIANTS
    TypeOK
    NoOverReservation
    ReservationFollowsInvoice
