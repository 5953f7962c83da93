\* Two POS checkouts of pick-up orders at the same time.
CONSTANTS
    Rsv = {r1, r2}
    Pos = {r1, r2}
    Dispatch = {}
    Stale = {r1, r2}
    MaxQty = 2
    MaxPhysical = 2
SPECIFICATION Spec
INVARIANTS
    NoOverReservation
