\* Every transaction may act on an old check.
CONSTANTS
    Rsv = {r1, r2, r3}
    Pos = {r2}
    Dispatch = {r2, r3}
    Stale = {r1, r2, r3}
    MaxQty = 2
    MaxPhysical = 6
SPECIFICATION Spec
PROPERTIES
    IssueSparesOthers
