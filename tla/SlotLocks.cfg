\* Two renters and the clock contend for the slots of two properties.
SPECIFICATION Spec
SYMMETRY Symmetry
CONSTANTS
    SlotId = {i1, i2, i3}
    Property = {p1, p2}
    Renter = {r1, r2}
    BookingRef = {b1, b2}
    LockTime = 2
    MaxTime = 3
INVARIANTS
    TypeOK
    NoDoubleViewing
PROPERTIES
    KeepsTheSlotPromise
CHECK_DEADLOCK FALSE
