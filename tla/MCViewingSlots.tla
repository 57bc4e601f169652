--------------------------- MODULE MCViewingSlots ---------------------------
(***************************************************************************)
(* ViewingSlots for TLC.                                                   *)
(***************************************************************************)
EXTENDS ViewingSlots, TLC

\* Ids, properties, renters and bookings are only ever compared.
Symmetry ==
    Permutations(SlotId) \cup Permutations(Property)
        \cup Permutations(Renter) \cup Permutations(BookingRef)
=============================================================================
