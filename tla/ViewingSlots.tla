---------------------------- MODULE ViewingSlots ----------------------------
(***************************************************************************)
(* ViewingSlotService (apps/api/src/property): viewing slots of properties,*)
(* the lock a renter gets on one, and its booking.  The service keeps its  *)
(* slots in the memory of one process and every call runs to its end, so   *)
(* calls interleave only with the clock.                                   *)
(***************************************************************************)
EXTENDS Integers

CONSTANTS SlotId, Property, Renter, BookingRef,
          LockTime,     \* how long a reservation lasts: five minutes
          MaxTime       \* bound of the model: the clock stops here

ASSUME SlotAssumption ==
    /\ LockTime \in Nat \ {0}
    /\ MaxTime \in Nat
    /\ "none" \notin BookingRef      \* an id is never the absence of one

VARIABLES slots,    \* the slots created so far
          now       \* the service's clock

vars == <<slots, now>>

Nobody == "nobody"
NoLock == -1
NoBooking == "none"

Times == 0 .. MaxTime + 2

SlotRecord ==
    [property : Property, startsAt : Times, endsAt : Times,
     reservedBy : Renter \cup {Nobody},
     lockedUntil : 0 .. MaxTime + LockTime \cup {NoLock},
     bookingId : BookingRef \cup {NoBooking}]

Init == slots = [i \in {} |-> <<>>] /\ now = 0

----------------------------------------------------------------------------
\* Two slots of one property overlap.
Overlaps(slot, property, start, end) ==
    slot.property = property /\ start < slot.endsAt /\ end > slot.startsAt

\* Mutant: only a start inside another slot counts as an overlap.
Create_startOnly(i, property, start, end) ==
    /\ i \notin DOMAIN slots
    /\ start > now /\ end > start
    /\ \A j \in DOMAIN slots :
          ~ (slots[j].property = property /\ start < slots[j].endsAt /\ start >= slots[j].startsAt)
    /\ slots' = [j \in DOMAIN slots \cup {i} |->
                    IF j # i THEN slots[j]
                    ELSE [property |-> property, startsAt |-> start, endsAt |-> end,
                          reservedBy |-> Nobody, lockedUntil |-> NoLock, bookingId |-> NoBooking]]
    /\ UNCHANGED now

Create(i, property, start, end) ==
    /\ i \notin DOMAIN slots
    /\ start > now /\ end > start
    /\ \A j \in DOMAIN slots : ~ Overlaps(slots[j], property, start, end)
    /\ slots' = [j \in DOMAIN slots \cup {i} |->
                    IF j # i THEN slots[j]
                    ELSE [property |-> property, startsAt |-> start, endsAt |-> end,
                          reservedBy |-> Nobody, lockedUntil |-> NoLock, bookingId |-> NoBooking]]
    /\ UNCHANGED now

Get(i) == i \in DOMAIN slots

\* A lock that has not run out; what is no longer locked has no lock to run out.
Locked(i) == slots[i].lockedUntil # NoLock /\ slots[i].lockedUntil > now

\* Mutant: reserving again adds to the time that is left.
Reserve_adds(i, renter) ==
    /\ Get(i)
    /\ slots[i].bookingId = NoBooking
    /\ ~ (Locked(i) /\ slots[i].reservedBy # renter)
    /\ slots' = [slots EXCEPT ![i].reservedBy = renter,
                  ![i].lockedUntil = (IF Locked(i) THEN @ ELSE now) + LockTime]
    /\ UNCHANGED now

\* A slot is reserved by whom it is free for, or again by who holds it.
Reserve(i, renter) ==
    /\ Get(i)
    /\ slots[i].bookingId = NoBooking
    /\ ~ (Locked(i) /\ slots[i].reservedBy # renter)
    /\ slots' = [slots EXCEPT ![i].reservedBy = renter, ![i].lockedUntil = now + LockTime]
    /\ UNCHANGED now

\* Mutant: a reservation that has run out is still good for a booking.
Confirm_late(i, renter, booking) ==
    /\ Get(i)
    /\ slots[i].bookingId = NoBooking
    /\ slots[i].reservedBy = renter /\ slots[i].lockedUntil # NoLock
    /\ slots' = [slots EXCEPT ![i].bookingId = booking, ![i].lockedUntil = NoLock]
    /\ UNCHANGED now

Confirm(i, renter, booking) ==
    /\ Get(i)
    /\ slots[i].bookingId = NoBooking
    /\ slots[i].reservedBy = renter /\ Locked(i)
    /\ slots' = [slots EXCEPT ![i].bookingId = booking, ![i].lockedUntil = NoLock]
    /\ UNCHANGED now

Tick == now < MaxTime /\ now' = now + 1 /\ UNCHANGED slots

Next ==
    \/ \E i \in SlotId, p \in Property, start, end \in Times : Create(i, p, start, end)
    \/ \E i \in SlotId, r \in Renter :
          Reserve(i, r) \/ \E b \in BookingRef : Confirm(i, r, b)
    \/ Tick

Spec == Init /\ [][Next]_vars

----------------------------------------------------------------------------
(***************************************************************************)
(* Properties                                                              *)
(***************************************************************************)
\* The slots are slots: create, reserve and confirm leave every field in its type.
TypeOK ==
    /\ DOMAIN slots \subseteq SlotId
    /\ \A i \in DOMAIN slots : slots[i] \in SlotRecord
    /\ now \in 0 .. MaxTime

\* No moment belongs to two slots of one property, whatever the order in which
\* create was given short and long ones, nested or side by side.
NoDoubleViewing ==
    \A i, j \in DOMAIN slots :
        i # j /\ slots[i].property = slots[j].property =>
            \/ slots[i].endsAt <= slots[j].startsAt
            \/ slots[j].endsAt <= slots[i].startsAt

\* Locks and their expiry keep the promise of one holder at a time: a slot counts
\* as held while its lock lasts, so a renewal keeps it and only time frees it.
SlotState == [i \in DOMAIN slots |->
    LET s == slots[i]
    IN  IF s.bookingId # NoBooking
        THEN [is |-> "booked", by |-> s.reservedBy, booking |-> s.bookingId]
        ELSE IF s.lockedUntil > now
        THEN [is |-> "held", by |-> s.reservedBy]
        ELSE [is |-> "free"]]

Promise == INSTANCE SlotPromise WITH state <- SlotState
KeepsTheSlotPromise == Promise!Spec
=============================================================================
