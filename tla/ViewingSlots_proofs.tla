------------------------- MODULE ViewingSlots_proofs -------------------------
(***************************************************************************)
(* Theorems about ViewingSlots, for any number of slots, properties,       *)
(* renters and bookings and any length of the lock.                        *)
(***************************************************************************)
EXTENDS ViewingSlots, TLAPS

\* What create makes of a slot.
New(p, start, end) ==
    [property |-> p, startsAt |-> start, endsAt |-> end,
     reservedBy |-> Nobody, lockedUntil |-> NoLock, bookingId |-> NoBooking]

\* A new slot is a slot.
LEMMA NewType ==
    ASSUME NEW p \in Property, NEW start \in Times, NEW end \in Times
    PROVE  New(p, start, end) \in SlotRecord
BY DEF New, SlotRecord, NoLock, NoBooking

\* Create adds one slot, free and nobody's, and leaves the others as they are.
LEMMA CreateAdds ==
    ASSUME NEW i, NEW p, NEW start, NEW end, Create(i, p, start, end)
    PROVE  /\ DOMAIN slots' = DOMAIN slots \cup {i}
           /\ slots'[i] = New(p, start, end)
           /\ \A j \in DOMAIN slots : j # i /\ slots'[j] = slots[j]
BY DEF Create, New

\* Reserve and Confirm change two fields of one slot.
LEMMA UpdateChanges ==
    ASSUME TypeOK, NEW i \in DOMAIN slots, NEW r, NEW u, NEW b,
           \/ slots' = [slots EXCEPT ![i].reservedBy = r, ![i].lockedUntil = u]
           \/ slots' = [slots EXCEPT ![i].bookingId = b, ![i].lockedUntil = u]
    PROVE  /\ DOMAIN slots' = DOMAIN slots
           /\ slots'[i].property = slots[i].property
           /\ slots'[i].startsAt = slots[i].startsAt
           /\ slots'[i].endsAt = slots[i].endsAt
           /\ \A j \in DOMAIN slots : j # i => slots'[j] = slots[j]
<1>1. slots[i] \in SlotRecord
  BY DEF TypeOK
<1>2. QED
  BY <1>1 DEF SlotRecord

----------------------------------------------------------------------------
\* create, reserve and confirm keep every slot in its type.
LEMMA TypeStep == TypeOK /\ [Next]_vars => TypeOK'
<1> SUFFICES ASSUME TypeOK, [Next]_vars
             PROVE  TypeOK'
  OBVIOUS
<1> USE SlotAssumption
<1>1. ASSUME NEW i \in SlotId, NEW p \in Property, NEW start \in Times, NEW end \in Times,
             Create(i, p, start, end)
      PROVE  TypeOK'
  <2>0. slots'[i] = New(p, start, end)
    BY <1>1, CreateAdds
  <2>1. slots'[i] \in SlotRecord
    BY <2>0, NewType
  <2>2. \A j \in DOMAIN slots' : slots'[j] \in SlotRecord
    BY <1>1, <2>1, CreateAdds DEF TypeOK
  <2>3. DOMAIN slots' \subseteq SlotId /\ now' = now
    BY <1>1, CreateAdds DEF TypeOK, Create
  <2>4. QED
    BY <2>2, <2>3 DEF TypeOK
<1>2. ASSUME NEW i \in SlotId, NEW r \in Renter, Reserve(i, r)
      PROVE  TypeOK'
  <2>1. i \in DOMAIN slots /\ slots[i] \in SlotRecord
    BY <1>2 DEF TypeOK, Reserve, Get
  <2>2. now + LockTime \in 0 .. MaxTime + LockTime
    BY DEF TypeOK
  <2>3. DOMAIN slots' = DOMAIN slots /\ \A j \in DOMAIN slots : j # i => slots'[j] = slots[j]
    BY <1>2, <2>1, UpdateChanges DEF Reserve
  <2>4. slots'[i] = [slots[i] EXCEPT !.reservedBy = r, !.lockedUntil = now + LockTime]
    BY <1>2, <2>1 DEF Reserve
  <2>5. slots'[i] \in SlotRecord
    BY <2>1, <2>2, <2>4 DEF SlotRecord
  <2>6. QED
    BY <1>2, <2>3, <2>5 DEF TypeOK, Reserve
<1>3. ASSUME NEW i \in SlotId, NEW r \in Renter, NEW b \in BookingRef, Confirm(i, r, b)
      PROVE  TypeOK'
  <2>1. i \in DOMAIN slots /\ slots[i] \in SlotRecord
    BY <1>3 DEF TypeOK, Confirm, Get
  <2>2. DOMAIN slots' = DOMAIN slots /\ \A j \in DOMAIN slots : j # i => slots'[j] = slots[j]
    BY <1>3, <2>1, UpdateChanges DEF Confirm
  <2>3. slots'[i] = [slots[i] EXCEPT !.bookingId = b, !.lockedUntil = NoLock]
    BY <1>3, <2>1 DEF Confirm
  <2>4. slots'[i] \in SlotRecord
    BY <2>1, <2>3 DEF SlotRecord
  <2>5. QED
    BY <1>3, <2>2, <2>4 DEF TypeOK, Confirm
<1>4. CASE Tick
  BY <1>4 DEF TypeOK, Tick
<1>5. CASE UNCHANGED vars
  BY <1>5 DEF TypeOK, vars
<1>6. QED
  BY <1>1, <1>2, <1>3, <1>4, <1>5 DEF Next

\* Slots are slots, however many there are: the types of ViewingSlotService.
THEOREM TypeCorrect == Spec => []TypeOK
<1>1. Init => TypeOK
  BY SlotAssumption DEF Init, TypeOK
<1>2. QED
  BY <1>1, TypeStep, PTL DEF Spec

----------------------------------------------------------------------------
\* No step makes two slots of a property overlap: create is refused one that would,
\* and nothing else moves a slot.
LEMMA ViewingStep == TypeOK /\ NoDoubleViewing /\ [Next]_vars => NoDoubleViewing'
<1> SUFFICES ASSUME TypeOK, NoDoubleViewing, [Next]_vars
             PROVE  NoDoubleViewing'
  OBVIOUS
<1> DEFINE Apart(s, t) == s.endsAt <= t.startsAt \/ t.endsAt <= s.startsAt
<1>1. ASSUME NEW i \in SlotId, NEW p \in Property, NEW start \in Times, NEW end \in Times,
             Create(i, p, start, end)
      PROVE  NoDoubleViewing'
  <2>1. /\ slots'[i].property = p
        /\ slots'[i].startsAt = start
        /\ slots'[i].endsAt = end
    <3>1. slots'[i] = New(p, start, end)
      BY <1>1, CreateAdds
    <3>2. QED
      BY <3>1 DEF New
  <2>2. ASSUME NEW j \in DOMAIN slots, slots[j].property = p
        PROVE  Apart(slots[j], slots'[i])
    <3>1. slots[j].startsAt \in Int /\ slots[j].endsAt \in Int
      BY SlotAssumption DEF TypeOK, SlotRecord, Times
    <3>2. start \in Int /\ end \in Int
      BY SlotAssumption DEF Times
    <3>3. ~ (start < slots[j].endsAt /\ end > slots[j].startsAt)
      BY <1>1, <2>2 DEF Create, Overlaps
    <3>4. QED
      BY <2>1, <3>1, <3>2, <3>3
  <2>3. ASSUME NEW j \in DOMAIN slots, NEW k \in DOMAIN slots, j # k,
               slots[j].property = slots[k].property
        PROVE  Apart(slots[j], slots[k])
    BY <2>3 DEF NoDoubleViewing
  <2>4. DOMAIN slots' = DOMAIN slots \cup {i}
    BY <1>1, CreateAdds
  <2>5. \A j \in DOMAIN slots : j # i /\ slots'[j] = slots[j]
    BY <1>1, CreateAdds
  <2>6. ASSUME NEW j \in DOMAIN slots', NEW k \in DOMAIN slots', j # k,
               slots'[j].property = slots'[k].property
        PROVE  Apart(slots'[j], slots'[k])
    <3>1. CASE j = i
      BY <2>1, <2>2, <2>4, <2>5, <2>6, <3>1
    <3>2. CASE k = i
      BY <2>1, <2>2, <2>4, <2>5, <2>6, <3>2
    <3>3. CASE j # i /\ k # i
      BY <2>3, <2>4, <2>5, <2>6, <3>3
    <3>4. QED
      BY <3>1, <3>2, <3>3
  <2>7. QED
    BY <2>6 DEF NoDoubleViewing
<1>2. ASSUME DOMAIN slots' = DOMAIN slots,
             \A i \in DOMAIN slots : /\ slots'[i].property = slots[i].property
                                     /\ slots'[i].startsAt = slots[i].startsAt
                                     /\ slots'[i].endsAt = slots[i].endsAt
      PROVE  NoDoubleViewing'
  BY <1>2 DEF NoDoubleViewing
<1>3. ASSUME NEW i \in SlotId, NEW r \in Renter, Reserve(i, r)
      PROVE  NoDoubleViewing'
  <2>1. i \in DOMAIN slots
    BY <1>3 DEF Reserve, Get
  <2>2. QED
    BY <1>2, <1>3, <2>1, UpdateChanges DEF Reserve
<1>4. ASSUME NEW i \in SlotId, NEW r \in Renter, NEW b \in BookingRef, Confirm(i, r, b)
      PROVE  NoDoubleViewing'
  <2>1. i \in DOMAIN slots
    BY <1>4 DEF Confirm, Get
  <2>2. QED
    BY <1>2, <1>4, <2>1, UpdateChanges DEF Confirm
<1>5. CASE Tick \/ UNCHANGED vars
  BY <1>5 DEF NoDoubleViewing, Tick, vars
<1>6. QED
  BY <1>1, <1>3, <1>4, <1>5 DEF Next

\* However many slots are created, in whatever order: no two of one property overlap.
THEOREM ViewingsApart == Spec => []NoDoubleViewing
<1>1. Init => NoDoubleViewing
  BY DEF Init, NoDoubleViewing
<1>2. QED
  BY <1>1, TypeCorrect, ViewingStep, PTL DEF Spec

----------------------------------------------------------------------------
(***************************************************************************)
(* The promise.  A slot's abstract state depends on its record and the     *)
(* time alone.                                                             *)
(***************************************************************************)
StateOf(s, t) ==
    IF s.bookingId # NoBooking
    THEN [is |-> "booked", by |-> s.reservedBy, booking |-> s.bookingId]
    ELSE IF s.lockedUntil > t THEN [is |-> "held", by |-> s.reservedBy]
    ELSE [is |-> "free"]

LEMMA SlotStateOf ==
    /\ SlotState = [i \in DOMAIN slots |-> StateOf(slots[i], now)]
    /\ SlotState' = [i \in DOMAIN slots' |-> StateOf(slots'[i], now')]
BY DEF SlotState, StateOf

\* A new slot is free, since no time is before the first.
LEMMA CreateKeepsPromise ==
    ASSUME TypeOK, NEW i \in SlotId, NEW p \in Property, NEW start \in Times, NEW end \in Times,
           Create(i, p, start, end)
    PROVE  Promise!Add(i)
<1>1. slots'[i] = New(p, start, end) /\ now' = now
  BY CreateAdds DEF Create
<1>2. StateOf(New(p, start, end), now) = [is |-> "free"]
  BY SlotAssumption DEF TypeOK, StateOf, New, NoLock, NoBooking
<1>3. DOMAIN slots' = DOMAIN slots \cup {i} /\ i \notin DOMAIN slots
  BY CreateAdds DEF Create
<1>4. \A j \in DOMAIN slots : slots'[j] = slots[j]
  BY CreateAdds
<1>5. SlotState' = [j \in DOMAIN SlotState \cup {i} |->
                       IF j = i THEN [is |-> "free"] ELSE SlotState[j]]
  <2>1. ASSUME NEW j \in DOMAIN slots'
        PROVE  StateOf(slots'[j], now') = IF j = i THEN [is |-> "free"] ELSE SlotState[j]
    BY <1>1, <1>2, <1>3, <1>4, SlotStateOf
  <2>2. DOMAIN slots' = DOMAIN SlotState \cup {i}
    BY <1>3, SlotStateOf
  <2>3. QED
    BY <2>1, <2>2, SlotStateOf
<1>6. i \notin DOMAIN SlotState
  BY <1>3, SlotStateOf
<1>7. QED
  BY <1>5, <1>6 DEF Promise!Add, Promise!Free

\* A step that changes one slot at one time changes its abstract state alone.
LEMMA OneStateChanges ==
    ASSUME NEW i \in DOMAIN slots, now' = now, DOMAIN slots' = DOMAIN slots,
           \A j \in DOMAIN slots : j # i => slots'[j] = slots[j]
    PROVE  SlotState' = [SlotState EXCEPT ![i] = StateOf(slots'[i], now)]
BY SlotStateOf

\* Reserving again is no change, reserving anew takes a free slot.
LEMMA ReserveKeepsPromise ==
    ASSUME TypeOK, NEW i \in SlotId, NEW r \in Renter, Reserve(i, r)
    PROVE  Promise!Take(i, r) \/ UNCHANGED SlotState
<1>1. i \in DOMAIN slots /\ slots[i] \in SlotRecord /\ now' = now
  BY DEF TypeOK, Reserve, Get
<1>2. DOMAIN slots' = DOMAIN slots /\ \A j \in DOMAIN slots : j # i => slots'[j] = slots[j]
  BY <1>1, UpdateChanges DEF Reserve
<1>3. slots'[i] = [slots[i] EXCEPT !.reservedBy = r, !.lockedUntil = now + LockTime]
  BY <1>1 DEF Reserve
<1>4. now \in Int /\ LockTime \in Int /\ LockTime > 0
  BY SlotAssumption DEF TypeOK
<1>5. StateOf(slots'[i], now) = [is |-> "held", by |-> r]
  <2>1. /\ slots'[i].bookingId = NoBooking
        /\ slots'[i].reservedBy = r
        /\ slots'[i].lockedUntil = now + LockTime
    BY <1>1, <1>3 DEF Reserve, SlotRecord
  <2>2. now + LockTime > now
    BY <1>4
  <2>3. QED
    BY <2>1, <2>2 DEF StateOf
<1>6. SlotState' = [SlotState EXCEPT ![i] = [is |-> "held", by |-> r]]
  BY <1>1, <1>2, <1>5, OneStateChanges
<1>7. i \in DOMAIN SlotState /\ SlotState[i] = StateOf(slots[i], now)
  BY <1>1, SlotStateOf
<1>8. CASE Locked(i)
  <2>1. slots[i].reservedBy = r /\ slots[i].bookingId = NoBooking /\ slots[i].lockedUntil > now
    BY <1>8 DEF Reserve, Locked
  <2>2. SlotState[i] = [is |-> "held", by |-> r]
    BY <1>7, <2>1 DEF StateOf
  <2>3. SlotState' = SlotState
    BY <1>6, <1>7, <2>2, SlotStateOf
  <2>4. QED
    BY <2>3
<1>9. CASE ~ Locked(i)
  <2>1. ~ (slots[i].lockedUntil > now) /\ slots[i].bookingId = NoBooking
    BY <1>9, <1>4 DEF Reserve, Locked, NoLock, TypeOK
  <2>2. SlotState[i] = [is |-> "free"]
    BY <1>7, <2>1 DEF StateOf
  <2>3. QED
    BY <1>6, <2>2 DEF Promise!Take, Promise!Free, Promise!Held
<1>10. QED
  BY <1>8, <1>9

\* Only a slot held by the renter is booked for them.
LEMMA ConfirmKeepsPromise ==
    ASSUME TypeOK, NEW i \in SlotId, NEW r \in Renter, NEW b \in BookingRef, Confirm(i, r, b)
    PROVE  Promise!Book(i, r, b)
<1>1. i \in DOMAIN slots /\ slots[i] \in SlotRecord /\ now' = now
  BY DEF TypeOK, Confirm, Get
<1>2. DOMAIN slots' = DOMAIN slots /\ \A j \in DOMAIN slots : j # i => slots'[j] = slots[j]
  BY <1>1, UpdateChanges DEF Confirm
<1>3. slots'[i] = [slots[i] EXCEPT !.bookingId = b, !.lockedUntil = NoLock]
  BY <1>1 DEF Confirm
<1>4. StateOf(slots'[i], now) = [is |-> "booked", by |-> r, booking |-> b]
  <2>1. slots'[i].bookingId = b /\ slots'[i].reservedBy = r
    BY <1>1, <1>3 DEF Confirm, SlotRecord
  <2>2. b # NoBooking
    BY SlotAssumption DEF NoBooking
  <2>3. QED
    BY <2>1, <2>2 DEF StateOf
<1>5. SlotState' = [SlotState EXCEPT ![i] = [is |-> "booked", by |-> r, booking |-> b]]
  BY <1>1, <1>2, <1>4, OneStateChanges
<1>6. SlotState[i] = [is |-> "held", by |-> r]
  <2>1. /\ slots[i].bookingId = NoBooking
        /\ slots[i].reservedBy = r
        /\ slots[i].lockedUntil > now
    BY DEF Confirm, Locked
  <2>2. QED
    BY <1>1, <2>1, SlotStateOf DEF StateOf
<1>7. QED
  BY <1>5, <1>6 DEF Promise!Book, Promise!Held, Promise!Booked

\* When time passes, some of the slots held become free, and nothing else changes.
LEMMA TickKeepsPromise ==
    ASSUME TypeOK, Tick
    PROVE  \E I \in SUBSET {i \in DOMAIN SlotState : SlotState[i].is = "held"} :
              Promise!Expire(I)
<1> DEFINE Over == {i \in DOMAIN slots : /\ slots[i].bookingId = NoBooking
                                         /\ slots[i].lockedUntil > now
                                         /\ ~ (slots[i].lockedUntil > now')}
<1>1. slots' = slots /\ now' = now + 1 /\ now \in Int
  BY SlotAssumption DEF TypeOK, Tick
<1>2. \A i \in DOMAIN slots : slots[i].lockedUntil \in Int
  BY SlotAssumption DEF TypeOK, SlotRecord, NoLock
<1>3. ASSUME NEW i \in DOMAIN slots
      PROVE  StateOf(slots[i], now') = IF i \in Over THEN [is |-> "free"]
                                       ELSE StateOf(slots[i], now)
  BY <1>1, <1>2 DEF StateOf
<1>4. Over \in SUBSET {i \in DOMAIN SlotState : SlotState[i].is = "held"}
  <2>1. ASSUME NEW i \in Over
        PROVE  i \in DOMAIN SlotState /\ SlotState[i].is = "held"
    <3>1. i \in DOMAIN SlotState /\ SlotState[i] = [is |-> "held", by |-> slots[i].reservedBy]
      BY SlotStateOf DEF StateOf
    <3>2. QED
      BY <3>1
  <2>2. HIDE DEF Over
  <2>3. QED
    BY <2>1
<1>5. SlotState' = [i \in DOMAIN SlotState |-> IF i \in Over THEN [is |-> "free"]
                                               ELSE SlotState[i]]
  BY <1>1, <1>3, SlotStateOf
<1>6. Promise!Expire(Over)
  BY <1>5 DEF Promise!Expire, Promise!Free
<1>7. QED
  BY <1>4, <1>6

LEMMA StepKeepsPromise == TypeOK /\ [Next]_vars => [Promise!Next]_SlotState
<1> SUFFICES ASSUME TypeOK, [Next]_vars
             PROVE  Promise!Next \/ UNCHANGED SlotState
  OBVIOUS
<1>1. ASSUME NEW i \in SlotId, NEW p \in Property, NEW start \in Times, NEW end \in Times,
             Create(i, p, start, end)
      PROVE  Promise!Next
  BY <1>1, CreateKeepsPromise DEF Promise!Next
<1>2. ASSUME NEW i \in SlotId, NEW r \in Renter, Reserve(i, r)
      PROVE  Promise!Next \/ UNCHANGED SlotState
  <2>1. i \in DOMAIN SlotState
    BY <1>2, SlotStateOf DEF Reserve, Get
  <2>2. QED
    BY <1>2, <2>1, ReserveKeepsPromise DEF Promise!Next
<1>3. ASSUME NEW i \in SlotId, NEW r \in Renter, NEW b \in BookingRef, Confirm(i, r, b)
      PROVE  Promise!Next
  <2>1. i \in DOMAIN SlotState
    BY <1>3, SlotStateOf DEF Confirm, Get
  <2>2. QED
    BY <1>3, <2>1, ConfirmKeepsPromise DEF Promise!Next
<1>4. CASE Tick
  BY <1>4, TickKeepsPromise DEF Promise!Next
<1>5. CASE UNCHANGED vars
  BY <1>5, SlotStateOf DEF vars
<1>6. QED
  BY <1>1, <1>2, <1>3, <1>4, <1>5 DEF Next

\* Locks that run out and are renewed implement the promise of one holder at a time,
\* for any number of slots, renters and bookings.
THEOREM SlotPromiseKept == Spec => KeepsTheSlotPromise
<1>1. Init => Promise!Init
  BY SlotStateOf DEF Init, Promise!Init
<1>2. QED
  BY <1>1, TypeCorrect, StepKeepsPromise, PTL
     DEF Spec, KeepsTheSlotPromise, Promise!Spec
=============================================================================
