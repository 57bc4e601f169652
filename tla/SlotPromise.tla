----------------------------- MODULE SlotPromise -----------------------------
(***************************************************************************)
(* What reserving a viewing slot promises, with no locks and no clock: a   *)
(* slot is free, held by one renter or booked.  Nobody takes it from who   *)
(* holds it, only a holder books it, and a booked slot stays booked.       *)
(***************************************************************************)
CONSTANTS SlotId, Renter, BookingRef

VARIABLE state    \* of each slot that exists

Free == [is |-> "free"]
Held(r) == [is |-> "held", by |-> r]
Booked(r, b) == [is |-> "booked", by |-> r, booking |-> b]

Init == state = [i \in {} |-> Free]

Add(i) ==
    /\ i \notin DOMAIN state
    /\ state' = [j \in DOMAIN state \cup {i} |-> IF j = i THEN Free ELSE state[j]]

Take(i, r) == state[i] = Free /\ state' = [state EXCEPT ![i] = Held(r)]

\* Time passes and some of the slots held become free.
Expire(I) == state' = [i \in DOMAIN state |-> IF i \in I THEN Free ELSE state[i]]

Book(i, r, b) == state[i] = Held(r) /\ state' = [state EXCEPT ![i] = Booked(r, b)]

Next ==
    \/ \E i \in SlotId : Add(i)
    \/ \E i \in DOMAIN state, r \in Renter :
          Take(i, r) \/ \E b \in BookingRef : Book(i, r, b)
    \/ \E I \in SUBSET {i \in DOMAIN state : state[i].is = "held"} : Expire(I)

Spec == Init /\ [][Next]_state
=============================================================================
