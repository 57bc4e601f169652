----------------------- MODULE EscrowContract_proofs -----------------------
(***************************************************************************)
(* What holds of the escrow contract for any number of bookings, accounts  *)
(* and tokens, any bounds on deposits, and any lives of storage entries.   *)
(***************************************************************************)
EXTENDS EscrowContract, WellFoundedInduction, TLAPS

\* A booking is only ever written once the accepted asset is set.
AssetIsSet == DOMAIN bookings # {} => asset # NoAsset

Typed == TypeOK /\ AssetIsSet

----------------------------------------------------------------------------
(***************************************************************************)
(* What the helpers of the contract do to the types.                       *)
(***************************************************************************)
\* Extending a life gives a life.
LEMMA ExtendedType ==
    ASSUME TypeOK, NEW until \in Nat
    PROVE  /\ Extended(until) \in Nat
           /\ Extended(until) >= until
           /\ Extended(until) > now + TtlThreshold
BY ConstantsAssumption DEF TypeOK, Extended

\* Keeping an entry alive gives lives to all.
LEMMA KeepAliveType ==
    ASSUME TypeOK, NEW b \in BookingId, KeepAlive(b)
    PROVE  /\ liveUntil' \in [BookingId -> Nat]
           /\ liveUntil'[b] > now + TtlThreshold
           /\ \A c \in BookingId : liveUntil'[c] >= liveUntil[c]
<1>1. liveUntil[b] \in Nat  BY DEF TypeOK
<1>2. /\ Extended(liveUntil[b]) \in Nat
      /\ Extended(liveUntil[b]) >= liveUntil[b]
      /\ Extended(liveUntil[b]) > now + TtlThreshold  BY <1>1, ExtendedType
<1> QED  BY <1>1, <1>2 DEF TypeOK, KeepAlive

\* A token transfer leaves every balance a natural number.
LEMMA TransferType ==
    ASSUME TypeOK, NEW from \in Holder, NEW to \in Holder \ {from}, NEW amount \in Nat,
           asset \in Asset, Transfer(from, to, amount)
    PROVE  balance' \in [Asset -> [Holder -> Nat]]
<1>1. balance \in [Asset -> [Holder -> Nat]]  BY DEF TypeOK
<1>2. balance[asset][from] - amount \in Nat /\ balance[asset][to] + amount \in Nat
  BY <1>1 DEF Transfer
<1> QED  BY <1>1, <1>2 DEF Transfer

\* A published event is appended to the record.
LEMMA PublishType ==
    ASSUME TypeOK, NEW event \in Event, NEW b \in BookingId, NEW amount \in Int,
           NEW by \in Account, Publish(event, b, amount, by)
    PROVE  /\ txs' \in Seq(Tx)
           /\ Len(txs') = Len(txs) + 1
           /\ \A i \in 1 .. Len(txs) : txs'[i] = txs[i]
           /\ txs'[Len(txs')] = [event |-> event, booking_id |-> b, amount |-> amount,
                                 by |-> by, at |-> now]
<1> DEFINE tx == [event |-> event, booking_id |-> b, amount |-> amount, by |-> by, at |-> now]
<1>1. tx \in Tx  BY ConstantsAssumption DEF TypeOK, Tx
<1>2. txs \in Seq(Tx)  BY DEF TypeOK
<1>3. txs' = Append(txs, tx)  BY DEF Publish
<1> HIDE DEF tx
<1>4. txs' \in Seq(Tx) /\ Len(txs') = Len(txs) + 1 /\ txs'[Len(txs) + 1] = tx
      /\ \A i \in 1 .. Len(txs) : txs'[i] = txs[i]
  BY <1>1, <1>2, <1>3
<1> QED  BY <1>4 DEF tx

\* A settled state written to an entry keeps the bookings typed and their terms.
LEMMA SetStateType ==
    ASSUME TypeOK, NEW b \in DOMAIN bookings, NEW state \in BookingState,
           SetState(b, state)
    PROVE  /\ DOMAIN bookings' = DOMAIN bookings
           /\ bookings' \in [DOMAIN bookings' -> Booking]
           /\ \A c \in DOMAIN bookings : c # b => bookings'[c] = bookings[c]
           /\ bookings'[b] = [bookings[b] EXCEPT !.state = state]
<1>1. bookings[b] \in Booking  BY DEF TypeOK
<1>2. [bookings[b] EXCEPT !.state = state] \in Booking  BY <1>1 DEF Booking
<1>3. bookings' = [bookings EXCEPT ![b] = [bookings[b] EXCEPT !.state = state]]
  BY DEF SetState
<1>4. bookings \in [DOMAIN bookings -> Booking]  BY DEF TypeOK
<1> QED  BY <1>2, <1>3, <1>4

----------------------------------------------------------------------------
(***************************************************************************)
(* Type correctness.                                                       *)
(***************************************************************************)
\* Every call leaves storage, balances and record with their types.
LEMMA CallTyped ==
    ASSUME Typed, NEW b \in BookingId, Call(b)
    PROVE  Typed'
<1> USE DEF Typed
<1>1. ASSUME NEW renter \in Account, NEW host \in Account, NEW amount \in OfferedDeposit,
             NEW visit \in OfferedVisit, CreateBooking(b, renter, host, amount, visit)
      PROVE  Typed'
  <2> USE <1>1 DEF CreateBooking
  <2> DEFINE new == [renter |-> renter, host |-> host, deposit_amount |-> amount,
                     visit_time |-> visit, state |-> "Created"]
  <2>1. new \in Booking  BY ConstantsAssumption DEF Booking, BookingState
  <2>2. /\ DOMAIN bookings' = DOMAIN bookings \cup {b}
        /\ bookings' = [c \in DOMAIN bookings \cup {b} |-> IF c = b THEN new ELSE bookings[c]]
    OBVIOUS
  <2> HIDE DEF new
  <2>3. bookings' \in [DOMAIN bookings' -> Booking]  BY <2>1, <2>2 DEF TypeOK
  <2>4. Extended(now + NetworkTtl - 1) \in Nat
    <3>1. now + NetworkTtl - 1 \in Nat
      BY ConstantsAssumption DEF TypeOK
    <3>2. QED
      BY <3>1, ExtendedType
  <2>5. liveUntil' \in [BookingId -> Nat]  BY <2>4 DEF TypeOK
  <2>6. txs' \in Seq(Tx)
    BY PublishType, ConstantsAssumption DEF Event
  <2> QED  BY <2>2, <2>3, <2>5, <2>6 DEF TypeOK, AssetIsSet, Initialized
<1>2. CASE GetBooking(b)
  BY <1>2, KeepAliveType DEF GetBooking, TypeOK, AssetIsSet
<1>3. ASSUME read_booking(b), NEW from \in Holder, NEW to \in Holder \ {from},
             NEW state \in BookingState, NEW event \in Event, NEW by \in Account,
             \/ Transfer(from, to, bookings[b].deposit_amount)
             \/ UNCHANGED balance,
             SetState(b, state), Publish(event, b, bookings[b].deposit_amount, by),
             UNCHANGED <<asset, instanceUntil, now>>
      PROVE  Typed'
  <2>1. b \in DOMAIN bookings  BY <1>3 DEF read_booking, EntryLive
  <2>2. bookings[b].deposit_amount \in Nat /\ bookings[b].deposit_amount \in Int
    BY <2>1, ConstantsAssumption DEF TypeOK, Booking
  <2>3. asset \in Asset  BY <2>1 DEF TypeOK, AssetIsSet
  <2>4. balance' \in [Asset -> [Holder -> Nat]]
    BY <1>3, <2>2, <2>3, TransferType DEF TypeOK
  <2>5. txs' \in Seq(Tx)  BY <1>3, <2>2, PublishType
  <2>6. DOMAIN bookings' = DOMAIN bookings /\ bookings' \in [DOMAIN bookings' -> Booking]
    BY <1>3, <2>1, SetStateType
  <2>7. liveUntil' \in [BookingId -> Nat]  BY <1>3, KeepAliveType DEF SetState
  <2> QED  BY <1>3, <2>4, <2>5, <2>6, <2>7 DEF TypeOK, AssetIsSet
<1> HIDE DEF Typed
<1>4. ASSUME NEW caller \in Account, FundBooking(caller, b)
      PROVE  Typed'
  BY <1>3, <1>4, ConstantsAssumption DEF FundBooking, Holder, BookingState, Event
<1>5. ASSUME NEW caller \in Account, CancelBooking(caller, b)
      PROVE  Typed'
  BY <1>3, <1>5, ConstantsAssumption DEF CancelBooking, Holder, BookingState, Event
<1>6. ASSUME NEW caller \in Account, ConfirmVisit(caller, b)
      PROVE  Typed'
  <2>1. bookings[b].renter \in Account
    BY <1>6 DEF ConfirmVisit, read_booking, EntryLive, Typed, TypeOK, Booking
  <2> QED
    BY <1>3, <1>6, <2>1, ConstantsAssumption DEF ConfirmVisit, Holder, BookingState, Event
<1> QED  BY <1>1, <1>2, <1>4, <1>5, <1>6 DEF Call, Create

\* So does everything else the ledger does.
LEMMA StepTyped == Typed /\ [Next]_vars => Typed'
<1> SUFFICES ASSUME Typed, [Next]_vars  PROVE Typed'
  OBVIOUS
<1> USE DEF Typed
<1>1. ASSUME NEW a \in Asset, Initialize(a)  PROVE Typed'
  <2>1. Extended(instanceUntil) \in Nat  BY ExtendedType DEF TypeOK
  <2> QED  BY <1>1, <2>1, ConstantsAssumption DEF Initialize, TypeOK, AssetIsSet
<1>2. ASSUME NEW b \in BookingId, Call(b)  PROVE Typed'
  BY <1>2, CallTyped
<1>3. CASE CloseLedger
  BY <1>3, ConstantsAssumption DEF CloseLedger, storage, TypeOK, AssetIsSet
<1>4. CASE RestoreInstance
  BY <1>4, ConstantsAssumption DEF RestoreInstance, TypeOK, AssetIsSet
<1>5. ASSUME NEW b \in BookingId, RestoreBooking(b)  PROVE Typed'
  BY <1>5, ConstantsAssumption DEF RestoreBooking, TypeOK, AssetIsSet
<1>6. ASSUME NEW a \in Asset, NEW from \in Account, NEW to \in Holder, NEW amount \in SentAmount,
             SendTokens(a, from, to, amount)
      PROVE  Typed'
  <2>1. amount \in Nat /\ from \in Holder  BY ConstantsAssumption DEF Holder
  <2>2. balance[a][from] - amount \in Nat /\ balance[a][to] + amount \in Nat
    BY <1>6, <2>1 DEF SendTokens, TypeOK
  <2>3. balance' \in [Asset -> [Holder -> Nat]]
    BY <1>6, <2>1, <2>2 DEF SendTokens, TypeOK
  <2> QED  BY <1>6, <2>3 DEF SendTokens, storage, TypeOK, AssetIsSet
<1>7. CASE UNCHANGED vars
  BY <1>7 DEF vars, TypeOK, AssetIsSet
<1> QED
  BY <1>1, <1>2, <1>3, <1>4, <1>5, <1>6, <1>7 DEF Next, Network

\* The contract's storage, the balances and the record of events keep their types,
\* and no booking exists before the accepted asset is set, whatever is called.
THEOREM TypeCorrect == Spec => [](TypeOK /\ AssetIsSet)
<1>1. Init => Typed
  BY ConstantsAssumption DEF Init, Typed, TypeOK, AssetIsSet
<1> QED  BY <1>1, StepTyped, PTL DEF Spec, Typed

----------------------------------------------------------------------------
(***************************************************************************)
(* What was agreed stays, and a settled booking stays settled.             *)
(***************************************************************************)
\* The three calls that move a booking on, seen alike: the booking's state
\* before and after, the event and the account it is published for.
MovesOn(b, old, new, event, by) ==
    /\ read_booking(b)
    /\ bookings[b].state \in old
    /\ SetState(b, new)
    /\ Publish(event, b, bookings[b].deposit_amount, by)
    /\ asset' = asset

\* Each of them is such a move, made for the right account at the right time.
LEMMA CallMovesOn ==
    ASSUME NEW b \in BookingId, NEW caller \in Account
    PROVE  /\ FundBooking(caller, b) =>
                 /\ MovesOn(b, {"Created"}, "Funded", "BookingFunded", caller)
                 /\ caller = bookings[b].renter
           /\ CancelBooking(caller, b) =>
                 /\ MovesOn(b, {"Created", "Funded"}, "Refunded", "DepositRefunded", caller)
                 /\ caller = bookings[b].renter
                 /\ now < bookings[b].visit_time
           /\ ConfirmVisit(caller, b) =>
                 /\ MovesOn(b, {"Funded"}, "Released", "VisitConfirmed", caller)
                 /\ caller = bookings[b].host
                 /\ now >= bookings[b].visit_time
BY DEF MovesOn, FundBooking, CancelBooking, ConfirmVisit

\* A step is a new booking, a booking that moves on, or neither.
Quiet == UNCHANGED <<bookings, txs>> /\ (asset # NoAsset => asset' = asset)

\* Every step of the ledger is of one of five kinds.
LEMMA StepKinds ==
    ASSUME Typed, [Next]_vars
    PROVE  \/ Quiet
           \/ \E b \in BookingId : Create(b)
           \/ \E b \in BookingId, caller \in Account :
                 FundBooking(caller, b) \/ CancelBooking(caller, b) \/ ConfirmVisit(caller, b)
BY DEF Next, Call, Network, Initialize, GetBooking, CloseLedger, storage, RestoreInstance,
       RestoreBooking, SendTokens, vars, Quiet

\* A booking that moves on keeps its terms, and so do the others.
LEMMA MovesOnFinal ==
    ASSUME Typed, NEW b \in BookingId, NEW old \in SUBSET {"Created", "Funded"},
           NEW new \in BookingState, NEW event \in Event, NEW by \in Account,
           MovesOn(b, old, new, event, by)
    PROVE  TermsAreFinal
<1>1. b \in DOMAIN bookings  BY DEF MovesOn, read_booking, EntryLive
<1>2. /\ DOMAIN bookings' = DOMAIN bookings
      /\ \A c \in DOMAIN bookings : c # b => bookings'[c] = bookings[c]
      /\ bookings'[b] = [bookings[b] EXCEPT !.state = new]
  BY <1>1, SetStateType DEF MovesOn, Typed
<1>3. \A c \in DOMAIN bookings : bookings[c] \in Booking  BY DEF Typed, TypeOK
<1>4. \A c \in DOMAIN bookings : bookings[c] = [bookings[c] EXCEPT !.state = bookings[c].state]
  BY <1>3 DEF Booking
<1>5. bookings'[b].state = new  BY <1>1, <1>2, <1>3 DEF Booking
<1>6. bookings[b].state \notin {"Refunded", "Released"}  BY DEF MovesOn
<1> QED  BY <1>1, <1>2, <1>4, <1>5, <1>6 DEF TermsAreFinal, MovesOn

\* No step changes what was agreed.
LEMMA StepFinal == Typed /\ [Next]_vars => TermsAreFinal
<1> SUFFICES ASSUME Typed, [Next]_vars  PROVE TermsAreFinal
  OBVIOUS
<1>0. \A c \in DOMAIN bookings : bookings[c] = [bookings[c] EXCEPT !.state = bookings[c].state]
  BY DEF Typed, TypeOK, Booking
<1>1. CASE Quiet
  BY <1>0, <1>1 DEF Quiet, TermsAreFinal
<1>2. ASSUME NEW b \in BookingId, Create(b)  PROVE TermsAreFinal
  <2>1. PICK new : /\ b \notin DOMAIN bookings
                   /\ bookings' = [c \in DOMAIN bookings \cup {b} |-> IF c = b THEN new ELSE bookings[c]]
                   /\ asset' = asset
    BY <1>2 DEF Create, CreateBooking
  <2>2. \A c \in DOMAIN bookings : c \in DOMAIN bookings' /\ bookings'[c] = bookings[c]
    BY <2>1
  <2> QED  BY <1>0, <2>1, <2>2 DEF TermsAreFinal
<1>3. ASSUME NEW b \in BookingId, NEW caller \in Account,
             FundBooking(caller, b) \/ CancelBooking(caller, b) \/ ConfirmVisit(caller, b)
      PROVE  TermsAreFinal
  BY <1>3, CallMovesOn, MovesOnFinal DEF BookingState, Event
<1> QED  BY <1>1, <1>2, <1>3, StepKinds

\* The terms of a booking, a settled state and the accepted asset are final: no
\* call on this or any other booking changes them.
THEOREM TermsFinal == Spec => TermsStayFinal
<1>1. Typed /\ [Next]_vars => [TermsAreFinal]_vars
  BY StepFinal
<1>2. Spec => []Typed
  BY TypeCorrect DEF Typed
<1> QED  BY <1>1, <1>2, PTL DEF Spec, TermsStayFinal

----------------------------------------------------------------------------
(***************************************************************************)
(* The published events tell the state of every booking.                   *)
(***************************************************************************)
Faithful == Typed /\ EventsTellTheState /\ SettledByTheRightParty

\* What publishing one event adds to what was published.
LEMMA PublishedNext ==
    ASSUME txs \in Seq(Tx), NEW tx \in Tx, txs' = Append(txs, tx), NEW n, n = Len(txs) + 1
    PROVE  /\ \A c, x : Published(c, x)' <=>
                  Published(c, x) \/ (c = tx.booking_id /\ x = tx.event)
           /\ \A i \in DOMAIN txs : \A x : After(i, x) => After(i, x)'
           /\ \A x : Published(tx.booking_id, x) => After(n, x)'
           /\ DOMAIN txs' = DOMAIN txs \cup {n}
           /\ \A i \in DOMAIN txs : txs'[i] = txs[i] /\ i # n
           /\ txs'[n] = tx
<1>1. /\ n \in Nat \ {0} /\ DOMAIN txs = 1 .. n - 1 /\ DOMAIN txs' = 1 .. n
      /\ txs'[n] = tx
      /\ \A i \in DOMAIN txs : txs'[i] = txs[i]
  OBVIOUS
<1>2. DOMAIN txs' = DOMAIN txs \cup {n} /\ n \notin DOMAIN txs  BY <1>1
<1>3. \A c, x : Published(c, x)' <=> Published(c, x) \/ (c = tx.booking_id /\ x = tx.event)
  BY <1>1, <1>2 DEF Published
<1>4. \A i \in DOMAIN txs : \A x : After(i, x) => After(i, x)'
  BY <1>1 DEF After
<1>5. \A x : Published(tx.booking_id, x) => After(n, x)'
  BY <1>1 DEF After, Published
<1> QED  BY <1>1, <1>2, <1>3, <1>4, <1>5

\* The event a call publishes is well formed.
LEMMA PublishTx ==
    ASSUME TypeOK, NEW event \in Event, NEW b \in BookingId, NEW amount \in Int,
           NEW by \in Account, Publish(event, b, amount, by)
    PROVE  \E tx \in Tx :
              /\ txs' = Append(txs, tx)
              /\ tx.event = event /\ tx.booking_id = b /\ tx.amount = amount
              /\ tx.by = by /\ tx.at = now
<1>1. [event |-> event, booking_id |-> b, amount |-> amount, by |-> by, at |-> now] \in Tx
  BY ConstantsAssumption DEF TypeOK, Tx
<1> QED  BY <1>1 DEF Publish

\* Nothing published and nothing stored: nothing changes.
LEMMA QuietFaithful ==
    ASSUME Faithful, Quiet
    PROVE  EventsTellTheState' /\ SettledByTheRightParty'
<1>1. EventsTellTheState'
  BY DEF Faithful, Quiet, EventsTellTheState, Published
<1>2. SettledByTheRightParty'
  BY DEF Faithful, Quiet, SettledByTheRightParty, After
<1> QED  BY <1>1, <1>2

\* A new booking has no event yet but its own BookingCreated.
LEMMA CreateFaithful ==
    ASSUME Faithful, NEW b \in BookingId, Create(b)
    PROVE  EventsTellTheState' /\ SettledByTheRightParty'
<1>0. TypeOK /\ EventsTellTheState /\ SettledByTheRightParty  BY DEF Faithful, Typed
<1>1. PICK renter \in Account, host \in Account, amount \in OfferedDeposit, visit \in OfferedVisit :
         CreateBooking(b, renter, host, amount, visit)
  BY DEF Create
<1> DEFINE new == [renter |-> renter, host |-> host, deposit_amount |-> amount,
                   visit_time |-> visit, state |-> "Created"]
<1>2. /\ b \notin DOMAIN bookings /\ visit > now
      /\ bookings' = [c \in DOMAIN bookings \cup {b} |-> IF c = b THEN new ELSE bookings[c]]
      /\ Publish("BookingCreated", b, amount, renter)
  BY <1>1 DEF CreateBooking
<1>3. /\ new.renter = renter /\ new.deposit_amount = amount /\ new.visit_time = visit
      /\ new.state = "Created"
  OBVIOUS
<1> HIDE DEF new
<1>4. /\ DOMAIN bookings' = DOMAIN bookings \cup {b} /\ bookings'[b] = new
      /\ \A c \in DOMAIN bookings : bookings'[c] = bookings[c] /\ c # b
  BY <1>2
<1>5. \A x : ~Published(b, x)
  BY <1>0, <1>2 DEF EventsTellTheState, Published
<1>6. amount \in Int /\ "BookingCreated" \in Event
  BY ConstantsAssumption DEF Event
<1>7. PICK made \in Tx : /\ txs' = Append(txs, made)
                         /\ made.event = "BookingCreated" /\ made.booking_id = b
                         /\ made.amount = amount /\ made.by = renter /\ made.at = now
  BY <1>0, <1>2, <1>6, PublishTx
<1>12. PICK n : n = Len(txs) + 1  OBVIOUS
<1>8. /\ \A c, x : Published(c, x)' <=> Published(c, x) \/ (c = b /\ x = "BookingCreated")
      /\ \A i \in DOMAIN txs : \A x : After(i, x) => After(i, x)'
      /\ DOMAIN txs' = DOMAIN txs \cup {n}
      /\ \A i \in DOMAIN txs : txs'[i] = txs[i] /\ i # n
      /\ txs'[n].event = "BookingCreated" /\ txs'[n].booking_id = b
      /\ txs'[n].amount = amount /\ txs'[n].by = renter /\ txs'[n].at = now
  <2>1. txs \in Seq(Tx)  BY <1>0 DEF TypeOK
  <2> QED  BY <2>1, <1>7, <1>12, PublishedNext
<1>9. EventsTellTheState'
  <2>1. \A i, j \in DOMAIN txs' :
           txs'[i].booking_id = txs'[j].booking_id /\ txs'[i].event = txs'[j].event => i = j
    <3>1. \A i \in DOMAIN txs : txs[i].booking_id # b
      BY <1>0, <1>2 DEF EventsTellTheState
    <3> QED  BY <1>0, <1>8, <3>1 DEF EventsTellTheState
  <2>2. \A i \in DOMAIN txs' : /\ txs'[i].booking_id \in DOMAIN bookings'
                               /\ txs'[i].amount = bookings'[txs'[i].booking_id].deposit_amount
    BY <1>0, <1>3, <1>4, <1>8 DEF EventsTellTheState
  <2>3. \A c \in DOMAIN bookings' :
          LET is(state) == bookings'[c].state = state IN
          /\ Published(c, "BookingCreated")'
          /\ is("Created") => ~Published(c, "BookingFunded")'
          /\ is("Funded") => Published(c, "BookingFunded")'
          /\ Published(c, "DepositRefunded")' <=> is("Refunded")
          /\ Published(c, "VisitConfirmed")' <=> is("Released")
    BY <1>0, <1>3, <1>4, <1>5, <1>8 DEF EventsTellTheState
  <2> QED  BY <2>1, <2>2, <2>3 DEF EventsTellTheState
<1>10. SettledByTheRightParty'
  <2>1. \A i \in DOMAIN txs : bookings'[txs'[i].booking_id] = bookings[txs[i].booking_id]
    BY <1>0, <1>4, <1>8 DEF EventsTellTheState
  <2> SUFFICES ASSUME NEW i \in DOMAIN txs'
               PROVE  LET tx == txs'[i]
                          booking == bookings'[tx.booking_id]
                      IN  /\ tx.event = "VisitConfirmed" => tx.by = booking.host
                          /\ tx.event # "VisitConfirmed" => tx.by = booking.renter
                          /\ tx.event = "BookingFunded" => After(i, "BookingCreated")'
                          /\ tx.event = "DepositRefunded" => tx.at < booking.visit_time
                          /\ tx.event = "VisitConfirmed" =>
                                tx.at >= booking.visit_time /\ After(i, "BookingFunded")'
    BY DEF SettledByTheRightParty
  <2>2. CASE i \in DOMAIN txs
    BY <1>0, <1>8, <2>1, <2>2 DEF SettledByTheRightParty
  <2>3. CASE i = n
    BY <1>3, <1>4, <1>8, <2>3
  <2> QED  BY <1>8, <2>2, <2>3
<1> QED  BY <1>9, <1>10

\* A booking that moves on publishes the event of its new state, for the account
\* and at the time the new state asks for.
LEMMA MovesOnFaithful ==
    ASSUME Faithful, NEW b \in BookingId, NEW caller \in Account,
           NEW old \in SUBSET {"Created", "Funded"}, NEW new, NEW event,
           MovesOn(b, old, new, event, caller),
           \/ /\ old = {"Created"} /\ new = "Funded" /\ event = "BookingFunded"
              /\ caller = bookings[b].renter
           \/ /\ new = "Refunded" /\ event = "DepositRefunded"
              /\ caller = bookings[b].renter /\ now < bookings[b].visit_time
           \/ /\ old = {"Funded"} /\ new = "Released" /\ event = "VisitConfirmed"
              /\ caller = bookings[b].host /\ now >= bookings[b].visit_time
    PROVE  EventsTellTheState' /\ SettledByTheRightParty'
<1>1. TypeOK /\ EventsTellTheState /\ SettledByTheRightParty /\ txs \in Seq(Tx)
  BY DEF Faithful, Typed, TypeOK
<1>2. b \in DOMAIN bookings /\ bookings[b].state \in old
  BY DEF MovesOn, read_booking, EntryLive
<1>3. new \in BookingState /\ event \in Event  BY DEF BookingState, Event
<1>4. /\ bookings[b] \in Booking
      /\ bookings[b].deposit_amount \in Int
  BY <1>1, <1>2, ConstantsAssumption DEF TypeOK, Booking
<1>5. /\ DOMAIN bookings' = DOMAIN bookings
      /\ \A c \in DOMAIN bookings : c # b => bookings'[c] = bookings[c]
      /\ bookings'[b] = [bookings[b] EXCEPT !.state = new]
  BY <1>1, <1>2, <1>3, SetStateType DEF MovesOn
<1>6. /\ bookings'[b].state = new
      /\ \A c \in DOMAIN bookings : /\ bookings'[c].renter = bookings[c].renter
                                   /\ bookings'[c].host = bookings[c].host
                                   /\ bookings'[c].deposit_amount = bookings[c].deposit_amount
                                   /\ bookings'[c].visit_time = bookings[c].visit_time
  BY <1>2, <1>4, <1>5 DEF Booking
<1>7. PICK made \in Tx : /\ txs' = Append(txs, made)
                         /\ made.event = event /\ made.booking_id = b
                         /\ made.amount = bookings[b].deposit_amount
                         /\ made.by = caller /\ made.at = now
  BY <1>1, <1>3, <1>4, PublishTx DEF MovesOn
<1>8. PICK n : n = Len(txs) + 1  OBVIOUS
<1>9. /\ \A c, x : Published(c, x)' <=> Published(c, x) \/ (c = b /\ x = event)
      /\ \A i \in DOMAIN txs : \A x : After(i, x) => After(i, x)'
      /\ \A x : Published(b, x) => After(n, x)'
      /\ DOMAIN txs' = DOMAIN txs \cup {n}
      /\ \A i \in DOMAIN txs : txs'[i] = txs[i] /\ i # n
      /\ txs'[n] = made
  BY <1>1, <1>7, <1>8, PublishedNext
<1>10. ~Published(b, event)
  BY <1>1, <1>2 DEF EventsTellTheState
<1>11. EventsTellTheState'
  <2>1. \A i, j \in DOMAIN txs' :
           txs'[i].booking_id = txs'[j].booking_id /\ txs'[i].event = txs'[j].event => i = j
    BY <1>1, <1>7, <1>9, <1>10 DEF EventsTellTheState, Published
  <2>2. \A i \in DOMAIN txs' : /\ txs'[i].booking_id \in DOMAIN bookings'
                               /\ txs'[i].amount = bookings'[txs'[i].booking_id].deposit_amount
    BY <1>1, <1>2, <1>5, <1>6, <1>7, <1>9 DEF EventsTellTheState
  <2>3. \A c \in DOMAIN bookings' :
          LET is(state) == bookings'[c].state = state IN
          /\ Published(c, "BookingCreated")'
          /\ is("Created") => ~Published(c, "BookingFunded")'
          /\ is("Funded") => Published(c, "BookingFunded")'
          /\ Published(c, "DepositRefunded")' <=> is("Refunded")
          /\ Published(c, "VisitConfirmed")' <=> is("Released")
    <3> TAKE c \in DOMAIN bookings'
    <3>1. CASE c # b
      BY <1>1, <1>5, <1>9, <3>1 DEF EventsTellTheState
    <3>2. CASE c = b
      <4>1. /\ Published(b, "BookingCreated")
            /\ ~Published(b, "DepositRefunded") /\ ~Published(b, "VisitConfirmed")
        BY <1>1, <1>2 DEF EventsTellTheState
      <4> QED  BY <1>6, <1>9, <3>2, <4>1
    <3> QED  BY <3>1, <3>2
  <2> QED  BY <2>1, <2>2, <2>3 DEF EventsTellTheState
<1>12. SettledByTheRightParty'
  <2> SUFFICES ASSUME NEW i \in DOMAIN txs'
               PROVE  LET tx == txs'[i]
                          booking == bookings'[tx.booking_id]
                      IN  /\ tx.event = "VisitConfirmed" => tx.by = booking.host
                          /\ tx.event # "VisitConfirmed" => tx.by = booking.renter
                          /\ tx.event = "BookingFunded" => After(i, "BookingCreated")'
                          /\ tx.event = "DepositRefunded" => tx.at < booking.visit_time
                          /\ tx.event = "VisitConfirmed" =>
                                tx.at >= booking.visit_time /\ After(i, "BookingFunded")'
    BY DEF SettledByTheRightParty
  <2>1. CASE i \in DOMAIN txs
    <3>1. txs[i].booking_id \in DOMAIN bookings  BY <1>1, <2>1 DEF EventsTellTheState
    <3> QED  BY <1>1, <1>6, <1>9, <2>1, <3>1 DEF SettledByTheRightParty
  <2>2. CASE i = n
    <3>1. Published(b, "BookingCreated")
      BY <1>1, <1>2 DEF EventsTellTheState
    <3>2. old = {"Funded"} => Published(b, "BookingFunded")
      BY <1>1, <1>2 DEF EventsTellTheState
    <3> QED  BY <1>2, <1>6, <1>7, <1>9, <2>2, <3>1, <3>2
  <2> QED  BY <1>9, <2>1, <2>2
<1> QED  BY <1>11, <1>12

\* Every step keeps the record faithful to the storage.
LEMMA StepFaithful == Faithful /\ [Next]_vars => Faithful'
<1> SUFFICES ASSUME Faithful, [Next]_vars  PROVE Faithful'
  OBVIOUS
<1>1. Typed'  BY StepTyped DEF Faithful
<1>2. CASE Quiet
  BY <1>1, <1>2, QuietFaithful DEF Faithful
<1>3. ASSUME NEW b \in BookingId, Create(b)  PROVE Faithful'
  BY <1>1, <1>3, CreateFaithful DEF Faithful
<1>4. ASSUME NEW b \in BookingId, NEW caller \in Account,
             FundBooking(caller, b) \/ CancelBooking(caller, b) \/ ConfirmVisit(caller, b)
      PROVE  Faithful'
  BY <1>1, <1>4, CallMovesOn, MovesOnFaithful DEF Faithful
<1> QED  BY <1>2, <1>3, <1>4, StepKinds DEF Faithful

\* It is to begin with.
LEMMA InitFaithful == Init => Faithful
<1> SUFFICES ASSUME Init PROVE Faithful
  OBVIOUS
<1>1. DOMAIN bookings = {} /\ DOMAIN txs = {} /\ Typed
  BY ConstantsAssumption DEF Init, Typed, TypeOK, AssetIsSet
<1> QED  BY <1>1 DEF Faithful, EventsTellTheState, SettledByTheRightParty

\* The events a booking has published tell its state, and each of them was
\* authorised by the party, in the order and at the time the rules ask for: what
\* the API reads off the ledger can be trusted, for any number of bookings.
THEOREM EventsFaithful == Spec => [](EventsTellTheState /\ SettledByTheRightParty)
<1>1. Faithful => EventsTellTheState /\ SettledByTheRightParty
  BY DEF Faithful
<1> QED  BY <1>1, InitFaithful, StepFaithful, PTL DEF Spec

\* A deposit was settled only by the renter before the visit or by the host at or after it.
THEOREM SettledFairly == Spec => []SettledByTheRightParty
BY EventsFaithful, PTL

----------------------------------------------------------------------------
(***************************************************************************)
(* The lives of booking entries.                                           *)
(***************************************************************************)
\* No step shortens the life of a booking, and a publishing step prolongs it.
LivesLonger ==
    /\ \A c \in DOMAIN bookings : liveUntil'[c] >= liveUntil[c]
    /\ \/ txs' = txs
       \/ \E tx \in Tx : /\ txs' = Append(txs, tx)
                        /\ tx.at = now
                        /\ liveUntil'[tx.booking_id] > now + TtlThreshold

\* That is what every step does.
LEMMA LivesGrow ==
    ASSUME Typed, [Next]_vars
    PROVE  LivesLonger
<1> USE DEF Typed, LivesLonger
<1>0. \A c \in DOMAIN bookings : c \in BookingId /\ liveUntil[c] \in Nat
  BY DEF TypeOK
<1>1. ASSUME NEW b \in BookingId, Create(b)  PROVE LivesLonger
  <2>1. PICK renter \in Account, host \in Account, amount \in OfferedDeposit,
             visit \in OfferedVisit :
          CreateBooking(b, renter, host, amount, visit)
    BY <1>1 DEF Create
  <2>2. amount \in Int /\ "BookingCreated" \in Event  BY ConstantsAssumption DEF Event
  <2>3. PICK made \in Tx : txs' = Append(txs, made) /\ made.booking_id = b /\ made.at = now
    BY <2>1, <2>2, PublishTx DEF CreateBooking
  <2>4. Extended(now + NetworkTtl - 1) > now + TtlThreshold
    <3>1. now + NetworkTtl - 1 \in Nat
      BY ConstantsAssumption DEF TypeOK
    <3>2. QED
      BY <3>1, ExtendedType
  <2>5. /\ b \notin DOMAIN bookings
        /\ liveUntil' = [liveUntil EXCEPT ![b] = Extended(now + NetworkTtl - 1)]
    BY <2>1 DEF CreateBooking
  <2> QED  BY <1>0, <2>3, <2>4, <2>5 DEF TypeOK
<1>2. ASSUME NEW b \in BookingId, NEW caller \in Account,
             FundBooking(caller, b) \/ CancelBooking(caller, b) \/ ConfirmVisit(caller, b)
      PROVE  LivesLonger
  <2>1. PICK old \in SUBSET BookingState, new \in BookingState, event \in Event :
         MovesOn(b, old, new, event, caller)
    BY <1>2, CallMovesOn DEF Event, BookingState
  <2>2. bookings[b].deposit_amount \in Int
    BY <2>1, ConstantsAssumption DEF MovesOn, read_booking, EntryLive, TypeOK, Booking
  <2>3. PICK made \in Tx : txs' = Append(txs, made) /\ made.booking_id = b /\ made.at = now
    BY <2>1, <2>2, PublishTx DEF MovesOn
  <2>4. liveUntil'[b] > now + TtlThreshold /\ \A c \in BookingId : liveUntil'[c] >= liveUntil[c]
    BY <2>1, KeepAliveType DEF MovesOn, SetState
  <2> QED  BY <1>0, <2>3, <2>4
<1>3. ASSUME NEW b \in BookingId, GetBooking(b)  PROVE LivesLonger
  BY <1>0, <1>3, KeepAliveType DEF GetBooking
<1>4. ASSUME NEW b \in BookingId, RestoreBooking(b)  PROVE LivesLonger
  <2>1. now + NetworkTtl - 1 >= liveUntil[b]
    BY <1>4, ConstantsAssumption DEF RestoreBooking, EntryLive, TypeOK
  <2> QED  BY <1>0, <1>4, <2>1 DEF RestoreBooking, TypeOK
<1>5. CASE UNCHANGED <<liveUntil, txs>>
  BY <1>0, <1>5
<1> QED
  BY <1>1, <1>2, <1>3, <1>4, <1>5
  DEF Next, Call, Network, Initialize, CloseLedger, storage, RestoreInstance, SendTokens, vars

\* The entry of a booking outlives every call made on it by more than the
\* threshold, whatever other calls, archivals and restorations come between.
THEOREM EntriesOutliveCalls == Spec => []EntryOutlivesItsCalls
<1> DEFINE Inv == Faithful /\ EntryOutlivesItsCalls
<1>1. Init => Inv
  <2> SUFFICES ASSUME Init PROVE Inv
    OBVIOUS
  <2>1. DOMAIN bookings = {} /\ DOMAIN txs = {} /\ Typed
    BY ConstantsAssumption DEF Init, Typed, TypeOK, AssetIsSet
  <2> QED
    BY <2>1 DEF Faithful, EventsTellTheState, SettledByTheRightParty, EntryOutlivesItsCalls
<1>2. Inv /\ [Next]_vars => Inv'
  <2> SUFFICES ASSUME Inv, [Next]_vars  PROVE EntryOutlivesItsCalls'
    BY StepFaithful
  <2>1. /\ \A c \in DOMAIN bookings : c \in BookingId /\ liveUntil[c] \in Nat
        /\ \A c \in BookingId : liveUntil'[c] \in Nat
        /\ \A i \in DOMAIN txs : txs[i].booking_id \in DOMAIN bookings /\ txs[i].at \in Nat
        /\ txs \in Seq(Tx) /\ TtlThreshold \in Nat
    <3>1. TypeOK /\ TypeOK' /\ EventsTellTheState  BY StepTyped DEF Faithful, Typed
    <3>2. txs \in Seq(Tx)  BY <3>1 DEF TypeOK
    <3>3. \A i \in DOMAIN txs : txs[i] \in Tx  BY <3>2
    <3>4. \A i \in DOMAIN txs : txs[i].at \in Nat  BY <3>3 DEF Tx
    <3> QED  BY <3>1, <3>2, <3>4, ConstantsAssumption DEF TypeOK, EventsTellTheState
  <2>2. LivesLonger  BY LivesGrow DEF Faithful
  <2>3. \A i \in DOMAIN txs : liveUntil'[txs[i].booking_id] > txs[i].at + TtlThreshold
    BY <2>1, <2>2 DEF LivesLonger, EntryOutlivesItsCalls
  <2>4. CASE txs' = txs
    BY <2>3, <2>4 DEF EntryOutlivesItsCalls
  <2>5. ASSUME NEW tx \in Tx, txs' = Append(txs, tx), tx.at = now,
               liveUntil'[tx.booking_id] > now + TtlThreshold
        PROVE  EntryOutlivesItsCalls'
    BY <2>1, <2>3, <2>5 DEF EntryOutlivesItsCalls
  <2> QED  BY <2>2, <2>4, <2>5 DEF LivesLonger
<1>3. Inv => EntryOutlivesItsCalls
  OBVIOUS
<1> QED  BY <1>1, <1>2, <1>3, PTL DEF Spec

----------------------------------------------------------------------------
(***************************************************************************)
(* Solvency.  OwedUpTo is defined by recursion on the booking id, so the   *)
(* invariant carries a function that satisfies its equations: a step that  *)
(* changes what one booking is owed shifts that function from that booking *)
(* on, and any function that satisfies the equations is OwedUpTo.          *)
(***************************************************************************)
IsTotal(t) ==
    /\ t \in [0 .. MaxBooking -> Int]
    /\ t[0] = 0
    /\ \A n \in 1 .. MaxBooking : t[n] = t[n - 1] + Owed(n)

\* What the contract has to pay deposits back with.
Funds == IF asset = NoAsset THEN 0 ELSE balance[asset][Escrow]

Covered == \E t : IsTotal(t) /\ Funds >= t[MaxBooking]

\* A nonempty set of natural numbers has a least element.
LEMMA LeastNat ==
    ASSUME NEW S \in SUBSET Nat, S # {}
    PROVE  \E n \in S : \A m \in S : n <= m
<1>1. PICK n \in S : \A m \in S : <<m, n>> \notin OpToRel(<, Nat)
  BY NatLessThanWellFounded, WFMin
<1>2. \A m \in S : ~(m < n)
  BY <1>1, Zenon DEF OpToRel
<1>3. \A m \in S : n <= m
  <2> TAKE m \in S
  <2>1. m \in Nat /\ n \in Nat /\ ~(m < n)  BY <1>2
  <2> QED  BY <2>1
<1> QED  BY <1>3, Zenon

\* Whatever satisfies the equations of OwedUpTo is OwedUpTo.
LEMMA TotalIsOwedUpTo ==
    ASSUME NEW t, IsTotal(t)
    PROVE  OwedUpTo[MaxBooking] = t[MaxBooking]
<1> DEFINE D == 0 .. MaxBooking
           Eqn(g) == g = [n \in D |-> IF n = 0 THEN 0 ELSE g[n - 1] + Owed(n)]
<1>0. MaxBooking \in Nat  BY ConstantsAssumption
<1>1. Eqn(t)
  <2>1. \A n \in D : t[n] = IF n = 0 THEN 0 ELSE t[n - 1] + Owed(n)
    BY <1>0 DEF IsTotal
  <2> QED  BY <2>1 DEF IsTotal
<1>2. Eqn(OwedUpTo)
  <2>1. OwedUpTo = CHOOSE g : Eqn(g)  BY DEF OwedUpTo
  <2> HIDE DEF Eqn
  <2> QED  BY <1>1, <2>1
<1> DEFINE S == {n \in D : OwedUpTo[n] # t[n]}
<1>3. CASE S = {}
  BY <1>0, <1>3
<1>4. CASE S # {}
  <2>1. PICK n \in S : \A m \in S : n <= m
    <3>1. S \in SUBSET Nat  BY <1>0
    <3> HIDE DEF S
    <3> QED  BY <3>1, <1>4, LeastNat
  <2>2. n # 0  BY <1>0, <1>1, <1>2, <2>1
  <2>3. n - 1 \in D /\ n - 1 \notin S  BY <1>0, <2>1, <2>2
  <2>4. OwedUpTo[n - 1] = t[n - 1]  BY <2>3
  <2>5. OwedUpTo[n] = OwedUpTo[n - 1] + Owed(n) /\ t[n] = t[n - 1] + Owed(n)
    BY <1>0, <1>1, <1>2, <2>1, <2>2
  <2> QED  BY <2>1, <2>4, <2>5
<1> QED  BY <1>3, <1>4

\* Paying a deposit in or out moves exactly that much into or out of the contract.
LEMMA TransferFunds ==
    ASSUME Typed, asset \in Asset, NEW who \in Account, NEW amount \in Nat
    PROVE  /\ Transfer(who, Escrow, amount) =>
                  balance'[asset][Escrow] = balance[asset][Escrow] + amount
           /\ Transfer(Escrow, who, amount) =>
                  balance'[asset][Escrow] = balance[asset][Escrow] - amount
<1>1. balance \in [Asset -> [Holder -> Nat]] /\ who # Escrow /\ who \in Holder /\ Escrow \in Holder
  BY ConstantsAssumption DEF Typed, TypeOK, Holder
<1> QED  BY <1>1 DEF Transfer

\* What a step does to what is owed and to the funds: either nothing is owed that
\* was not before, and the funds do not shrink, or the debt for one booking and
\* the funds change alike.
Balanced ==
    \/ /\ \A c \in BookingId : Owed(c)' = Owed(c)
       /\ Funds' >= Funds
    \/ \E b \in BookingId, d \in Int :
          /\ \A c \in BookingId \ {b} : Owed(c)' = Owed(c)
          /\ Owed(b)' = Owed(b) + d
          /\ Funds' = Funds + d

\* Debts and funds have their types.
LEMMA FundsType == Typed => Funds \in Nat /\ \A c \in BookingId : Owed(c) \in Nat
<1> SUFFICES ASSUME Typed  PROVE Funds \in Nat /\ \A c \in BookingId : Owed(c) \in Nat
  OBVIOUS
<1>1. Funds \in Nat  BY DEF Funds, Typed, TypeOK, Holder
<1>2. \A c \in BookingId : Owed(c) \in Nat
  BY ConstantsAssumption DEF Owed, Typed, TypeOK, Booking
<1> QED  BY <1>1, <1>2

\* A call that moves a booking on moves its money with it.
LEMMA CallBalanced ==
    ASSUME Typed, NEW b \in BookingId, NEW caller \in Account,
           FundBooking(caller, b) \/ CancelBooking(caller, b) \/ ConfirmVisit(caller, b)
    PROVE  Balanced
<1> DEFINE amount == bookings[b].deposit_amount
<1>1. /\ b \in DOMAIN bookings /\ asset \in Asset /\ asset' = asset
      /\ bookings[b] \in Booking /\ amount \in Nat /\ amount \in Int /\ -amount \in Int
      /\ bookings[b].renter \in Account
  BY ConstantsAssumption DEF FundBooking, CancelBooking, ConfirmVisit, read_booking, EntryLive,
     Typed, TypeOK, AssetIsSet, Booking
<1>2. asset # NoAsset  BY <1>1, ConstantsAssumption
<1>3. ASSUME NEW new \in BookingState, SetState(b, new)
      PROVE  /\ \A c \in BookingId \ {b} : Owed(c)' = Owed(c)
             /\ Owed(b)' = IF new = "Funded" THEN amount ELSE 0
  <2>1. /\ DOMAIN bookings' = DOMAIN bookings
        /\ \A c \in DOMAIN bookings : c # b => bookings'[c] = bookings[c]
        /\ bookings'[b] = [bookings[b] EXCEPT !.state = new]
    BY <1>1, <1>3, SetStateType DEF Typed
  <2>2. bookings'[b].state = new /\ bookings'[b].deposit_amount = amount
    BY <1>1, <2>1 DEF Booking
  <2> QED  BY <1>1, <2>1, <2>2 DEF Owed
<1>4. Funds \in Nat /\ Funds = balance[asset][Escrow] /\ Funds' = balance'[asset][Escrow]
  BY <1>1, <1>2, FundsType DEF Funds
<1>5. CASE FundBooking(caller, b)
  <2>1. SetState(b, "Funded") /\ Transfer(caller, Escrow, amount) /\ Owed(b) = 0
    BY <1>1, <1>5 DEF FundBooking, Owed
  <2>2. Funds' = Funds + amount  BY <1>1, <1>4, <2>1, TransferFunds
  <2>3. /\ \A c \in BookingId \ {b} : Owed(c)' = Owed(c)
        /\ Owed(b)' = Owed(b) + amount
    BY <1>1, <1>3, <2>1 DEF BookingState
  <2> QED  BY <1>1, <2>2, <2>3 DEF Balanced
<1>6. ASSUME Transfer(Escrow, bookings[b].renter, amount), bookings[b].state = "Funded",
             NEW new \in {"Refunded", "Released"}, SetState(b, new)
      PROVE  Balanced
  <2>1. Funds' = Funds + -amount  BY <1>1, <1>4, <1>6, TransferFunds
  <2>2. Owed(b) = amount  BY <1>1, <1>6 DEF Owed
  <2>3. /\ \A c \in BookingId \ {b} : Owed(c)' = Owed(c)
        /\ Owed(b)' = Owed(b) + -amount
    BY <1>1, <1>3, <1>6, <2>2 DEF BookingState
  <2> QED  BY <1>1, <2>1, <2>3 DEF Balanced
<1>7. CASE CancelBooking(caller, b)
  <2>1. CASE bookings[b].state = "Funded"
    BY <1>6, <1>7, <2>1 DEF CancelBooking
  <2>2. CASE bookings[b].state = "Created"
    <3>1. SetState(b, "Refunded") /\ UNCHANGED balance /\ Owed(b) = 0
      BY <1>7, <2>2 DEF CancelBooking, Owed
    <3>2. \A c \in BookingId : Owed(c)' = Owed(c)
      BY <1>3, <3>1 DEF BookingState
    <3> QED  BY <1>4, <3>1, <3>2 DEF Balanced
  <2> QED  BY <1>7, <2>1, <2>2 DEF CancelBooking
<1>8. CASE ConfirmVisit(caller, b)
  BY <1>6, <1>8 DEF ConfirmVisit
<1> QED  BY <1>5, <1>7, <1>8

\* And so does every other step.
LEMMA StepBalanced == Typed /\ [Next]_vars => Balanced
<1> SUFFICES ASSUME Typed, [Next]_vars  PROVE Balanced
  OBVIOUS
<1>0. /\ balance \in [Asset -> [Holder -> Nat]] /\ Funds \in Nat /\ Escrow \in Holder
      /\ DOMAIN bookings # {} => asset # NoAsset
  BY FundsType DEF Typed, TypeOK, Holder, AssetIsSet
<1>1. ASSUME NEW a \in Asset, Initialize(a)  PROVE Balanced
  <2>1. /\ bookings' = bookings /\ balance' = balance
        /\ asset = NoAsset /\ asset' = a /\ a # NoAsset
    BY <1>1, ConstantsAssumption DEF Initialize
  <2>2. Funds' >= Funds  BY <1>0, <2>1 DEF Funds
  <2> QED  BY <2>1, <2>2 DEF Balanced, Owed
<1>2. ASSUME NEW b \in BookingId, Create(b)  PROVE Balanced
  <2>1. PICK new : /\ new.state = "Created" /\ b \notin DOMAIN bookings
                   /\ bookings' = [c \in DOMAIN bookings \cup {b} |->
                                     IF c = b THEN new ELSE bookings[c]]
                   /\ asset' = asset /\ balance' = balance
    BY <1>2 DEF Create, CreateBooking
  <2>2. \A c \in BookingId : Owed(c)' = Owed(c)  BY <2>1 DEF Owed
  <2>3. Funds' = Funds  BY <2>1 DEF Funds
  <2> QED  BY <1>0, <2>2, <2>3 DEF Balanced
<1>3. ASSUME NEW b \in BookingId, NEW caller \in Account,
             FundBooking(caller, b) \/ CancelBooking(caller, b) \/ ConfirmVisit(caller, b)
      PROVE  Balanced
  BY <1>3, CallBalanced
<1>4. ASSUME NEW a \in Asset, NEW from \in Account, NEW to \in Holder, NEW amount \in SentAmount,
             SendTokens(a, from, to, amount)
      PROVE  Balanced
  <2>1. bookings' = bookings /\ asset' = asset  BY <1>4 DEF SendTokens, storage
  <2>2. amount \in Nat /\ from # Escrow  BY ConstantsAssumption
  <2>3. \A c \in Asset : balance'[c][Escrow] >= balance[c][Escrow]
    BY <1>0, <1>4, <2>2 DEF SendTokens, Holder
  <2>4. asset # NoAsset => asset \in Asset  BY DEF Typed, TypeOK
  <2>5. Funds' >= Funds  BY <2>1, <2>3, <2>4 DEF Funds
  <2> QED  BY <2>1, <2>5 DEF Balanced, Owed
<1>5. CASE UNCHANGED <<bookings, asset, balance>>
  BY <1>0, <1>5 DEF Balanced, Owed, Funds
<1> QED
  BY <1>1, <1>2, <1>3, <1>4, <1>5
  DEF Next, Call, Network, GetBooking, CloseLedger, storage, RestoreInstance, RestoreBooking, vars

\* Debts that are covered stay covered.
LEMMA StepCovered == Typed /\ Covered /\ [Next]_vars => Covered'
<1> SUFFICES ASSUME Typed, Covered, [Next]_vars  PROVE Covered'
  OBVIOUS
<1>0. /\ MaxBooking \in Nat /\ Funds \in Nat /\ Funds' \in Nat
      /\ \A c \in BookingId : Owed(c) \in Nat /\ Owed(c)' \in Nat
  <2>1. Typed'  BY StepTyped
  <2>2. (Funds \in Nat /\ \A c \in BookingId : Owed(c) \in Nat)'  BY <2>1, FundsType, PTL
  <2> QED  BY <2>2, FundsType, ConstantsAssumption
<1>1. PICK t : IsTotal(t) /\ Funds >= t[MaxBooking]
  BY DEF Covered
<1>2. CASE /\ \A c \in BookingId : Owed(c)' = Owed(c)
           /\ Funds' >= Funds
  <2>1. IsTotal(t)'  BY <1>1, <1>2 DEF IsTotal, BookingId
  <2>2. Funds' >= t[MaxBooking]  BY <1>0, <1>1, <1>2 DEF IsTotal
  <2> QED  BY <2>1, <2>2 DEF Covered
<1>3. ASSUME NEW b \in BookingId, NEW d \in Int,
             \A c \in BookingId \ {b} : Owed(c)' = Owed(c),
             Owed(b)' = Owed(b) + d, Funds' = Funds + d
      PROVE  Covered'
  <2>1. PICK u : u = [n \in 0 .. MaxBooking |-> IF n >= b THEN t[n] + d ELSE t[n]]
    OBVIOUS
  <2>2. u \in [0 .. MaxBooking -> Int] /\ u[0] = 0
    BY <1>0, <1>1, <2>1 DEF IsTotal, BookingId
  <2>3. ASSUME NEW n \in 1 .. MaxBooking  PROVE u[n] = u[n - 1] + Owed(n)'
    <3>1. /\ n - 1 \in 0 .. MaxBooking /\ n \in 0 .. MaxBooking /\ n \in BookingId
          /\ t[n] = t[n - 1] + Owed(n) /\ t[n] \in Int /\ t[n - 1] \in Int /\ b \in Int
      BY <1>0, <1>1 DEF IsTotal, BookingId
    <3>2. Owed(n) \in Int /\ Owed(n)' \in Int  BY <1>0, <3>1
    <3>3. CASE n < b  BY <1>3, <2>1, <3>1, <3>2, <3>3
    <3>4. CASE n = b  BY <1>3, <2>1, <3>1, <3>2, <3>4
    <3>5. CASE n > b  BY <1>3, <2>1, <3>1, <3>2, <3>5
    <3> QED  BY <3>1, <3>3, <3>4, <3>5
  <2>4. IsTotal(u)'  BY <2>2, <2>3 DEF IsTotal
  <2>5. Funds' >= u[MaxBooking]
    BY <1>0, <1>1, <1>3, <2>1 DEF IsTotal, BookingId
  <2> QED  BY <2>4, <2>5 DEF Covered
<1> QED  BY <1>2, <1>3, StepBalanced DEF Balanced

\* The debts up to any booking cover the debt for it, and so do those for all of them.
LEMMA TotalCoversEach ==
    ASSUME Typed, NEW t, IsTotal(t), NEW b \in BookingId
    PROVE  t[MaxBooking] >= Owed(b)
<1>0. MaxBooking \in Nat  BY ConstantsAssumption
<1>1. ASSUME NEW n \in 1 .. MaxBooking
      PROVE  t[n] = t[n - 1] + Owed(n) /\ Owed(n) \in Nat /\ t[n] \in Int /\ t[n - 1] \in Int
  BY <1>0, <1>1, FundsType DEF IsTotal, BookingId
<1> DEFINE Short == {n \in 0 .. MaxBooking : t[n] < 0 \/ (n >= b /\ t[n] < Owed(b))}
<1>2. CASE Short = {}
  <2>1. MaxBooking \in 0 .. MaxBooking /\ MaxBooking >= b /\ b \in 1 .. MaxBooking
    BY <1>0 DEF BookingId
  <2>2. t[MaxBooking] \in Int /\ Owed(b) \in Nat  BY <1>1, <2>1
  <2>3. ~(t[MaxBooking] < Owed(b))  BY <1>2, <2>1
  <2> QED  BY <2>2, <2>3
<1>3. CASE Short # {}
  <2>1. PICK n \in Short : \A m \in Short : n <= m
    <3>1. Short \in SUBSET Nat  BY <1>0
    <3> HIDE DEF Short
    <3> QED  BY <1>3, <3>1, LeastNat
  <2>2. n \in 1 .. MaxBooking /\ n - 1 \in 0 .. MaxBooking
    BY <1>0, <2>1 DEF IsTotal, BookingId
  <2>3. n - 1 \notin Short  BY <1>0, <2>1, <2>2
  <2>4. t[n - 1] \in Int /\ t[n - 1] >= 0 /\ (n - 1 >= b => t[n - 1] >= Owed(b))
    BY <1>1, <2>2, <2>3 DEF BookingId
  <2>5. n >= b => t[n] >= Owed(b)
    <3>1. /\ n \in Int /\ b \in Int /\ t[n] = t[n - 1] + Owed(n)
          /\ Owed(n) \in Nat /\ Owed(b) \in Nat
      BY <1>0, <1>1, <2>2 DEF BookingId
    <3>2. CASE n = b  BY <2>4, <3>1, <3>2
    <3>3. CASE n > b  BY <2>4, <3>1, <3>3
    <3> QED  BY <3>1, <3>2, <3>3
  <2>6. t[n] \in Int /\ Owed(b) \in Int /\ t[n] >= 0 /\ n \in Int /\ b \in Int
    BY <1>0, <1>1, <2>2, <2>4 DEF BookingId
  <2>7. n \notin Short  BY <2>5, <2>6
  <2> QED  BY <2>1, <2>7
<1> QED  BY <1>2, <1>3

\* Covered debts are what solvency takes, of all the deposits together and of each.
LEMMA CoveredIsSolvent == Covered => Solvent
BY TotalIsOwedUpTo DEF Covered, Funds, Solvent

\* Nothing is owed to begin with.
LEMMA InitCovered == Init => Typed /\ Covered
<1> SUFFICES ASSUME Init PROVE Typed /\ Covered
  OBVIOUS
<1>1. Typed  BY ConstantsAssumption DEF Init, Typed, TypeOK, AssetIsSet
<1>2. PICK t : t = [n \in 0 .. MaxBooking |-> 0]  OBVIOUS
<1>3. IsTotal(t)
  BY <1>2, ConstantsAssumption DEF IsTotal, Owed, Init
<1>4. Funds >= t[MaxBooking]
  BY <1>1, <1>2, ConstantsAssumption, FundsType
<1> QED  BY <1>1, <1>3, <1>4 DEF Covered

\* The contract can always pay back every deposit it holds: no sequence of
\* bookings, cancellations, confirmations, gifts and archivals, for any number of
\* bookings and any deposits, leaves it short.
THEOREM AlwaysSolvent == Spec => []Solvent
BY InitCovered, StepTyped, StepCovered, CoveredIsSolvent, PTL DEF Spec

\* A refund or a release is never refused for want of tokens: for every deposit held,
\* the contract has at least that much of the asset it pays back in.
EachDepositIsThere ==
    \A b \in DOMAIN bookings : bookings[b].state = "Funded" =>
        asset \in Asset /\ balance[asset][Escrow] >= bookings[b].deposit_amount

\* Of the debts that are covered, each is.
LEMMA CoveredIsThere == Typed /\ Covered => EachDepositIsThere
<1> SUFFICES ASSUME Typed, Covered, NEW b \in DOMAIN bookings, bookings[b].state = "Funded"
             PROVE  asset \in Asset /\ balance[asset][Escrow] >= bookings[b].deposit_amount
  BY DEF EachDepositIsThere
<1>1. asset \in Asset /\ asset # NoAsset /\ b \in BookingId /\ MaxBooking \in Nat
  BY ConstantsAssumption DEF Typed, TypeOK, AssetIsSet
<1>2. PICK t : IsTotal(t) /\ Funds >= t[MaxBooking]
  BY DEF Covered
<1>3. t[MaxBooking] >= Owed(b)
  BY <1>1, <1>2, TotalCoversEach, Zenon
<1>4. t[MaxBooking] \in Int
  BY <1>1, <1>2 DEF IsTotal
<1>5. Owed(b) = bookings[b].deposit_amount /\ Owed(b) \in Nat
  BY <1>1, FundsType DEF Owed
<1>6. Funds = balance[asset][Escrow] /\ Funds \in Nat
  BY <1>1, FundsType DEF Funds
<1> QED  BY <1>1, <1>2, <1>3, <1>4, <1>5, <1>6

\* Whatever is called, sent and archived, no deposit that was paid in is ever missing.
THEOREM DepositsAreThere == Spec => []EachDepositIsThere
BY InitCovered, StepTyped, StepCovered, CoveredIsThere, PTL DEF Spec
=============================================================================
