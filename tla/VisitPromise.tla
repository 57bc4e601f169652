---------------------------- MODULE VisitPromise ----------------------------
(***************************************************************************)
(* What the system as a whole promises renters and hosts, with no pages, no*)
(* API, no requests, no codes and no ledger of events in it.  Deposits move*)
(* as DepositPromise says, and more is promised than a contract can:       *)
(*  - a deposit is agreed for a booking, on the terms of the booking;      *)
(*  - it goes back on the host's word only after a check-in, for which the *)
(*    host has shown the renter a code;                                    *)
(*  - what is recorded of a booking has happened to its deposit.           *)
(* VisitDeposit implements this specification.                             *)
(***************************************************************************)
EXTENDS DepositPromise

CONSTANTS Booking,      \* the bookings that can be made
          DepositOf,    \* the deposit of each, an Id
          Viewing,      \* the viewings on offer
          HostOf,       \* who hosts each of them
          StartOf,      \* and when
          Asked         \* the deposits hosts may ask for

VARIABLES booked,       \* who booked which viewing for what deposit
          coded,        \* the bookings whose host has shown a code
          paid,         \* what became of the deposit of each booking
          recorded      \* what everybody is told of it

money == <<clock, currency, agreement, stage, wallet>>
allVars == <<money, booked, coded, paid, recorded>>

VisitInit ==
    /\ Init
    /\ booked = <<>>
    /\ coded = {}
    /\ paid = <<>>
    /\ recorded = <<>>

----------------------------------------------------------------------------
\* A viewing is booked, by one renter, and with a deposit of its own.
Book(b) ==
    /\ b \notin DOMAIN booked
    /\ \A other \in DOMAIN booked : DepositOf[other] # DepositOf[b]
    /\ \E renter \in Party, viewing \in Viewing, amount \in Asked :
          /\ renter # HostOf[viewing]
          /\ \A other \in DOMAIN booked : booked[other].viewing # viewing
          /\ booked' = With(booked, b, [renter |-> renter, viewing |-> viewing,
                                        amount |-> amount])
    /\ paid' = With(paid, b, "nothing")
    /\ recorded' = With(recorded, b, "PENDING_FUNDING")
    /\ UNCHANGED <<money, coded>>

\* The host shows a code.
ShowCode(b) ==
    /\ coded' = coded \cup {b}
    /\ UNCHANGED <<money, booked, paid, recorded>>

\* What the renter puts before the contract is what was booked.
TermsOf(b) == [renter |-> booked[b].renter, host |-> HostOf[booked[b].viewing],
               amount |-> booked[b].amount, visit |-> StartOf[booked[b].viewing]]
AgreeDeposit(b) ==
    /\ Agree(DepositOf[b])
    /\ agreement'[DepositOf[b]] = TermsOf(b)
    /\ UNCHANGED <<booked, coded, paid, recorded>>

\* The deposit moves, and counts as what it was moved for.
Becomes(b, what) ==
    /\ paid' = With(paid, b, what)
    /\ UNCHANGED <<booked, coded, recorded>>

MoveDeposit(b) ==
    /\ DepositOf[b] \in DOMAIN agreement
    /\ \/ Deposit(DepositOf[b]) /\ Becomes(b, "deposited")
       \/ CallOff(DepositOf[b]) /\ Becomes(b, "nothing")
       \/ TakeBack(DepositOf[b]) /\ Becomes(b, "refunded")
       \/ /\ recorded[b] = "CHECKED_IN"
          /\ GiveBack(DepositOf[b]) /\ Becomes(b, "released")

\* A booking is recorded to be further than it was, if it is.
Record(b, from, to) ==
    /\ recorded[b] = from
    /\ recorded' = With(recorded, b, to)
    /\ UNCHANGED <<money, booked, coded, paid>>

RecordDeposit(b) == paid[b] # "nothing" /\ Record(b, "PENDING_FUNDING", "FUNDED")
RecordRefund(b) == paid[b] = "refunded" /\ Record(b, "FUNDED", "REFUNDED")
CheckIn(b) == b \in coded /\ Record(b, "FUNDED", "CHECKED_IN")
RecordRelease(b) == paid[b] = "released" /\ Record(b, "CHECKED_IN", "COMPLETED")

\* Time passes, and what else is in a wallet is its owner's.
Elsewhere ==
    /\ ChooseCurrency \/ Tick \/ \E p \in Party : Spend(p)
    /\ UNCHANGED <<booked, coded, paid, recorded>>

VisitNext ==
    \/ \E b \in Booking : Book(b)
    \/ \E b \in DOMAIN booked :
          \/ ShowCode(b) \/ AgreeDeposit(b) \/ MoveDeposit(b)
          \/ RecordDeposit(b) \/ RecordRefund(b) \/ CheckIn(b) \/ RecordRelease(b)
    \/ Elsewhere

VisitSpec == VisitInit /\ [][VisitNext]_allVars
----------------------------------------------------------------------------
(***************************************************************************)
(* What follows from the promise.                                          *)
(***************************************************************************)
\* What counts as having become of a deposit is what is held, and it is held on the
\* terms of the booking.
PaidIsSo ==
    \A b \in DOMAIN booked :
        LET i == DepositOf[b] IN
        /\ i \in DOMAIN agreement => agreement[i] = TermsOf(b)
        /\ paid[b] = "deposited" <=> i \in DOMAIN agreement /\ stage[i] = "held"
        /\ paid[b] \in {"refunded", "released"} => stage[i] = "over"

\* What is recorded of a booking is so: no record is ahead of the deposit, a deposit is
\* released to nobody who has not checked in, and nobody checks in without a code.
RecordedIsSo ==
    \A b \in DOMAIN booked :
        /\ recorded[b] # "PENDING_FUNDING" => paid[b] # "nothing"
        /\ recorded[b] = "REFUNDED" => paid[b] = "refunded"
        /\ recorded[b] = "COMPLETED" => paid[b] = "released"
        /\ recorded[b] \in {"CHECKED_IN", "COMPLETED"} => b \in coded
        /\ paid[b] = "released" => recorded[b] \in {"CHECKED_IN", "COMPLETED"}
=============================================================================
