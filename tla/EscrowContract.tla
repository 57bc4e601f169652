--------------------------- MODULE EscrowContract ---------------------------
(***************************************************************************)
(* The Soroban contract VisitDepositEscrow                                 *)
(* (contracts/pov_deposit_escrow/src/lib.rs) on its ledger: the contract's *)
(* storage with its time to live, the balances of the payment assets, and  *)
(* the record of the transactions that published a contract event.         *)
(*                                                                         *)
(* A call that returns an error, or traps in a token transfer or an        *)
(* authorisation, leaves the ledger as it was, so only successful calls    *)
(* are steps.  The account a call is made for is the one whose             *)
(* authorisation the code requires.                                        *)
(***************************************************************************)
EXTENDS Integers, Sequences

CONSTANTS
    MaxBooking,     \* booking ids are 1 .. MaxBooking
    Account,        \* the addresses of renters and hosts
    Escrow,         \* the address of the contract itself
    Asset,          \* the tokens that can be the accepted asset
    NoAsset,        \* DataKey::Asset is not set
    MinDeposit,     \* MIN_DEPOSIT
    MaxDeposit,     \* MAX_DEPOSIT
    TtlThreshold,   \* TTL_THRESHOLD, in ledgers
    TtlExtendTo,    \* TTL_EXTEND_TO, in ledgers
    NetworkTtl,     \* the network's minimum life of a new or restored entry
    OfferedDeposit, \* the deposit_amount arguments callers try
    OfferedVisit,   \* the visit_time arguments callers try
    Supply,         \* what every account holds of every asset to begin with
    SentAmount,     \* the amounts accounts send for reasons of their own
    MaxTime         \* bound: the ledger clock stops here

BookingId == 1 .. MaxBooking

ASSUME ConstantsAssumption ==
    /\ MaxBooking \in Nat
    /\ Escrow \notin Account
    /\ NoAsset \notin Asset
    /\ MinDeposit \in Nat \ {0}
    /\ MaxDeposit \in Nat
    /\ TtlThreshold \in Nat
    /\ TtlExtendTo \in Nat
    /\ TtlThreshold < TtlExtendTo
    /\ NetworkTtl \in Nat \ {0}
    /\ OfferedDeposit \subseteq Int
    /\ OfferedVisit \subseteq Nat
    /\ Supply \in Nat
    /\ SentAmount \subseteq Nat
    /\ MaxTime \in Nat

VARIABLES
    asset,          \* instance storage, DataKey::Asset
    bookings,       \* persistent storage, DataKey::Booking(id): a function on the ids in use
    liveUntil,      \* the last ledger each booking entry is live at
    instanceUntil,  \* the last ledger the contract instance is live at
    balance,        \* token balances: asset -> holder -> amount
    now,            \* the ledger clock
    txs             \* the transactions that published a contract event, oldest first

storage == <<asset, bookings, liveUntil, instanceUntil>>
vars == <<asset, bookings, liveUntil, instanceUntil, balance, now, txs>>

Holder == Account \cup {Escrow}
BookingState == {"Created", "Funded", "Refunded", "Released"}
Booking == [renter : Account, host : Account,
            deposit_amount : MinDeposit .. MaxDeposit,
            visit_time : Nat, state : BookingState]

\* A published event with the account that authorised the call and the close
\* time of the ledger.  The index in txs stands for the transaction hash.
Event == {"BookingCreated", "BookingFunded", "DepositRefunded", "VisitConfirmed"}
Tx == [event : Event, booking_id : BookingId, amount : Int, by : Account, at : Nat]

Init ==
    /\ asset = NoAsset
    /\ bookings = [b \in {} |-> NoAsset]
    /\ liveUntil = [b \in BookingId |-> 0]
    /\ instanceUntil = NetworkTtl - 1
    /\ balance = [a \in Asset |-> [h \in Holder |-> IF h = Escrow THEN 0 ELSE Supply]]
    /\ now = 0
    /\ txs = <<>>

----------------------------------------------------------------------------
(***************************************************************************)
(* The host functions the contract calls                                   *)
(***************************************************************************)
\* extend_ttl: an entry within TTL_THRESHOLD of its end lives on for TTL_EXTEND_TO.
Extended(until) ==
    IF until - now <= TtlThreshold THEN now + TtlExtendTo ELSE until

\* A call needs the instance it runs and the entries it touches to be live.
InstanceLive == instanceUntil >= now
EntryLive(b) == b \in DOMAIN bookings /\ liveUntil[b] >= now

Transfer(from, to, amount) ==
    /\ balance[asset][from] >= amount
    /\ balance' = [balance EXCEPT ![asset][from] = @ - amount,
                                   ![asset][to] = @ + amount]

Publish(event, b, amount, by) ==
    txs' = Append(txs, [event |-> event, booking_id |-> b, amount |-> amount,
                        by |-> by, at |-> now])

(***************************************************************************)
(* The contract's helpers                                                  *)
(***************************************************************************)
\* asset(): the accepted asset, NotInitialized until initialize has run.
Initialized == InstanceLive /\ asset # NoAsset

\* read_booking finds the entry, and extends its life when the call succeeds.
read_booking(b) == InstanceLive /\ EntryLive(b)
\* Mutant: reading a booking does not extend its entry.
KeepAlive_never(b) == UNCHANGED liveUntil
KeepAlive(b) == liveUntil' = [liveUntil EXCEPT ![b] = Extended(@)]

\* write_booking on an entry read_booking found.
SetState(b, state) ==
    /\ bookings' = [bookings EXCEPT ![b].state = state]
    /\ KeepAlive(b)

----------------------------------------------------------------------------
(***************************************************************************)
(* The entry points                                                        *)
(***************************************************************************)
Initialize(accepted) ==
    /\ InstanceLive
    /\ asset = NoAsset
    /\ asset' = accepted
    /\ instanceUntil' = Extended(instanceUntil)
    /\ UNCHANGED <<bookings, liveUntil, balance, now, txs>>

\* Mutant: the upper bound on deposits is not checked.
CreateBooking_unbounded(b, renter, host, amount, visit) ==
    /\ Initialized
    /\ b \notin DOMAIN bookings
    /\ renter # host
    /\ amount >= MinDeposit
    /\ visit > now
    /\ bookings' = [c \in DOMAIN bookings \cup {b} |->
                      IF c = b
                      THEN [renter |-> renter, host |-> host, deposit_amount |-> amount,
                            visit_time |-> visit, state |-> "Created"]
                      ELSE bookings[c]]
    /\ liveUntil' = [liveUntil EXCEPT ![b] = Extended(now + NetworkTtl - 1)]
    /\ Publish("BookingCreated", b, amount, renter)
    /\ UNCHANGED <<asset, instanceUntil, balance, now>>

\* Mutant: a booking id that is in use is not refused.
CreateBooking_overwrites(b, renter, host, amount, visit) ==
    /\ Initialized
    /\ renter # host
    /\ amount \in MinDeposit .. MaxDeposit
    /\ visit > now
    /\ bookings' = [c \in DOMAIN bookings \cup {b} |->
                      IF c = b
                      THEN [renter |-> renter, host |-> host, deposit_amount |-> amount,
                            visit_time |-> visit, state |-> "Created"]
                      ELSE bookings[c]]
    /\ liveUntil' = [liveUntil EXCEPT ![b] = Extended(now + NetworkTtl - 1)]
    /\ Publish("BookingCreated", b, amount, renter)
    /\ UNCHANGED <<asset, instanceUntil, balance, now>>

CreateBooking(b, renter, host, amount, visit) ==
    /\ Initialized
    /\ b \notin DOMAIN bookings
    /\ renter # host
    /\ amount \in MinDeposit .. MaxDeposit
    /\ visit > now
    /\ bookings' = [c \in DOMAIN bookings \cup {b} |->
                      IF c = b
                      THEN [renter |-> renter, host |-> host, deposit_amount |-> amount,
                            visit_time |-> visit, state |-> "Created"]
                      ELSE bookings[c]]
    /\ liveUntil' = [liveUntil EXCEPT ![b] = Extended(now + NetworkTtl - 1)]
    /\ Publish("BookingCreated", b, amount, renter)
    /\ UNCHANGED <<asset, instanceUntil, balance, now>>

\* booking(): the getter, whose only effect is on the entry's time to live.
GetBooking(b) ==
    /\ read_booking(b)
    /\ KeepAlive(b)
    /\ UNCHANGED <<asset, bookings, instanceUntil, balance, now, txs>>

\* Mutant: the new state is not written.
FundBooking_unsaved(renter, b) ==
    /\ read_booking(b)
    /\ bookings[b].renter = renter
    /\ bookings[b].state = "Created"
    /\ Transfer(renter, Escrow, bookings[b].deposit_amount)
    /\ KeepAlive(b)
    /\ Publish("BookingFunded", b, bookings[b].deposit_amount, renter)
    /\ UNCHANGED <<asset, bookings, instanceUntil, now>>

FundBooking(renter, b) ==
    /\ read_booking(b)
    /\ bookings[b].renter = renter
    /\ bookings[b].state = "Created"
    /\ Transfer(renter, Escrow, bookings[b].deposit_amount)
    /\ SetState(b, "Funded")
    /\ Publish("BookingFunded", b, bookings[b].deposit_amount, renter)
    /\ UNCHANGED <<asset, instanceUntil, now>>

\* Mutant: a refund pays whether or not the booking was funded.
CancelBooking_paysAlways(renter, b) ==
    /\ read_booking(b)
    /\ bookings[b].renter = renter
    /\ bookings[b].state \in {"Created", "Funded"}
    /\ now < bookings[b].visit_time
    /\ Transfer(Escrow, renter, bookings[b].deposit_amount)
    /\ SetState(b, "Refunded")
    /\ Publish("DepositRefunded", b, bookings[b].deposit_amount, renter)
    /\ UNCHANGED <<asset, instanceUntil, now>>

\* Mutant: only a released booking is refused, so one can be cancelled twice.
CancelBooking_again(renter, b) ==
    /\ read_booking(b)
    /\ bookings[b].renter = renter
    /\ bookings[b].state # "Released"
    /\ now < bookings[b].visit_time
    /\ IF bookings[b].state = "Funded"
       THEN Transfer(Escrow, renter, bookings[b].deposit_amount)
       ELSE UNCHANGED balance
    /\ SetState(b, "Refunded")
    /\ Publish("DepositRefunded", b, bookings[b].deposit_amount, renter)
    /\ UNCHANGED <<asset, instanceUntil, now>>

\* Mutant: the visit time itself is still early enough to cancel.
CancelBooking_late(renter, b) ==
    /\ read_booking(b)
    /\ bookings[b].renter = renter
    /\ bookings[b].state \in {"Created", "Funded"}
    /\ now <= bookings[b].visit_time
    /\ IF bookings[b].state = "Funded"
       THEN Transfer(Escrow, renter, bookings[b].deposit_amount)
       ELSE UNCHANGED balance
    /\ SetState(b, "Refunded")
    /\ Publish("DepositRefunded", b, bookings[b].deposit_amount, renter)
    /\ UNCHANGED <<asset, instanceUntil, now>>

\* The event names the full deposit even when there was none to give back.
CancelBooking(renter, b) ==
    /\ read_booking(b)
    /\ bookings[b].renter = renter
    /\ bookings[b].state \in {"Created", "Funded"}
    /\ now < bookings[b].visit_time
    /\ IF bookings[b].state = "Funded"
       THEN Transfer(Escrow, renter, bookings[b].deposit_amount)
       ELSE UNCHANGED balance
    /\ SetState(b, "Refunded")
    /\ Publish("DepositRefunded", b, bookings[b].deposit_amount, renter)
    /\ UNCHANGED <<asset, instanceUntil, now>>

\* Mutant: the deposit is released to the host.
ConfirmVisit_paysHost(host, b) ==
    /\ read_booking(b)
    /\ bookings[b].host = host
    /\ bookings[b].state = "Funded"
    /\ now >= bookings[b].visit_time
    /\ Transfer(Escrow, host, bookings[b].deposit_amount)
    /\ SetState(b, "Released")
    /\ Publish("VisitConfirmed", b, bookings[b].deposit_amount, host)
    /\ UNCHANGED <<asset, instanceUntil, now>>

\* Mutant: the comparison with the visit time is the one of a refund.
ConfirmVisit_early(host, b) ==
    /\ read_booking(b)
    /\ bookings[b].host = host
    /\ bookings[b].state = "Funded"
    /\ now < bookings[b].visit_time
    /\ Transfer(Escrow, bookings[b].renter, bookings[b].deposit_amount)
    /\ SetState(b, "Released")
    /\ Publish("VisitConfirmed", b, bookings[b].deposit_amount, host)
    /\ UNCHANGED <<asset, instanceUntil, now>>

ConfirmVisit(host, b) ==
    /\ read_booking(b)
    /\ bookings[b].host = host
    /\ bookings[b].state = "Funded"
    /\ now >= bookings[b].visit_time
    /\ Transfer(Escrow, bookings[b].renter, bookings[b].deposit_amount)
    /\ SetState(b, "Released")
    /\ Publish("VisitConfirmed", b, bookings[b].deposit_amount, host)
    /\ UNCHANGED <<asset, instanceUntil, now>>

----------------------------------------------------------------------------
(***************************************************************************)
(* The network around the contract                                         *)
(***************************************************************************)
CloseLedger ==
    /\ now < MaxTime
    /\ now' = now + 1
    /\ UNCHANGED <<storage, balance, txs>>

\* Anybody can pay for an archived entry or instance to be restored.
RestoreBooking(b) ==
    /\ b \in DOMAIN bookings
    /\ ~EntryLive(b)
    /\ liveUntil' = [liveUntil EXCEPT ![b] = now + NetworkTtl - 1]
    /\ UNCHANGED <<asset, bookings, instanceUntil, balance, now, txs>>

RestoreInstance ==
    /\ ~InstanceLive
    /\ instanceUntil' = now + NetworkTtl - 1
    /\ UNCHANGED <<asset, bookings, liveUntil, balance, now, txs>>

\* An account uses its tokens for something else, or sends some to the contract.
SendTokens(a, from, to, amount) ==
    /\ from # to
    /\ balance[a][from] >= amount
    /\ balance' = [balance EXCEPT ![a][from] = @ - amount, ![a][to] = @ + amount]
    /\ UNCHANGED <<storage, now, txs>>

----------------------------------------------------------------------------
Create(b) ==
    \E renter, host \in Account, amount \in OfferedDeposit, visit \in OfferedVisit :
        CreateBooking(b, renter, host, amount, visit)

Call(b) ==
    \/ Create(b)
    \/ GetBooking(b)
    \/ \E caller \in Account :
          FundBooking(caller, b) \/ CancelBooking(caller, b) \/ ConfirmVisit(caller, b)

Network ==
    \/ CloseLedger
    \/ RestoreInstance
    \/ \E b \in BookingId : RestoreBooking(b)
    \/ \E a \in Asset, from \in Account, to \in Holder, amount \in SentAmount :
          SendTokens(a, from, to, amount)

Next ==
    \/ \E a \in Asset : Initialize(a)
    \/ \E b \in BookingId : Call(b)
    \/ Network

Spec == Init /\ [][Next]_vars

(***************************************************************************)
(* Nothing in the contract makes a host confirm: that hosts do is an       *)
(* assumption on people, and so is that somebody restores what was         *)
(* archived.  Ledgers close by themselves.                                 *)
(***************************************************************************)
HostsConfirm ==
    \A b \in BookingId : WF_vars(\E host \in Account : ConfirmVisit(host, b))
FairSpec ==
    /\ Spec
    /\ WF_vars(CloseLedger)
    /\ WF_vars(RestoreInstance)
    /\ \A b \in BookingId : WF_vars(RestoreBooking(b))
    /\ HostsConfirm
----------------------------------------------------------------------------
(***************************************************************************)
(* Properties                                                              *)
(***************************************************************************)
\* The contract's storage and the ledger's records keep their types.
TypeOK ==
    /\ asset \in Asset \cup {NoAsset}
    /\ DOMAIN bookings \subseteq BookingId
    /\ bookings \in [DOMAIN bookings -> Booking]
    /\ liveUntil \in [BookingId -> Nat]
    /\ instanceUntil \in Nat
    /\ balance \in [Asset -> [Holder -> Nat]]
    /\ now \in 0 .. MaxTime
    /\ txs \in Seq(Tx)

\* The deposit the contract still owes for booking b, and the sum of all of them.
Owed(b) ==
    IF b \in DOMAIN bookings /\ bookings[b].state = "Funded"
    THEN bookings[b].deposit_amount ELSE 0
OwedUpTo[n \in 0 .. MaxBooking] ==
    IF n = 0 THEN 0 ELSE OwedUpTo[n - 1] + Owed(n)

\* The contract holds, in the asset it pays out, at least every deposit it still
\* owes: no refund and no release is ever refused for want of tokens, whatever
\* other bookings, gifts and other assets did to its balances.
Solvent ==
    asset # NoAsset => balance[asset][Escrow] >= OwedUpTo[MaxBooking]

Published(b, event) ==
    \E i \in DOMAIN txs : txs[i].booking_id = b /\ txs[i].event = event
\* Transaction i comes after one that published event for the same booking.
After(i, event) ==
    \E j \in 1 .. i - 1 : txs[j].booking_id = txs[i].booking_id /\ txs[j].event = event

\* What the API reads off the chain is the truth about the storage: a booking's
\* published events alone tell its state, no event is published twice for one
\* booking, a booking is never both refunded and released, and every event names
\* the agreed deposit.  (The converse, that a DepositRefunded moved money, is
\* false: see CancelBooking.)
EventsTellTheState ==
    /\ \A i, j \in DOMAIN txs :
          txs[i].booking_id = txs[j].booking_id /\ txs[i].event = txs[j].event => i = j
    /\ \A i \in DOMAIN txs :
          /\ txs[i].booking_id \in DOMAIN bookings
          /\ txs[i].amount = bookings[txs[i].booking_id].deposit_amount
    /\ \A b \in DOMAIN bookings :
          LET is(state) == bookings[b].state = state IN
          /\ Published(b, "BookingCreated")
          /\ is("Created") => ~Published(b, "BookingFunded")
          /\ is("Funded") => Published(b, "BookingFunded")
          /\ Published(b, "DepositRefunded") <=> is("Refunded")
          /\ Published(b, "VisitConfirmed") <=> is("Released")

\* A renter's deposit moved only by the renter's own authorisation, before the
\* visit, or by the host's, at or after it; and never before the step it follows.
SettledByTheRightParty ==
    \A i \in DOMAIN txs :
        LET tx == txs[i]
            booking == bookings[tx.booking_id]
        IN  /\ tx.event = "VisitConfirmed" => tx.by = booking.host
            /\ tx.event # "VisitConfirmed" => tx.by = booking.renter
            /\ tx.event = "BookingFunded" => After(i, "BookingCreated")
            /\ tx.event = "DepositRefunded" => tx.at < booking.visit_time
            /\ tx.event = "VisitConfirmed" =>
                  tx.at >= booking.visit_time /\ After(i, "BookingFunded")

\* The entry of a booking outlives by more than TTL_THRESHOLD every call made on
\* it, so that it cannot be archived in the middle of a flow that keeps using it.
EntryOutlivesItsCalls ==
    \A i \in DOMAIN txs : liveUntil[txs[i].booking_id] > txs[i].at + TtlThreshold

\* No call changes what renter and host agreed to, removes a booking, or moves a
\* settled booking again; and the accepted asset, once set, stays.
TermsAreFinal ==
    /\ asset # NoAsset => asset' = asset
    /\ \A b \in DOMAIN bookings :
          /\ b \in DOMAIN bookings'
          /\ bookings'[b] = [bookings[b] EXCEPT !.state = bookings'[b].state]
          /\ bookings[b].state \in {"Refunded", "Released"} =>
                bookings'[b].state = bookings[b].state
TermsStayFinal == [][TermsAreFinal]_vars

(***************************************************************************)
(* The contract implements DepositPromise: its storage tells the agreement *)
(* and the stage, and the parties' own balances are their wallets.         *)
(***************************************************************************)
stageOf(state) ==
    CASE state = "Created" -> "agreed"
      [] state = "Funded"  -> "held"
      [] OTHER             -> "over"

Terms(booking) == [renter |-> booking.renter, host |-> booking.host,
                   amount |-> booking.deposit_amount, visit |-> booking.visit_time]
Agreed == [b \in DOMAIN bookings |-> Terms(bookings[b])]
Stages == [b \in DOMAIN bookings |-> stageOf(bookings[b].state)]
Wallets == [a \in Asset |-> [p \in Account |-> balance[a][p]]]
Chosen == {asset} \ {NoAsset}

Promise == INSTANCE DepositPromise WITH
    Id <- BookingId,
    Party <- Account,
    Currency <- Asset,
    Amount <- MinDeposit .. MaxDeposit,
    Time <- OfferedVisit,
    clock <- now,
    currency <- Chosen,
    agreement <- Agreed,
    stage <- Stages,
    wallet <- Wallets

\* Every behaviour of the contract is one the promise allows: money leaves and
\* enters wallets only as agreed, and a deposit goes back to its renter, once.
KeepsThePromise == Promise!Spec

\* If hosts confirm and archived entries are restored, every deposit that was
\* paid in goes back: no order of calls, gifts or archivals strands it.
DepositComesBack ==
    \A b \in BookingId :
        Owed(b) > 0 ~> b \in DOMAIN bookings /\ bookings[b].state \in {"Refunded", "Released"}
=============================================================================
