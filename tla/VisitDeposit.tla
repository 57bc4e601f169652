---------------------------- MODULE VisitDeposit ----------------------------
(***************************************************************************)
(* The whole path of a deposit: the pages of renter and host               *)
(* (BookingClient), the API with its database (BookingWorkflow) and the    *)
(* contract on the ledger (EscrowContract).  They meet in the ledger's     *)
(* record of events and its clock, which the API reads through an RPC node *)
(* that lags behind.                                                       *)
(***************************************************************************)
EXTENDS Integers, Sequences

CONSTANTS
    \* of EscrowContract
    MaxBooking, Escrow, Asset, NoAsset, MinDeposit, MaxDeposit,
    TtlThreshold, TtlExtendTo, NetworkTtl, OfferedVisit, Supply, SentAmount,
    \* of BookingWorkflow
    BookingRef, OnChain, ChainId, Slot, SlotStart, Second, SlotHost, MaxApiDeposit,
    Nonce, ChallengeLife, Worker,
    \* of both, and of BookingClient
    Account, Idle, OfferedDeposit, MaxTime,
    OneNode     \* the RPC endpoint, which the API and its pages share, is one node

VARIABLES
    asset, bookings, liveUntil, instanceUntil, balance,     \* the contract
    txs, now,                                               \* the ledger
    rpcSeen,                                                \* the API's view of it
    row, payments, history, challenges, requests,           \* the API
    tabs, sent                                              \* the pages

Chain == INSTANCE EscrowContract
Api == INSTANCE BookingWorkflow
Client == INSTANCE BookingClient

ASSUME CompositionAssumption ==
    /\ Chain!ConstantsAssumption /\ Api!WorkflowAssumption
    /\ ChainId = Chain!BookingId
    /\ \A slot \in Slot : SlotStart[slot] \div Second \in OfferedVisit
    /\ OneNode \in BOOLEAN

contractVars == <<asset, bookings, liveUntil, instanceUntil, balance>>
apiVars == <<row, payments, history, challenges, requests>>
clientVars == <<tabs, sent>>
vars == <<contractVars, txs, now, rpcSeen, apiVars, clientVars>>

Init == Chain!Init /\ Api!Init /\ Client!Init

----------------------------------------------------------------------------
\* The form posts a booking.  The id is random: nobody has it, stored or under way.
Book(a, w, id, slot, deposit) ==
    /\ id \notin DOMAIN row
    /\ \A v \in Worker : requests[v] # Idle => requests[v].id # id
    /\ Client!Book(a, id)
    /\ Api!Create(w, id, slot, a, SlotHost[slot], deposit)
    /\ UNCHANGED contractVars

\* The API answers the form that the booking is stored; a refusal ends it (Abandon).
Booked(a) ==
    /\ Client!Booked(a)
    /\ tabs[a].id \in DOMAIN row /\ row[tabs[a].id].renter = a
    /\ UNCHANGED <<contractVars, txs, now, rpcSeen, apiVars>>

Role(a, id) ==
    IF a = row[id].renter THEN "renter" ELSE IF a = row[id].host THEN "host" ELSE ""

Load(a, id) ==
    /\ id \in DOMAIN row
    /\ Client!Load(a, id, row[id].status)
    /\ UNCHANGED <<contractVars, txs, now, rpcSeen, apiVars>>

Press(a, id, action) ==
    /\ id \in DOMAIN row
    /\ Client!PressCall(a, id, Role(a, id), action)
    /\ UNCHANGED <<contractVars, txs, now, rpcSeen, apiVars>>

\* The host asks for a code and shows it.
ShowCode(a, id, nonce) ==
    /\ id \in DOMAIN row
    /\ Client!Offered(a, id, Role(a, id), "issue-challenge")
    /\ Api!IssueChallenge(id, a, nonce)
    /\ UNCHANGED <<contractVars, clientVars>>

\* The renter types in a code that was shown.
EnterCode(a, id, w, nonce) ==
    /\ id \in DOMAIN row
    /\ Client!Offered(a, id, Role(a, id), "check-in")
    /\ Client!Posted(a, "loaded")
    /\ Api!Submit(w, "check-in", id, a, nonce)
    /\ UNCHANGED contractVars

\* The visit time for the contract, whose clock has seconds only: rounded down.
visitTime(slot) == SlotStart[slot] \div Second

\* Mutant: the visit time is rounded up.
Invoke_roundsUp(call) ==
    LET c == OnChain[call.id]
        booking == row[call.id]
    IN  CASE call.method = "create_booking" ->
               Chain!CreateBooking(c, call.by, booking.host, booking.deposit,
                                   (SlotStart[booking.slot] + Second - 1) \div Second)
          [] call.method = "fund_booking" -> Chain!FundBooking(call.by, c)
          [] call.method = "cancel_booking" -> Chain!CancelBooking(call.by, c)
          [] call.method = "confirm_visit" -> Chain!ConfirmVisit(call.by, c)

\* The contract call a page sent, with the terms of the booking it is about.
Invoke(call) ==
    LET c == OnChain[call.id]
        booking == row[call.id]
    IN  CASE call.method = "create_booking" ->
               Chain!CreateBooking(c, call.by, booking.host, booking.deposit,
                                   visitTime(booking.slot))
          [] call.method = "fund_booking" -> Chain!FundBooking(call.by, c)
          [] call.method = "cancel_booking" -> Chain!CancelBooking(call.by, c)
          [] call.method = "confirm_visit" -> Chain!ConfirmVisit(call.by, c)

\* Only a call whose simulation on the ledger succeeds is signed and sent.
Send(a) ==
    /\ Client!Send(a)
    /\ ENABLED Invoke(Client!CallOf(a))
    /\ UNCHANGED <<contractVars, txs, now, rpcSeen, apiVars>>

Confirmed(a) ==
    /\ Client!Confirmed(a)
    /\ OneNode => sent[Client!CallOf(a)] <= rpcSeen
    /\ UNCHANGED <<contractVars, txs, now, rpcSeen, apiVars>>

GiveUp(a) ==
    /\ Client!GiveUp(a)
    /\ LET hash == sent[Client!CallOf(a)] IN hash = Client!Pending \/ hash > rpcSeen
    /\ UNCHANGED <<contractVars, txs, now, rpcSeen, apiVars>>

\* The request a page makes after its contract call.
KindOf(method) ==
    CASE method = "fund_booking" -> "fund"
      [] method = "cancel_booking" -> "cancel"
      [] method = "confirm_visit" -> "confirm"

Report(a, w) ==
    /\ Client!Posted(a, "report")
    /\ Api!Submit(w, KindOf(tabs[a].method), tabs[a].id, a, sent[Client!CallOf(a)])
    /\ UNCHANGED contractVars

Abandon(a) ==
    /\ Client!Abandon(a)
    /\ UNCHANGED <<contractVars, txs, now, rpcSeen, apiVars>>

\* The network executes a transaction, or it fails or its 180 seconds pass.
Include(call) ==
    /\ Client!Included(call, Len(txs) + 1)
    /\ Invoke(call)
    /\ UNCHANGED <<apiVars, rpcSeen>>

Lose(call) ==
    /\ Client!Included(call, Client!Failed)
    /\ UNCHANGED <<contractVars, txs, now, rpcSeen, apiVars>>

\* The contract is deployed for one asset, and the network goes on around it.
Ledger ==
    /\ (\E a \in Asset : Chain!Initialize(a)) \/ Chain!Network
    /\ UNCHANGED <<apiVars, rpcSeen, clientVars>>

Serve(w) == Api!Serve(w) /\ UNCHANGED <<contractVars, clientVars>>
RpcCatchesUp == Api!RpcCatchesUp /\ UNCHANGED <<contractVars, clientVars>>
Restart == Api!Restart /\ UNCHANGED <<contractVars, clientVars>>

Fails(w) == Api!Fails(w) /\ UNCHANGED <<contractVars, clientVars>>

Pages ==
    \E a \in Account, id \in BookingRef :
        \/ \E w \in Worker, slot \in Slot, deposit \in OfferedDeposit : Book(a, w, id, slot, deposit)
        \/ Booked(a)
        \/ Load(a, id)
        \/ \E action \in {"cancel", "confirm"} : Press(a, id, action)
        \/ \E nonce \in Nonce : ShowCode(a, id, nonce) \/ \E w \in Worker : EnterCode(a, id, w, nonce)

Wallet(a) == Send(a) \/ Confirmed(a) \/ \E w \in Worker : Report(a, w)

\* Everything that happens when nothing goes wrong.
Smooth ==
    \/ Pages
    \/ \E a \in Account : Wallet(a)
    \/ \E call \in DOMAIN sent : Include(call) \/ Lose(call)
    \/ Ledger
    \/ \E w \in Worker : Serve(w)
    \/ RpcCatchesUp

\* And if the RPC node takes longer than a page asks it.
Delayed == Smooth \/ \E a \in Account : GiveUp(a)

Next ==
    \/ Delayed
    \/ \E a \in Account : Abandon(a)
    \/ Restart
    \/ \E w \in Worker : Fails(w)

Spec == Init /\ [][Next]_vars

(***************************************************************************)
(* Nobody closes a page and the API stays up; the pages and the API do what*)
(* their code does next, a request is accepted in the end, and the RPC node*)
(* catches up.                                                             *)
(***************************************************************************)
Progress ==
    /\ WF_vars(RpcCatchesUp)
    /\ \A w \in Worker : WF_vars(Serve(w))
    /\ \A a \in Account :
          /\ WF_vars(Confirmed(a))
          /\ SF_vars(\E w \in Worker : Report(a, w))

SmoothSpec == Init /\ [][Smooth]_vars /\ Progress
DelayedSpec == Init /\ [][Delayed]_vars /\ Progress

----------------------------------------------------------------------------
(***************************************************************************)
(* Properties                                                              *)
(***************************************************************************)
EscrowOf(id) == bookings[OnChain[id]]
HasEscrow(id) == OnChain[id] \in DOMAIN bookings
HasState(id, states) == HasEscrow(id) /\ EscrowOf(id).state \in states

\* The database is never ahead of the contract's storage: what it calls funded was
\* paid in, what it calls completed or refunded is released or refunded, and a
\* refund it shows is of a deposit that was really paid.
DatabaseFollowsTheContract ==
    \A id \in DOMAIN row :
        /\ row[id].status \in {"FUNDED", "CHECKED_IN"} =>
              HasState(id, {"Funded", "Refunded", "Released"})
        /\ row[id].status = "COMPLETED" => HasState(id, {"Released"})
        /\ row[id].status = "REFUNDED" =>
              HasState(id, {"Refunded"}) /\ Chain!Published(OnChain[id], "BookingFunded")

\* The contract holds each booking on the terms it was stored with, and a recorded
\* payment is of the amount the ledger moved: nothing in the API compares them, the
\* pages carry them over.
TermsAreTheBookings ==
    /\ \A id \in DOMAIN row : HasEscrow(id) =>
          LET e == EscrowOf(id) IN
          /\ e.renter = row[id].renter /\ e.host = row[id].host
          /\ e.deposit_amount = row[id].deposit
          /\ e.visit_time = visitTime(row[id].slot)
    /\ \A p \in payments : txs[p.hash].amount = p.amount

\* A deposit is released by its host only once the renter's check-in is recorded:
\* the contract does not know of check-ins, the host's page waits for them.
ReleaseFollowsCheckIn ==
    \A id \in DOMAIN row : HasState(id, {"Released"}) =>
        row[id].status \in {"CHECKED_IN", "COMPLETED"}

\* The API takes deposits the contract does not: such a booking is never paid, settled
\* or checked in to, whatever its renter and host try.
UnpayableGoesNowhere ==
    \A id \in DOMAIN row :
        row[id].deposit \notin MinDeposit .. MaxDeposit =>
            row[id].status = "PENDING_FUNDING" /\ ~HasEscrow(id)

\* The ledger behaves to the API as BookingWorkflow assumes: seen through the
\* events alone, pages, contract and API together are a behaviour of it.
ApiView == INSTANCE BookingWorkflow WITH
    txs <- [i \in DOMAIN txs |-> [event |-> txs[i].event, booking_id |-> txs[i].booking_id]]
TheApiSeesItsLedger == ApiView!Spec

\* What became of a deposit, as everybody can read it off the ledger.
outcome(id) ==
    IF ~Chain!Published(OnChain[id], "BookingFunded") THEN "nothing"
    ELSE CASE EscrowOf(id).state = "Refunded" -> "refunded"
           [] EscrowOf(id).state = "Released" -> "released"
           [] OTHER                           -> "deposited"

\* What VisitPromise speaks of, in tables and ledger.
Bookings == [id \in DOMAIN row |-> [renter |-> row[id].renter, viewing |-> row[id].slot,
                                  amount |-> row[id].deposit]]
Coded == {challenges[n].booking : n \in DOMAIN challenges}
Outcomes == [id \in DOMAIN row |-> outcome(id)]
Recorded == [id \in DOMAIN row |-> row[id].status]

Promise == INSTANCE VisitPromise WITH
    Id <- Chain!BookingId,
    Party <- Account,
    Currency <- Asset,
    Amount <- MinDeposit .. MaxDeposit,
    Time <- OfferedVisit,
    Booking <- BookingRef,
    DepositOf <- OnChain,
    Viewing <- Slot,
    HostOf <- SlotHost,
    StartOf <- [slot \in Slot |-> visitTime(slot)],
    Asked <- 1 .. MaxApiDeposit,
    clock <- now,
    currency <- Chain!Chosen,
    agreement <- Chain!Agreed,
    stage <- Chain!Stages,
    wallet <- Chain!Wallets,
    booked <- Bookings,
    coded <- Coded,
    paid <- Outcomes,
    recorded <- Recorded

\* Whatever pages are open, however old, whichever requests race, fail or are lost,
\* and however far behind the RPC node is: each step is one the promise to renter and
\* host allows, or none that they see.  No deposit moves but for a booking on its terms,
\* none is released without a check-in that a code of the host preceded, and nothing is
\* recorded before it is so.
KeepsTheVisitPromise == Promise!VisitSpec

\* If nothing goes wrong and the pages read the node the API reads, a deposit that
\* is taken gets recorded.
Paid(id) == id \in DOMAIN row /\ Chain!Published(OnChain[id], "BookingFunded")
PaymentIsRecorded ==
    \A id \in BookingRef :
        Paid(id) ~> id \in DOMAIN row /\ row[id].status # "PENDING_FUNDING"

\* Nor does a settlement get lost: a release is recorded as the completed visit, and
\* the refund of a deposit as refunded, unless the renter's check-in came first and the
\* database keeps that for good.
SettlementIsRecorded ==
    \A id \in BookingRef :
        /\ Chain!Published(OnChain[id], "VisitConfirmed")
              ~> id \in DOMAIN row /\ row[id].status = "COMPLETED"
        /\ Paid(id) /\ Chain!Published(OnChain[id], "DepositRefunded")
              ~> id \in DOMAIN row /\ row[id].status \in {"REFUNDED", "CHECKED_IN"}

(***************************************************************************)
(* What the documentation says of the system, and the code does not do.    *)
(***************************************************************************)
\* docs/security/security-audit.md: "RPC delay can make a completed operation
\* temporarily appear unfinished": a deposit taken is recorded in the end, also
\* when the node takes longer than the page asks it.
DelayIsTemporary == PaymentIsRecorded
=============================================================================
