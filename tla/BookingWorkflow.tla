-------------------------- MODULE BookingWorkflow --------------------------
(***************************************************************************)
(* The booking API and its database: BookingController,                    *)
(* BookingWorkflowService, CheckInChallengeService and                     *)
(* ContractTransactionVerifier (apps/api/src), over the tables of          *)
(* prisma/schema.prisma.                                                   *)
(*                                                                         *)
(* A request is a worker that moves from await to await: between two of    *)
(* its steps any other request may run and the API may restart.  What a    *)
(* database transaction writes, it writes in one step, its last; what it   *)
(* read before may have changed by then.  The ledger is seen through an    *)
(* RPC node that lags behind it.                                           *)
(***************************************************************************)
EXTENDS Integers, Sequences, FiniteSets

CONSTANTS
    BookingRef,         \* the booking ids randomUUID may draw
    OnChain,            \* onChainBookingId, the leading half of the id: [BookingRef -> ChainId]
    ChainId,            \* the booking ids of the contract
    Account,            \* wallet addresses
    Slot,               \* viewing slots of active properties
    SlotStart,          \* when each slot starts, to the millisecond: [Slot -> Nat]
    Second,             \* how many of its units make one of the clock
    SlotHost,           \* the host of the slot's property: [Slot -> Account]
    OfferedDeposit,     \* the deposits clients ask for
    MaxApiDeposit,      \* the bound of 100_000_000_000 in create
    Nonce,              \* the nonces of check-in challenges
    ChallengeLife,      \* how long a challenge is valid: two minutes
    Worker,             \* bound: requests served at the same time
    Idle,               \* a worker without a request
    MaxTime             \* bound: the clock stops here

ASSUME WorkflowAssumption ==
    /\ OnChain \in [BookingRef -> ChainId]
    /\ SlotStart \in [Slot -> Nat]
    /\ Second \in Nat \ {0}
    /\ SlotHost \in [Slot -> Account]
    /\ OfferedDeposit \subseteq Int
    /\ MaxApiDeposit \in Nat
    /\ Nonce \subseteq Nat \ {0}
    /\ ChallengeLife \in Nat \ {0}
    /\ MaxTime \in Nat

VARIABLES
    row,            \* table bookings: a function on the ids stored
    payments,       \* table payment_transactions
    history,        \* table booking_status_history, in order of insertion, per booking
    challenges,     \* table check_in_challenges: a function on the nonces issued
    requests,       \* the request each worker is serving
    txs,            \* the ledger's record of contract events; an index is a transaction hash
    rpcSeen,        \* how much of it the RPC node serves
    now             \* the clock

database == <<row, payments, history, challenges>>
apiVars == <<row, payments, history, challenges, requests>>
ledgerVars == <<txs, rpcSeen, now>>
vars == <<row, payments, history, challenges, requests, txs, rpcSeen, now>>

Status == {"PENDING_FUNDING", "FUNDED", "CHECKED_IN", "COMPLETED", "REFUNDED"}
NoHash == 0
NoProof == 0

Init ==
    /\ row = [id \in {} |-> Idle]
    /\ payments = {}
    /\ history = [id \in BookingRef |-> <<>>]
    /\ challenges = [n \in {} |-> Idle]
    /\ requests = [w \in Worker |-> Idle]
    /\ txs = <<>>
    /\ rpcSeen = 0
    /\ now = 0

Put(f, x, y) == [z \in DOMAIN f \cup {x} |-> IF z = x THEN y ELSE f[z]]

----------------------------------------------------------------------------
(***************************************************************************)
(* Requests                                                                *)
(***************************************************************************)
Kind == {"fund", "check-in", "cancel", "confirm"}

Serves(w, kind, stage) ==
    requests[w] # Idle /\ requests[w].kind = kind /\ requests[w].stage = stage

\* The request is answered, successfully or with an error.
Answer(w) == requests' = [requests EXCEPT ![w] = Idle]

\* The request goes on to the next stage if ok, and is answered with an error if not.
Proceed(w, ok, stage) ==
    IF ok THEN requests' = [requests EXCEPT ![w].stage = stage] ELSE Answer(w)

\* A client posts a request: with a transaction hash it has seen, or with the
\* token of a challenge somebody was shown.  Only its form is checked on arrival.
Submit(w, kind, id, actor, arg) ==
    /\ requests[w] = Idle
    /\ arg \in IF kind = "check-in" THEN DOMAIN challenges ELSE DOMAIN txs
    /\ requests' = [requests EXCEPT ![w] = [kind |-> kind, id |-> id, actor |-> actor,
                                            arg |-> arg, stage |-> "received"]]
    /\ UNCHANGED <<database, ledgerVars>>

----------------------------------------------------------------------------
(***************************************************************************)
(* POST /api/bookings: checked on arrival, and then one serializable       *)
(* transaction, which finds the slot and inserts the booking.              *)
(***************************************************************************)
\* Mutant: the lower bound on deposits is not checked.
DepositAccepted_unbounded(deposit) == deposit <= MaxApiDeposit
DepositAccepted(deposit) == deposit > 0 /\ deposit <= MaxApiDeposit

\* The visit lies ahead when the request comes in: not looked at again.
VisitAhead(slot) == SlotStart[slot] > now * Second

\* The request is accepted, under a random id.
Create(w, id, slot, renter, host, deposit) ==
    /\ requests[w] = Idle
    /\ renter # host
    /\ DepositAccepted(deposit)
    /\ VisitAhead(slot)
    /\ requests' = [requests EXCEPT ![w] =
          [kind |-> "create", id |-> id, actor |-> renter, stage |-> "accepted",
           arg |-> [slot |-> slot, host |-> host, deposit |-> deposit]]]
    /\ UNCHANGED <<database, ledgerVars>>

SlotIsFree(slot) == \A other \in DOMAIN row : row[other].slot # slot

\* The transaction reads an unbooked slot of an active property of this host.
FindSlot(w) ==
    /\ Serves(w, "create", "accepted")
    /\ LET terms == requests[w].arg
       IN  Proceed(w, SlotHost[terms.slot] = terms.host /\ SlotIsFree(terms.slot), "found")
    /\ UNCHANGED <<database, ledgerVars>>

\* Mutant: the slot was free when it was read, and that is enough: neither is it unique
\* nor does the transaction notice who else booked it since.
Insertable_trusting(id, slot) ==
    id \notin DOMAIN row /\ \A other \in DOMAIN row : OnChain[other] # OnChain[id]

\* What the table refuses: an id, an on-chain id or a slot it has a booking for.
Insertable(id, slot) ==
    /\ id \notin DOMAIN row
    /\ \A other \in DOMAIN row : OnChain[other] # OnChain[id]
    /\ SlotIsFree(slot)

\* The transaction inserts the booking with its first entry of history, and commits.
InsertBooking(w) ==
    /\ Serves(w, "create", "found")
    /\ LET r == requests[w] IN
       IF Insertable(r.id, r.arg.slot)
       THEN /\ row' = Put(row, r.id, [slot |-> r.arg.slot, renter |-> r.actor,
                                      host |-> r.arg.host, deposit |-> r.arg.deposit,
                                      status |-> "PENDING_FUNDING", proof |-> NoProof])
            /\ history' = [history EXCEPT ![r.id] =
                             <<[from |-> "", to |-> "PENDING_FUNDING", actor |-> r.actor,
                                hash |-> NoHash]>>]
       ELSE UNCHANGED <<row, history>>
    /\ Answer(w)
    /\ UNCHANGED <<payments, challenges, ledgerVars>>

----------------------------------------------------------------------------
\* Mutants: whatever event was published, for whatever booking, and an RPC node
\* whose newest transaction is not looked at.
verifyEvent_anyEvent(hash, id, event) ==
    hash <= rpcSeen /\ txs[hash].booking_id = OnChain[id]
verifyEvent_anyBooking(hash, id, event) ==
    hash <= rpcSeen /\ txs[hash].event = event
verifyEvent_late(hash, id, event) ==
    hash < rpcSeen /\ txs[hash].event = event /\ txs[hash].booking_id = OnChain[id]

(***************************************************************************)
(* ContractTransactionVerifier.verifyEvent, after the controller has found *)
(* the booking: the RPC node must already serve a transaction that         *)
(* published the event for this on-chain booking.                          *)
(***************************************************************************)
verifyEvent(hash, id, event) ==
    /\ hash <= rpcSeen
    /\ txs[hash].event = event
    /\ txs[hash].booking_id = OnChain[id]

Verify(w, kind, event) ==
    /\ Serves(w, kind, "received")
    /\ LET r == requests[w]
       IN  Proceed(w, r.id \in DOMAIN row /\ verifyEvent(r.arg, r.id, event), "verified")
    /\ UNCHANGED <<database, ledgerVars>>

\* The service reads the booking and checks its status and the actor's role.
Check(w, kind, from, role) ==
    /\ Serves(w, kind, "verified")
    /\ LET r == requests[w]
       IN  Proceed(w, /\ r.id \in DOMAIN row
                      /\ row[r.id].status = from
                      /\ role # "" => row[r.id][role] = r.actor, "checked")
    /\ UNCHANGED <<database, ledgerVars>>

\* Mutant: the status read at the check is not looked at again by the update.
StillIn_once(id, from) == TRUE
\* updateMany ... where status = from: the row is still in the state it was read in.
StillIn(id, from) == row[id].status = from
SetStatus(id, to) == row' = [row EXCEPT ![id].status = to]

Record(id, from, to, actor, hash) ==
    history' = [history EXCEPT ![id] =
                  Append(@, [from |-> from, to |-> to, actor |-> actor, hash |-> hash])]

\* paymentTransaction.create, which the unique hash can refuse.
HashIsNew(hash) == \A p \in payments : p.hash # hash
Paid(id, hash, kind) ==
    payments' = payments \cup {[booking |-> id, hash |-> hash, kind |-> kind,
                                amount |-> row[id].deposit]}

----------------------------------------------------------------------------
(***************************************************************************)
(* POST :id/fund                                                           *)
(***************************************************************************)
FundVerify(w) == Verify(w, "fund", "BookingFunded")
FundCheck(w) == Check(w, "fund", "PENDING_FUNDING", "")

\* One transaction: status, payment and history, or none of them.
FundCommit(w) ==
    /\ Serves(w, "fund", "checked")
    /\ LET r == requests[w] IN
       IF StillIn(r.id, "PENDING_FUNDING") /\ HashIsNew(r.arg)
       THEN /\ SetStatus(r.id, "FUNDED")
            /\ Paid(r.id, r.arg, "FUND")
            /\ Record(r.id, "PENDING_FUNDING", "FUNDED", row[r.id].renter, r.arg)
       ELSE UNCHANGED <<row, payments, history>>
    /\ Answer(w)
    /\ UNCHANGED <<challenges, ledgerVars>>

(***************************************************************************)
(* POST :id/cancel                                                         *)
(***************************************************************************)
CancelVerify(w) == Verify(w, "cancel", "DepositRefunded")
RefundCheck(w) == Check(w, "cancel", "FUNDED", "renter")

RefundCommit(w) ==
    /\ Serves(w, "cancel", "checked")
    /\ LET r == requests[w] IN
       IF StillIn(r.id, "FUNDED") /\ HashIsNew(r.arg)
       THEN /\ SetStatus(r.id, "REFUNDED")
            /\ Paid(r.id, r.arg, "REFUND")
            /\ Record(r.id, "FUNDED", "REFUNDED", r.actor, r.arg)
       ELSE UNCHANGED <<row, payments, history>>
    /\ Answer(w)
    /\ UNCHANGED <<challenges, ledgerVars>>

(***************************************************************************)
(* POST :id/check-in-challenge: answered in one go, for the host only.     *)
(* The status of the booking is not looked at.                             *)
(***************************************************************************)
IssueChallenge(id, actor, nonce) ==
    /\ id \in DOMAIN row
    /\ row[id].host = actor
    /\ nonce \notin DOMAIN challenges
    /\ challenges' = Put(challenges, nonce,
                         [booking |-> id, expiresAt |-> now + ChallengeLife, consumed |-> FALSE])
    /\ UNCHANGED <<row, payments, history, requests, ledgerVars>>

(***************************************************************************)
(* POST :id/check-in: the token is spent before the booking is looked at,  *)
(* and the history is written after the status.                            *)
(***************************************************************************)
FindChallenge(w) ==
    /\ Serves(w, "check-in", "received")
    /\ LET r == requests[w]
           challenge == challenges[r.arg]
       IN  Proceed(w, /\ challenge.booking = r.id
                      /\ row[r.id].renter = r.actor
                      /\ challenge.expiresAt > now
                      /\ ~challenge.consumed, "found")
    /\ UNCHANGED <<database, ledgerVars>>

\* Mutant: the challenge found unspent is spent whether or not it still is.
SpendChallenge_twice(w) ==
    /\ Serves(w, "check-in", "found")
    /\ challenges' = [challenges EXCEPT ![requests[w].arg].consumed = TRUE]
    /\ Proceed(w, TRUE, "verified")
    /\ UNCHANGED <<row, payments, history, ledgerVars>>

\* updateMany ... where consumedAt is null, in the transaction that found it.
SpendChallenge(w) ==
    /\ Serves(w, "check-in", "found")
    /\ LET r == requests[w] IN
       IF ~challenges[r.arg].consumed
       THEN /\ challenges' = [challenges EXCEPT ![r.arg].consumed = TRUE]
            /\ Proceed(w, TRUE, "verified")
       ELSE UNCHANGED challenges /\ Answer(w)
    /\ UNCHANGED <<row, payments, history, ledgerVars>>

CheckInCheck(w) == Check(w, "check-in", "FUNDED", "renter")

\* Mutant: that no row was updated is not an error.
CheckInUpdate_unchecked(w) ==
    /\ Serves(w, "check-in", "checked")
    /\ LET r == requests[w] IN
       IF StillIn(r.id, "FUNDED")
       THEN row' = [row EXCEPT ![r.id].status = "CHECKED_IN", ![r.id].proof = r.arg]
       ELSE UNCHANGED row
    /\ Proceed(w, TRUE, "updated")
    /\ UNCHANGED <<payments, history, challenges, ledgerVars>>

CheckInUpdate(w) ==
    /\ Serves(w, "check-in", "checked")
    /\ LET r == requests[w] IN
       IF StillIn(r.id, "FUNDED")
       THEN /\ row' = [row EXCEPT ![r.id].status = "CHECKED_IN", ![r.id].proof = r.arg]
            /\ Proceed(w, TRUE, "updated")
       ELSE UNCHANGED row /\ Answer(w)
    /\ UNCHANGED <<payments, history, challenges, ledgerVars>>

CheckInHistory(w) ==
    /\ Serves(w, "check-in", "updated")
    /\ LET r == requests[w] IN Record(r.id, "FUNDED", "CHECKED_IN", r.actor, NoHash)
    /\ Answer(w)
    /\ UNCHANGED <<row, payments, challenges, ledgerVars>>

(***************************************************************************)
(* POST :id/confirm: the settlement is checked on the ledger but kept only *)
(* in the history, which is written after the status.                      *)
(***************************************************************************)
ConfirmVerify(w) == Verify(w, "confirm", "VisitConfirmed")
ConfirmCheck(w) == Check(w, "confirm", "CHECKED_IN", "host")

ConfirmUpdate(w) ==
    /\ Serves(w, "confirm", "checked")
    /\ LET r == requests[w] IN
       IF StillIn(r.id, "CHECKED_IN")
       THEN SetStatus(r.id, "COMPLETED") /\ Proceed(w, TRUE, "updated")
       ELSE UNCHANGED row /\ Answer(w)
    /\ UNCHANGED <<payments, history, challenges, ledgerVars>>

ConfirmHistory(w) ==
    /\ Serves(w, "confirm", "updated")
    /\ LET r == requests[w] IN Record(r.id, "CHECKED_IN", "COMPLETED", r.actor, r.arg)
    /\ Answer(w)
    /\ UNCHANGED <<row, payments, challenges, ledgerVars>>

----------------------------------------------------------------------------
(***************************************************************************)
(* What GET :id and GET activity/recent answer.                            *)
(***************************************************************************)
\* Mutant: any payment of the booking will do.
find_any(id, kinds) ==
    LET found == {p \in payments : p.booking = id}
    IN  IF found = {} THEN NoHash ELSE (CHOOSE p \in found : TRUE).hash

\* The hash of a payment of one of the kinds.
find(id, kinds) ==
    LET found == {p \in payments : p.booking = id /\ p.kind \in kinds}
    IN  IF found = {} THEN NoHash ELSE (CHOOSE p \in found : TRUE).hash

fromDatabase(id) ==
    [id |-> id, state |-> row[id].status,
     fundingTransactionHash |-> find(id, {"FUND"}),
     settlementTransactionHash |-> find(id, {"REFUND", "RELEASE", "SPLIT"})]

\* The bookings with a payment.
activity == {fromDatabase(id) : id \in {i \in DOMAIN row : \E p \in payments : p.booking = i}}

\* The transaction the list of recent activity links.
Link(item) == IF item.settlementTransactionHash # NoHash
              THEN item.settlementTransactionHash ELSE item.fundingTransactionHash

----------------------------------------------------------------------------
(***************************************************************************)
(* What happens around the requests                                        *)
(***************************************************************************)
\* The API process ends and starts again: what it was serving is lost.
Restart ==
    /\ \E w \in Worker : requests[w] # Idle
    /\ requests' = [w \in Worker |-> Idle]
    /\ UNCHANGED <<database, ledgerVars>>

\* The database or the RPC node fails a handler that waits for it, or the node no
\* longer keeps its transaction: it answers with an error, and what was written stays.
Fails(w) ==
    /\ requests[w] # Idle
    /\ Answer(w)
    /\ UNCHANGED <<database, ledgerVars>>

RpcCatchesUp ==
    /\ rpcSeen < Len(txs)
    /\ rpcSeen' = rpcSeen + 1
    /\ UNCHANGED <<apiVars, txs, now>>

Tick ==
    /\ now < MaxTime
    /\ now' = now + 1
    /\ UNCHANGED <<apiVars, txs, rpcSeen>>

\* The escrow contract as the API sees it: a booking is created, funded perhaps,
\* and settled once.  EscrowContract shows that its events are of this kind.
Published(c, event) == \E i \in DOMAIN txs : txs[i].booking_id = c /\ txs[i].event = event
Settled(c) == Published(c, "DepositRefunded") \/ Published(c, "VisitConfirmed")
LedgerPublishes(c, event) ==
    /\ ~Published(c, event) /\ ~Settled(c)
    /\ event # "BookingCreated" => Published(c, "BookingCreated")
    /\ event = "VisitConfirmed" => Published(c, "BookingFunded")
    /\ txs' = Append(txs, [event |-> event, booking_id |-> c])
    /\ UNCHANGED <<apiVars, rpcSeen, now>>

Serve(w) ==
    \/ FindSlot(w) \/ InsertBooking(w)
    \/ FundVerify(w) \/ FundCheck(w) \/ FundCommit(w)
    \/ CancelVerify(w) \/ RefundCheck(w) \/ RefundCommit(w)
    \/ FindChallenge(w) \/ SpendChallenge(w)
    \/ CheckInCheck(w) \/ CheckInUpdate(w) \/ CheckInHistory(w)
    \/ ConfirmVerify(w) \/ ConfirmCheck(w) \/ ConfirmUpdate(w) \/ ConfirmHistory(w)

Post ==
    \/ \E w \in Worker, id \in BookingRef, slot \in Slot, renter, host \in Account,
          deposit \in OfferedDeposit : Create(w, id, slot, renter, host, deposit)
    \/ \E id \in BookingRef, actor \in Account, nonce \in Nonce : IssueChallenge(id, actor, nonce)
    \/ \E w \in Worker, kind \in Kind, id \in BookingRef, actor \in Account,
          arg \in DOMAIN txs \cup DOMAIN challenges : Submit(w, kind, id, actor, arg)

\* All that happens while the API is up.
Up ==
    \/ Post
    \/ \E w \in Worker : Serve(w)
    \/ RpcCatchesUp
    \/ Tick
    \/ \E c \in ChainId,
          event \in {"BookingCreated", "BookingFunded", "DepositRefunded", "VisitConfirmed"} :
          LedgerPublishes(c, event)

Next == Up \/ Restart \/ \E w \in Worker : Fails(w)

Spec == Init /\ [][Next]_vars

----------------------------------------------------------------------------
(***************************************************************************)
(* Properties                                                              *)
(***************************************************************************)
AskedDeposit == OfferedDeposit \cap (1 .. MaxApiDeposit)
Row == [slot : Slot, renter : Account, host : Account, deposit : AskedDeposit,
        status : Status, proof : Nonce \cup {NoProof}]
Payment == [booking : BookingRef, hash : Nat, kind : {"FUND", "REFUND"}, amount : Nat]
Entry == [from : Status \cup {""}, to : Status, actor : Account, hash : Nat]
Challenge == [booking : BookingRef, expiresAt : Nat, consumed : BOOLEAN]
Request == [kind : Kind, id : BookingRef, actor : Account, arg : Nat,
            stage : {"received", "found", "verified", "checked", "updated"}]
Terms == [slot : Slot, host : Account, deposit : AskedDeposit]
Creation == [kind : {"create"}, id : BookingRef, actor : Account, arg : Terms,
             stage : {"accepted", "found"}]

\* The tables and the requests keep their types.
TypeOK ==
    /\ DOMAIN row \subseteq BookingRef
    /\ row \in [DOMAIN row -> Row]
    /\ payments \subseteq Payment
    /\ history \in [BookingRef -> Seq(Entry)]
    /\ DOMAIN challenges \subseteq Nonce
    /\ challenges \in [DOMAIN challenges -> Challenge]
    /\ requests \in [Worker -> Request \cup Creation \cup {Idle}]
    /\ rpcSeen \in 0 .. Len(txs)
    /\ now \in 0 .. MaxTime

\* No two bookings share a viewing slot or an escrow, however their requests meet: of
\* those that found the slot free before any of them was stored, one gets it.
BookingsAreDistinct ==
    \A id, other \in DOMAIN row :
        row[id].slot = row[other].slot \/ OnChain[id] = OnChain[other] => id = other

Recorded(id, kind) == {p \in payments : p.booking = id /\ p.kind = kind}

\* The payments kept are those of the status, once each: nobody's retry, and no
\* two requests racing with one hash or with two, records a payment twice, and a
\* status past PENDING_FUNDING or REFUNDED is never without its payment.
PaymentsFitTheStatus ==
    /\ \A id \in DOMAIN row :
          /\ Cardinality(Recorded(id, "FUND")) =
                IF row[id].status = "PENDING_FUNDING" THEN 0 ELSE 1
          /\ Cardinality(Recorded(id, "REFUND")) =
                IF row[id].status = "REFUNDED" THEN 1 ELSE 0
    /\ \A p, q \in payments : p.hash = q.hash => p = q

\* What the database says of the money has happened on the ledger, for this very
\* escrow: funded, and refunded or released.
LedgerBacksTheStatus ==
    /\ \A id \in DOMAIN row :
          /\ row[id].status # "PENDING_FUNDING" => Published(OnChain[id], "BookingFunded")
          /\ row[id].status = "COMPLETED" => Published(OnChain[id], "VisitConfirmed")
          /\ row[id].status = "REFUNDED" => Published(OnChain[id], "DepositRefunded")
    /\ \A p \in payments : txs[p.hash].booking_id = OnChain[p.booking]

\* The workers past spending the challenge of nonce n.
Holders(n) == {w \in Worker : /\ requests[w] # Idle
                               /\ requests[w].kind = "check-in"
                               /\ requests[w].arg = n
                               /\ requests[w].stage \in {"verified", "checked", "updated"}}

\* A recorded check-in stands for a challenge that was issued for this booking and
\* spent for it; one code never carries two requests past the spending, nor a
\* second one once it is somebody's proof.
PresenceIsProved ==
    /\ \A id \in DOMAIN row :
          IF row[id].status \in {"CHECKED_IN", "COMPLETED"}
          THEN LET n == row[id].proof IN
               /\ n \in DOMAIN challenges
               /\ challenges[n].consumed /\ challenges[n].booking = id
               /\ \A w \in Holders(n) : requests[w].stage = "updated"
          ELSE row[id].proof = NoProof
    /\ \A n \in DOMAIN challenges :
          /\ Cardinality(Holders(n)) <= 1
          /\ Holders(n) # {} => challenges[n].consumed

Edge == {<<"PENDING_FUNDING", "FUNDED">>, <<"FUNDED", "CHECKED_IN">>,
         <<"CHECKED_IN", "COMPLETED">>, <<"FUNDED", "REFUNDED">>}

\* The statuses a booking went through to be in this one.
Passed(status) ==
    CASE status = "PENDING_FUNDING" -> {}
      [] status = "FUNDED" -> {"FUNDED"}
      [] status = "CHECKED_IN" -> {"FUNDED", "CHECKED_IN"}
      [] status = "COMPLETED" -> {"FUNDED", "CHECKED_IN", "COMPLETED"}
      [] status = "REFUNDED" -> {"FUNDED", "REFUNDED"}

\* A status moves only along the documented path, one edge at a time and never out
\* of COMPLETED or REFUNDED, and what was booked stays as it was booked.
MovesAlongThePath ==
    \A id \in DOMAIN row :
        /\ id \in DOMAIN row'
        /\ \/ row'[id].status = row[id].status
           \/ <<row[id].status, row'[id].status>> \in Edge
        /\ \A field \in {"slot", "renter", "host", "deposit"} :
              row'[id][field] = row[id][field]
        /\ row[id].proof # NoProof => row'[id].proof = row[id].proof
StatusMovesAlongThePath == [][MovesAlongThePath]_vars

\* The history may miss a step a restart cut off, but it never tells one that did
\* not happen, nor one twice; and the step it has with a payment is that payment.
HistoryNeverLies ==
    \A id \in DOMAIN row :
        LET steps == {i \in DOMAIN history[id] : i > 1} IN
        /\ \A i \in steps :
              LET entry == history[id][i] IN
              /\ <<entry.from, entry.to>> \in Edge
              /\ entry.to \in Passed(row[id].status)
              /\ entry.to \in {"FUNDED", "REFUNDED"} =>
                    \E p \in payments : p.booking = id /\ p.hash = entry.hash
        /\ \A i, j \in steps : history[id][i].to = history[id][j].to => i = j

Shows(hash, id, event) == txs[hash].event = event /\ txs[hash].booking_id = OnChain[id]

\* The receipts of a booking are what they are shown as: its funding is the payment of
\* this very escrow, from when it is recorded, and the settlement, if there is one, what
\* settled it; and recent activity lists exactly the bookings that were paid, each with
\* a link.
ReceiptsAreTrue ==
    /\ \A id \in DOMAIN row :
          LET b == fromDatabase(id) IN
          /\ IF b.state = "PENDING_FUNDING" THEN b.fundingTransactionHash = NoHash
             ELSE /\ b.fundingTransactionHash # NoHash
                  /\ Shows(b.fundingTransactionHash, id, "BookingFunded")
          /\ b.state = "REFUNDED" => b.settlementTransactionHash # NoHash
          /\ b.settlementTransactionHash # NoHash =>
                CASE b.state = "REFUNDED" ->
                          Shows(b.settlementTransactionHash, id, "DepositRefunded")
                  [] b.state = "COMPLETED" ->
                          Shows(b.settlementTransactionHash, id, "VisitConfirmed")
                  [] OTHER -> FALSE
          /\ (b \in activity) = (b.state # "PENDING_FUNDING")
    /\ \A item \in activity :
          \/ Shows(Link(item), item.id, "BookingFunded")
          \/ item.state = "REFUNDED" /\ Shows(Link(item), item.id, "DepositRefunded")
          \/ item.state = "COMPLETED" /\ Shows(Link(item), item.id, "VisitConfirmed")

(***************************************************************************)
(* What the documentation says of the API, and the code does not do.       *)
(***************************************************************************)
\* docs/data-flow.md: "A database transaction records status history and the unique
\* hash": a status recorded with a hash has its entry of history, or is about to get it.
HistoryIsWhole ==
    \A id \in DOMAIN row : row[id].status \in {"FUNDED", "REFUNDED", "COMPLETED"} =>
        \/ \E i \in DOMAIN history[id] : history[id][i].to = row[id].status
        \/ \E w \in Worker : /\ requests[w] # Idle
                              /\ requests[w].id = id /\ requests[w].stage = "updated"
=============================================================================
