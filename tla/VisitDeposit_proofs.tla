------------------------- MODULE VisitDeposit_proofs -------------------------
(***************************************************************************)
(* Theorems about VisitDeposit, for any number of bookings, accounts,      *)
(* pages, requests and tokens.  What is proved of the contract and of the  *)
(* API by themselves is used here of the two together: every step of the   *)
(* whole is a step or a stutter of each.                                   *)
(***************************************************************************)
EXTENDS VisitDeposit, TLAPS

\* The ledger as the API sees it.
View == [i \in DOMAIN txs |-> [event |-> txs[i].event, booking_id |-> txs[i].booking_id]]

Contract == INSTANCE EscrowPromise_proofs
Workflow == INSTANCE BookingWorkflow_proofs WITH txs <- View

\* What is proved of the contract holds under the assumptions made of the whole.
LEMMA ContractStep ==
    ASSUME Contract!Faithful, [Contract!Next]_(Contract!vars)
    PROVE  Contract!Faithful'
BY Contract!StepFaithful, CompositionAssumption DEF Chain!ConstantsAssumption

\* So does what is proved of the API.
LEMMA WorkflowStep ==
    ASSUME Workflow!Base, [Workflow!Next]_(Workflow!vars)
    PROVE  Workflow!Kept
BY Workflow!NextKept, CompositionAssumption DEF Api!WorkflowAssumption

\* The view has the ledger's transactions.
LEMMA ViewOf ==
    ASSUME Contract!Faithful
    PROVE  /\ DOMAIN View = DOMAIN txs /\ Len(View) = Len(txs)
           /\ \A i \in DOMAIN txs : /\ View[i].event = txs[i].event
                                    /\ View[i].booking_id = txs[i].booking_id
<1>1. txs \in Seq(Contract!Tx)
  BY DEF Contract!Faithful, Contract!Typed, Contract!TypeOK
<1>2. DOMAIN txs = 1 .. Len(txs) /\ Len(txs) \in Nat
  BY <1>1
<1>3. QED
  BY <1>2 DEF View

----------------------------------------------------------------------------
(***************************************************************************)
(* Every step is one of the contract.                                      *)
(***************************************************************************)
\* A call carries what the API stored.
Carries(call) ==
    /\ call.by \in Account /\ call.id \in DOMAIN row
    /\ call.method \in Client!Method

\* The terms stored are of the kind the contract is offered.
TermsOffered ==
    /\ DOMAIN row \subseteq BookingRef
    /\ \A id \in DOMAIN row :
          /\ row[id].deposit \in OfferedDeposit
          /\ row[id].slot \in Slot /\ row[id].host \in Account

\* A call that succeeds is one of the contract's entry points.
LEMMA InvokeIs ==
    ASSUME TermsOffered, NEW call, Carries(call), Invoke(call)
    PROVE  /\ call.method = "create_booking" =>
                 Contract!CreateBooking(OnChain[call.id], call.by, row[call.id].host,
                                        row[call.id].deposit, visitTime(row[call.id].slot))
           /\ call.method = "fund_booking" => Contract!FundBooking(call.by, OnChain[call.id])
           /\ call.method = "cancel_booking" => Contract!CancelBooking(call.by, OnChain[call.id])
           /\ call.method = "confirm_visit" => Contract!ConfirmVisit(call.by, OnChain[call.id])
<1>1. CASE call.method = "create_booking"
  <2>1. Chain!CreateBooking(OnChain[call.id], call.by, row[call.id].host,
                            row[call.id].deposit, visitTime(row[call.id].slot))
    BY <1>1 DEF Invoke
  <2>2. QED
    BY <1>1, <2>1 DEF Chain!CreateBooking, Contract!CreateBooking, Chain!Initialized,
       Contract!Initialized, Chain!InstanceLive, Contract!InstanceLive, Chain!Extended,
       Contract!Extended, Chain!Publish, Contract!Publish
<1>2. CASE call.method = "fund_booking"
  BY <1>2 DEF Invoke, Chain!FundBooking, Contract!FundBooking,
     Chain!read_booking, Contract!read_booking, Chain!InstanceLive,
     Contract!InstanceLive, Chain!EntryLive, Contract!EntryLive, Chain!Transfer,
     Contract!Transfer, Chain!SetState, Contract!SetState, Chain!KeepAlive,
     Contract!KeepAlive, Chain!Extended, Contract!Extended, Chain!Publish, Contract!Publish
<1>3. CASE call.method = "cancel_booking"
  BY <1>3 DEF Invoke, Chain!CancelBooking, Contract!CancelBooking,
     Chain!read_booking, Contract!read_booking, Chain!InstanceLive,
     Contract!InstanceLive, Chain!EntryLive, Contract!EntryLive, Chain!Transfer,
     Contract!Transfer, Chain!SetState, Contract!SetState, Chain!KeepAlive,
     Contract!KeepAlive, Chain!Extended, Contract!Extended, Chain!Publish, Contract!Publish
<1>4. CASE call.method = "confirm_visit"
  BY <1>4 DEF Invoke, Chain!ConfirmVisit, Contract!ConfirmVisit,
     Chain!read_booking, Contract!read_booking, Chain!InstanceLive,
     Contract!InstanceLive, Chain!EntryLive, Contract!EntryLive, Chain!Transfer,
     Contract!Transfer, Chain!SetState, Contract!SetState, Chain!KeepAlive,
     Contract!KeepAlive, Chain!Extended, Contract!Extended, Chain!Publish, Contract!Publish
<1>5. QED
  BY <1>1, <1>2, <1>3, <1>4 DEF Carries, Client!Method

\* So it is a call of the contract.
LEMMA InvokeIsCall ==
    ASSUME TermsOffered, NEW call, Carries(call), Invoke(call)
    PROVE  Contract!Call(OnChain[call.id]) /\ OnChain[call.id] \in Contract!BookingId
<1>1. OnChain[call.id] \in Contract!BookingId
  BY CompositionAssumption DEF TermsOffered, Carries, Api!WorkflowAssumption,
     Chain!BookingId, Contract!BookingId
<1>2. /\ call.by \in Account /\ row[call.id].host \in Account
      /\ row[call.id].deposit \in OfferedDeposit
      /\ visitTime(row[call.id].slot) \in OfferedVisit
  BY CompositionAssumption DEF TermsOffered, Carries, visitTime
<1>3. QED
  BY <1>1, <1>2, InvokeIs DEF Contract!Call, Contract!Create, Carries, Client!Method

\* The network does to the contract what it does there.
LEMMA LedgerIsNetwork ==
    ASSUME Ledger
    PROVE  Contract!Next
<1>1. ASSUME NEW a \in Asset, Chain!Initialize(a)  PROVE Contract!Next
  <2>1. Contract!Initialize(a)
    BY <1>1 DEF Chain!Initialize, Contract!Initialize, Chain!InstanceLive,
       Contract!InstanceLive, Chain!Extended, Contract!Extended
  <2>2. QED
    BY <2>1 DEF Contract!Next
<1>2. ASSUME Chain!Network  PROVE Contract!Network
  BY <1>2 DEF Chain!Network, Contract!Network, Chain!CloseLedger, Contract!CloseLedger,
     Chain!RestoreInstance, Contract!RestoreInstance, Chain!RestoreBooking,
     Contract!RestoreBooking, Chain!SendTokens, Contract!SendTokens, Chain!InstanceLive,
     Contract!InstanceLive, Chain!EntryLive, Contract!EntryLive, Chain!BookingId,
     Contract!BookingId, Chain!Holder, Contract!Holder, Chain!storage, Contract!storage
<1>3. QED
  BY <1>1, <1>2 DEF Ledger, Contract!Next

----------------------------------------------------------------------------
(***************************************************************************)
(* Every step is one of the API, over what it sees of the ledger.          *)
(***************************************************************************)
\* The view stays when the ledger does.
LEMMA ViewStays == UNCHANGED txs => UNCHANGED View
BY DEF View

\* The await of a request on the RPC node.
LEMMA VerifyIsVerify ==
    ASSUME Contract!Faithful, Workflow!Base, NEW w \in Worker,
           NEW kind \in {"fund", "cancel", "confirm"}, NEW event, Api!Verify(w, kind, event)
    PROVE  Workflow!Verify(w, kind, event)
<1>1. requests[w] # Idle /\ requests[w].kind = kind /\ requests[w].stage = "received"
  BY DEF Api!Verify, Api!Serves
<1>2. requests[w].arg \in DOMAIN txs
  <2>1. Workflow!Good(requests[w])
    BY <1>1 DEF Workflow!Base, Workflow!Served
  <2>2. QED
    BY <1>1, <2>1, ViewOf DEF Workflow!Good
<1>3. Api!verifyEvent(requests[w].arg, requests[w].id, event)
         <=> Workflow!verifyEvent(requests[w].arg, requests[w].id, event)
  BY <1>2, ViewOf DEF Api!verifyEvent, Workflow!verifyEvent
<1>4. UNCHANGED <<row, payments, history, challenges, txs, rpcSeen, now>>
  BY DEF Api!Verify, Api!database, Api!ledgerVars
<1>5. UNCHANGED <<Workflow!database, Workflow!ledgerVars>>
  BY <1>4, ViewStays DEF Workflow!database, Workflow!ledgerVars
<1>6. IF requests[w].id \in DOMAIN row /\ Workflow!verifyEvent(requests[w].arg, requests[w].id, event)
      THEN requests' = [requests EXCEPT ![w].stage = "verified"]
      ELSE requests' = [requests EXCEPT ![w] = Idle]
  BY <1>3 DEF Api!Verify, Api!Proceed, Api!Answer
<1>7. QED
  BY <1>1, <1>5, <1>6 DEF Workflow!Verify, Workflow!Serves, Workflow!Proceed, Workflow!Answer

\* The service's check of the booking.
LEMMA CheckIsCheck ==
    ASSUME NEW w \in Worker, NEW kind, NEW from, NEW role, Api!Check(w, kind, from, role)
    PROVE  Workflow!Check(w, kind, from, role)
<1>1. UNCHANGED <<row, payments, history, challenges, txs, rpcSeen, now>>
  BY DEF Api!Check, Api!database, Api!ledgerVars
<1>2. UNCHANGED <<Workflow!database, Workflow!ledgerVars>>
  BY <1>1, ViewStays DEF Workflow!database, Workflow!ledgerVars
<1>3. QED
  BY <1>2 DEF Api!Check, Workflow!Check, Api!Serves, Workflow!Serves, Api!Proceed,
     Workflow!Proceed, Api!Answer, Workflow!Answer

\* Every await of a request.
LEMMA ServeIsServe ==
    ASSUME Contract!Faithful, Workflow!Base, NEW w \in Worker, Api!Serve(w)
    PROVE  Workflow!Serve(w)
<1> USE DEF Api!Serves, Workflow!Serves, Api!Answer, Workflow!Answer,
            Api!ledgerVars, Workflow!ledgerVars, Api!database, Workflow!database,
            Api!Proceed, Workflow!Proceed, Api!StillIn, Workflow!StillIn,
            Api!SetStatus, Workflow!SetStatus, Api!Record, Workflow!Record,
            Api!HashIsNew, Workflow!HashIsNew, Api!Paid, Workflow!Paid,
            Api!NoHash, Workflow!NoHash
<1>1. CASE Api!FundVerify(w)
  BY <1>1, VerifyIsVerify DEF Api!FundVerify, Workflow!FundVerify, Workflow!Serve
<1>2. CASE Api!CancelVerify(w)
  BY <1>2, VerifyIsVerify DEF Api!CancelVerify, Workflow!CancelVerify, Workflow!Serve
<1>3. CASE Api!ConfirmVerify(w)
  BY <1>3, VerifyIsVerify DEF Api!ConfirmVerify, Workflow!ConfirmVerify, Workflow!Serve
<1>4. CASE Api!FundCheck(w)
  BY <1>4, CheckIsCheck DEF Api!FundCheck, Workflow!FundCheck, Workflow!Serve
<1>5. CASE Api!RefundCheck(w)
  BY <1>5, CheckIsCheck DEF Api!RefundCheck, Workflow!RefundCheck, Workflow!Serve
<1>6. CASE Api!CheckInCheck(w)
  BY <1>6, CheckIsCheck DEF Api!CheckInCheck, Workflow!CheckInCheck, Workflow!Serve
<1>7. CASE Api!ConfirmCheck(w)
  BY <1>7, CheckIsCheck DEF Api!ConfirmCheck, Workflow!ConfirmCheck, Workflow!Serve
<1>8. CASE Api!FundCommit(w)
  <2>1. Workflow!FundCommit(w)
    BY <1>8, ViewStays DEF Api!FundCommit, Workflow!FundCommit
  <2>2. QED
    BY <2>1 DEF Workflow!Serve
<1>9. CASE Api!RefundCommit(w)
  <2>1. Workflow!RefundCommit(w)
    BY <1>9, ViewStays DEF Api!RefundCommit, Workflow!RefundCommit
  <2>2. QED
    BY <2>1 DEF Workflow!Serve
<1>10. CASE Api!FindChallenge(w)
  <2>1. Workflow!FindChallenge(w)
    BY <1>10, ViewStays DEF Api!FindChallenge, Workflow!FindChallenge
  <2>2. QED
    BY <2>1 DEF Workflow!Serve
<1>11. CASE Api!SpendChallenge(w)
  <2>1. Workflow!SpendChallenge(w)
    BY <1>11, ViewStays DEF Api!SpendChallenge, Workflow!SpendChallenge
  <2>2. QED
    BY <2>1 DEF Workflow!Serve
<1>12. CASE Api!CheckInUpdate(w)
  <2>1. Workflow!CheckInUpdate(w)
    BY <1>12, ViewStays DEF Api!CheckInUpdate, Workflow!CheckInUpdate
  <2>2. QED
    BY <2>1 DEF Workflow!Serve
<1>13. CASE Api!CheckInHistory(w)
  <2>1. Workflow!CheckInHistory(w)
    BY <1>13, ViewStays DEF Api!CheckInHistory, Workflow!CheckInHistory
  <2>2. QED
    BY <2>1 DEF Workflow!Serve
<1>14. CASE Api!ConfirmUpdate(w)
  <2>1. Workflow!ConfirmUpdate(w)
    BY <1>14, ViewStays DEF Api!ConfirmUpdate, Workflow!ConfirmUpdate
  <2>2. QED
    BY <2>1 DEF Workflow!Serve
<1>15. CASE Api!ConfirmHistory(w)
  <2>1. Workflow!ConfirmHistory(w)
    BY <1>15, ViewStays DEF Api!ConfirmHistory, Workflow!ConfirmHistory
  <2>2. QED
    BY <2>1 DEF Workflow!Serve
<1>16. CASE Api!FindSlot(w)
  <2>1. Workflow!FindSlot(w)
    BY <1>16, ViewStays DEF Api!FindSlot, Workflow!FindSlot, Api!SlotIsFree,
       Workflow!SlotIsFree
  <2>2. QED
    BY <2>1 DEF Workflow!Serve
<1>17. CASE Api!InsertBooking(w)
  <2>1. Workflow!InsertBooking(w)
    BY <1>17, ViewStays DEF Api!InsertBooking, Workflow!InsertBooking, Api!SlotIsFree,
       Workflow!SlotIsFree, Api!Insertable, Workflow!Insertable, Api!Put, Workflow!Put,
       Api!NoProof, Workflow!NoProof
  <2>2. QED
    BY <2>1 DEF Workflow!Serve
<1>18. QED
  BY <1>1, <1>2, <1>3, <1>4, <1>5, <1>6, <1>7, <1>8, <1>9, <1>10, <1>11, <1>12, <1>13,
     <1>14, <1>15, <1>16, <1>17 DEF Api!Serve

\* An event about c that its state allows.
Publishes(c, event, amount, by) ==
    /\ txs' = Append(txs, [event |-> event, booking_id |-> c, amount |-> amount,
                           by |-> by, at |-> now])
    /\ now' = now
    /\ \/ event = "BookingCreated" /\ c \notin DOMAIN bookings
       \/ /\ c \in DOMAIN bookings
          /\ \/ event = "BookingFunded" /\ bookings[c].state = "Created"
             \/ /\ event = "DepositRefunded"
                /\ bookings[c].state \in {"Created", "Funded"}
             \/ event = "VisitConfirmed" /\ bookings[c].state = "Funded"

\* A contract call that succeeds publishes the event of its method, which the state of
\* its booking allows.
LEMMA InvokePublishes ==
    ASSUME TermsOffered, NEW call, Carries(call), Invoke(call), NEW c, c = OnChain[call.id]
    PROVE  \E event, amount, by :
              /\ Publishes(c, event, amount, by)
              /\ event = "BookingFunded" <=> call.method = "fund_booking"
<1>1. CASE call.method = "create_booking"
  <2>1. Publishes(c, "BookingCreated", row[call.id].deposit, call.by)
    BY <1>1 DEF Publishes, Invoke, Chain!CreateBooking, Chain!Publish
  <2>2. QED
    BY <1>1, <2>1
<1>2. CASE call.method = "fund_booking"
  <2>1. Publishes(c, "BookingFunded", bookings[c].deposit_amount, call.by)
    BY <1>2 DEF Publishes, Invoke, Chain!FundBooking, Chain!Publish, Chain!read_booking,
       Chain!EntryLive
  <2>2. QED
    BY <1>2, <2>1
<1>3. CASE call.method = "cancel_booking"
  <2>1. Publishes(c, "DepositRefunded", bookings[c].deposit_amount, call.by)
    BY <1>3 DEF Publishes, Invoke, Chain!CancelBooking, Chain!Publish, Chain!read_booking,
       Chain!EntryLive
  <2>2. QED
    BY <1>3, <2>1
<1>4. CASE call.method = "confirm_visit"
  <2>1. Publishes(c, "VisitConfirmed", bookings[c].deposit_amount, call.by)
    BY <1>4 DEF Publishes, Invoke, Chain!ConfirmVisit, Chain!Publish, Chain!read_booking,
       Chain!EntryLive
  <2>2. QED
    BY <1>4, <2>1
<1>5. QED
  BY <1>1, <1>2, <1>3, <1>4 DEF Carries, Client!Method

\* The view grows by the event and its booking.
LEMMA ViewGrows ==
    ASSUME txs \in Seq(Contract!Tx), NEW tx \in Contract!Tx, txs' = Append(txs, tx)
    PROVE  View' = Append(View, [event |-> tx.event, booking_id |-> tx.booking_id])
<1> DEFINE R == [event : Contract!Event, booking_id : Contract!BookingId]
           Seen(x) == [event |-> x.event, booking_id |-> x.booking_id]
           n == Len(txs)
<1>1. n \in Nat /\ DOMAIN txs = 1 .. n /\ DOMAIN txs' = 1 .. n + 1
  OBVIOUS
<1>2. \A i \in 1 .. n : txs'[i] = txs[i]
  OBVIOUS
<1>3. txs'[n + 1] = tx
  OBVIOUS
<1>4. \A x \in Contract!Tx : Seen(x) \in R
  BY DEF Contract!Tx
<1>5. \A i \in 1 .. n : txs[i] \in Contract!Tx
  BY <1>1
<1>6. View = [i \in 1 .. n |-> Seen(txs[i])]
  BY <1>1 DEF View
<1>7. View' = [i \in 1 .. n + 1 |-> Seen(txs'[i])]
  BY <1>1 DEF View
<1> HIDE DEF R, Seen
<1>8. View \in [1 .. n -> R]
  BY <1>4, <1>5, <1>6
<1> HIDE DEF n
<1>9. View \in Seq(R) /\ Len(View) = n
  BY <1>1, <1>8
<1>10. Seen(tx) \in R
  BY <1>4
<1>11. PICK s : s = Append(View, Seen(tx))
  OBVIOUS
<1>12. s \in Seq(R) /\ Len(s) = n + 1
  BY <1>1, <1>9, <1>10, <1>11
<1>13. DOMAIN s = 1 .. n + 1
  BY <1>12
<1>14. \A i \in 1 .. n : s[i] = View[i]
  BY <1>1, <1>9, <1>10, <1>11
<1>15. s[n + 1] = Seen(tx)
  BY <1>1, <1>9, <1>10, <1>11
<1>16. \A i \in 1 .. n + 1 : s[i] = Seen(txs'[i])
  <2> SUFFICES ASSUME NEW i \in 1 .. n + 1  PROVE s[i] = Seen(txs'[i])
    OBVIOUS
  <2>1. CASE i \in 1 .. n
    BY <1>2, <1>6, <1>14, <2>1
  <2>2. CASE i = n + 1
    BY <1>3, <1>15, <2>2
  <2>3. QED
    BY <1>1, <2>1, <2>2
<1>17. s = [i \in 1 .. n + 1 |-> s[i]]
  BY <1>12, <1>13
<1>18. s = View'
  BY <1>7, <1>16, <1>17
<1>19. QED
  BY <1>11, <1>18 DEF Seen

\* The event of a call is one the API takes the ledger to publish.
LEMMA IncludePublishes ==
    ASSUME Contract!Faithful, Contract!Faithful', TermsOffered, NEW call, Carries(call),
           Invoke(call), UNCHANGED <<row, payments, history, challenges, requests, rpcSeen>>
    PROVE  Workflow!Next
<1>1. PICK c : c = OnChain[call.id]
  OBVIOUS
<1>2. c \in ChainId /\ c \in Contract!BookingId
  BY <1>1, InvokeIsCall, CompositionAssumption DEF Chain!BookingId, Contract!BookingId
<1>3. PICK event, amount, by : Publishes(c, event, amount, by)
  BY <1>1, InvokePublishes
<1>4. PICK tx : tx = [event |-> event, booking_id |-> c, amount |-> amount,
                      by |-> by, at |-> now]
  OBVIOUS
<1>5. /\ txs \in Seq(Contract!Tx) /\ txs' \in Seq(Contract!Tx) /\ txs' = Append(txs, tx)
  BY <1>3, <1>4 DEF Publishes, Contract!Faithful, Contract!Typed, Contract!TypeOK
<1>6. tx \in Contract!Tx
  <2>1. txs'[Len(txs) + 1] = tx /\ Len(txs) + 1 \in DOMAIN txs'
    BY <1>5
  <2>2. QED
    BY <1>5, <2>1
<1>7. View' = Append(View, [event |-> event, booking_id |-> c])
  <2>1. tx.event = event /\ tx.booking_id = c
    BY <1>4
  <2>2. QED
    BY <1>5, <1>6, <2>1, ViewGrows
<1>8. \A e : Workflow!Published(c, e) <=> Contract!Published(c, e)
  BY ViewOf DEF Workflow!Published, Contract!Published
<1>9. /\ ~ Contract!Published(c, event)
      /\ ~ Contract!Published(c, "DepositRefunded") /\ ~ Contract!Published(c, "VisitConfirmed")
      /\ event # "BookingCreated" => Contract!Published(c, "BookingCreated")
      /\ event = "VisitConfirmed" => Contract!Published(c, "BookingFunded")
  <2>1. CASE c \notin DOMAIN bookings
    <3>1. \A e : ~ Contract!Published(c, e)
      BY <2>1 DEF Contract!Faithful, Contract!EventsTellTheState, Contract!Published
    <3>2. QED
      BY <1>3, <2>1, <3>1 DEF Publishes
  <2>2. CASE c \in DOMAIN bookings
    BY <1>3, <2>2 DEF Publishes, Contract!Faithful, Contract!EventsTellTheState
  <2>3. QED
    BY <2>1, <2>2
<1>10. Workflow!LedgerPublishes(c, event)
  BY <1>3, <1>7, <1>8, <1>9 DEF Publishes, Workflow!LedgerPublishes, Workflow!Settled, Workflow!apiVars
<1>11. event \in {"BookingCreated", "BookingFunded", "DepositRefunded", "VisitConfirmed"}
  BY <1>3 DEF Publishes
<1>12. QED
  BY <1>2, <1>10, <1>11 DEF Workflow!Next, Workflow!Up

----------------------------------------------------------------------------
(***************************************************************************)
(* What a page has seen of its booking stays true while it is open.        *)
(***************************************************************************)
Arrived == {"CHECKED_IN", "COMPLETED"}

Seen == Workflow!Status \cup {Client!NotShown}
Page == [stage : {"loaded"}, id : BookingRef, status : Seen]
           \cup [stage : {"booking", "call", "sent", "report"}, method : Client!Method,
                 id : BookingRef, status : Seen]

\* Page t of account a is a form that waits for the API, or of a stored booking; it
\* creates escrows for renters only, confirms only what has been checked in, and reports
\* every call but a creation.
Fits(a, t) ==
    /\ t.stage = "booking" => t.method = "create_booking" /\ t.status = Client!NotShown
    /\ t.stage # "booking" => t.id \in DOMAIN row
    /\ t.status = "CHECKED_IN" => row[t.id].status \in Arrived
    /\ t.stage \notin {"booking", "loaded"} =>
          /\ t.method = "create_booking" => row[t.id].renter = a
          /\ t.method = "confirm_visit" => row[t.id].status \in Arrived
    /\ t.stage = "report" => t.method # "create_booking"

\* And so are the calls it has sent.
CallFits(call) ==
    /\ Carries(call)
    /\ call.method = "create_booking" => row[call.id].renter = call.by
    /\ call.method = "confirm_visit" => row[call.id].status \in Arrived

PagesFit ==
    /\ tabs \in [Account -> Page \cup {Idle}]
    /\ \A a \in Account : tabs[a] # Idle => Fits(a, tabs[a])
    /\ \A call \in DOMAIN sent : CallFits(call)

\* A booking stays stored, with its renter, and stays checked in.
LEMMA RowsGrow ==
    ASSUME Workflow!Kept, NEW id \in DOMAIN row
    PROVE  /\ id \in DOMAIN row' /\ row'[id].renter = row[id].renter
           /\ row'[id].host = row[id].host /\ row'[id].slot = row[id].slot
           /\ row'[id].deposit = row[id].deposit
           /\ row[id].status \in Arrived => row'[id].status \in Arrived
<1>1. /\ id \in DOMAIN row'
      /\ \/ row'[id].status = row[id].status
         \/ <<row[id].status, row'[id].status>> \in Workflow!Edge
      /\ \A field \in {"slot", "renter", "host", "deposit"} : row'[id][field] = row[id][field]
  BY DEF Workflow!Kept, Workflow!Grows, Workflow!MovesAlongThePath
<1>2. row[id].status \in Arrived => row'[id].status \in Arrived
  BY <1>1 DEF Arrived, Workflow!Edge
<1>3. /\ row'[id].renter = row[id].renter /\ row'[id].host = row[id].host
      /\ row'[id].slot = row[id].slot /\ row'[id].deposit = row[id].deposit
  BY <1>1
<1>4. QED
  BY <1>1, <1>2, <1>3

\* So an open page keeps fitting.
LEMMA FitsStays ==
    ASSUME Workflow!Kept, NEW a, NEW t, Fits(a, t)
    PROVE  Fits(a, t)'
BY RowsGrow DEF Fits, Client!NotShown

\* A call that was sent keeps fitting as well.
LEMMA CallFitsStays ==
    ASSUME Workflow!Kept, NEW call, CallFits(call)
    PROVE  CallFits(call)'
BY RowsGrow DEF CallFits, Carries

\* Pages and calls that do not change.
LEMMA PagesStay ==
    ASSUME Workflow!Kept, PagesFit, UNCHANGED clientVars
    PROVE  PagesFit'
<1>1. tabs' = tabs /\ sent' = sent
  BY DEF clientVars
<1>2. ASSUME NEW a \in Account, tabs'[a] # Idle  PROVE Fits(a, tabs[a])'
  <2>1. PICK t : t = tabs[a]
    OBVIOUS
  <2>2. Fits(a, t)
    BY <1>1, <1>2, <2>1 DEF PagesFit, Fits
  <2>3. Fits(a, t)'
    BY <2>2, FitsStays
  <2>4. QED
    BY <1>1, <2>1, <2>3 DEF Fits
<1>3. QED
  BY <1>1, <1>2, CallFitsStays DEF PagesFit

\* One page goes on to t, and its call may be sent.
LEMMA PageGoes ==
    ASSUME Workflow!Kept, PagesFit, NEW a \in Account, NEW t, Client!Goes(a, t),
           t = Idle \/ (t \in Page /\ Fits(a, t)'),
           \A call \in DOMAIN sent' : call \in DOMAIN sent \/ CallFits(call)'
    PROVE  PagesFit'
<1>1. /\ tabs' \in [Account -> Page \cup {Idle}] /\ tabs'[a] = t
      /\ \A b \in Account : b # a => tabs'[b] = tabs[b]
  BY DEF PagesFit, Client!Goes
<1>2. ASSUME NEW b \in Account, tabs'[b] # Idle  PROVE Fits(b, tabs[b])'
  <2>1. CASE b = a
    BY <1>1, <1>2, <2>1 DEF Fits
  <2>2. CASE b # a
    <3>1. PICK u : u = tabs[b]
      OBVIOUS
    <3>2. Fits(b, u)
      BY <1>1, <1>2, <2>2, <3>1 DEF PagesFit, Fits
    <3>3. Fits(b, u)'
      BY <3>2, FitsStays
    <3>4. QED
      BY <1>1, <2>2, <3>1, <3>3 DEF Fits
  <2>3. QED
    BY <2>1, <2>2
<1>3. \A call \in DOMAIN sent' : CallFits(call)'
  BY CallFitsStays DEF PagesFit
<1>4. QED
  BY <1>1, <1>2, <1>3 DEF PagesFit

\* A page that is done shows what it showed.
LEMMA LeftFits ==
    ASSUME PagesFit, NEW a \in Account, tabs[a] # Idle, NEW t, t = Client!Left(a)
    PROVE  t = Idle \/ (t \in Page /\ Fits(a, t))
<1>1. PICK u : u = tabs[a]
  OBVIOUS
<1>2. u \in Page /\ Fits(a, u)
  BY <1>1 DEF PagesFit, Fits
<1>3. u.id \in BookingRef /\ u.status \in Seen
  BY <1>2 DEF Page
<1>4. CASE u.status = Client!NotShown
  BY <1>1, <1>4 DEF Client!Left
<1>5. CASE u.status # Client!NotShown
  <2>1. t = [stage |-> "loaded", id |-> u.id, status |-> u.status]
    BY <1>1, <1>5 DEF Client!Left, Client!Shown
  <2>2. t \in Page
    BY <1>3, <2>1 DEF Page
  <2>3. t.stage = "loaded" /\ t.id = u.id /\ t.status = u.status
    BY <2>1
  <2>4. QED
    BY <1>2, <1>5, <2>2, <2>3 DEF Fits
<1>6. QED
  BY <1>4, <1>5

----------------------------------------------------------------------------
(***************************************************************************)
(* Every step of the whole is a step or a stutter of contract and API.     *)
(***************************************************************************)
Whole == Contract!Faithful /\ Workflow!Base /\ TermsOffered /\ PagesFit

\* What leaves ledger and contract alone is a stutter of the contract.
LEMMA ContractStutters ==
    ASSUME UNCHANGED <<contractVars, txs, now>>
    PROVE  [Contract!Next]_(Contract!vars)
BY DEF contractVars, Contract!vars

\* What leaves ledger and API alone is a stutter of the API.
LEMMA WorkflowStutters ==
    ASSUME UNCHANGED <<apiVars, txs, rpcSeen, now>>
    PROVE  [Workflow!Next]_(Workflow!vars)
BY ViewStays DEF apiVars, Workflow!vars

\* A request, whoever posts it.
LEMMA SubmitIsPost ==
    ASSUME Whole, NEW w \in Worker, NEW kind \in Workflow!Kind, NEW id \in BookingRef,
           NEW actor \in Account, NEW arg, Api!Submit(w, kind, id, actor, arg)
    PROVE  Workflow!Next /\ UNCHANGED <<txs, now>>
<1>1. UNCHANGED <<row, payments, history, challenges, txs, rpcSeen, now>>
  BY DEF Api!Submit, Api!database, Api!ledgerVars
<1>2. arg \in DOMAIN View \cup DOMAIN challenges
  BY ViewOf DEF Api!Submit, Whole
<1>3. Workflow!Submit(w, kind, id, actor, arg)
  BY <1>1, ViewOf, ViewStays DEF Whole, Api!Submit, Workflow!Submit, Workflow!database,
     Workflow!ledgerVars
<1>4. Workflow!Post
  BY <1>2, <1>3 DEF Workflow!Post
<1>5. QED
  BY <1>1, <1>4 DEF Workflow!Next, Workflow!Up

\* The form books.
LEMMA BookSteps ==
    ASSUME Whole, NEW a \in Account, NEW w \in Worker, NEW id \in BookingRef,
           NEW slot \in Slot, NEW deposit \in OfferedDeposit, Book(a, w, id, slot, deposit)
    PROVE  Workflow!Next /\ [Contract!Next]_(Contract!vars)
<1>1. Api!Create(w, id, slot, a, SlotHost[slot], deposit) /\ UNCHANGED contractVars
  BY DEF Book
<1>2. UNCHANGED <<row, payments, history, challenges, txs, rpcSeen, now>>
  BY <1>1 DEF Api!Create, Api!database, Api!ledgerVars
<1>3. Workflow!Create(w, id, slot, a, SlotHost[slot], deposit)
  BY <1>1, <1>2, ViewStays DEF Api!Create, Workflow!Create, Api!DepositAccepted,
     Workflow!DepositAccepted, Api!VisitAhead, Workflow!VisitAhead, Workflow!database,
     Workflow!ledgerVars
<1>4. SlotHost[slot] \in Account
  BY CompositionAssumption DEF Api!WorkflowAssumption
<1>5. Workflow!Post
  BY <1>3, <1>4 DEF Workflow!Post
<1>6. QED
  BY <1>1, <1>2, <1>5, ContractStutters DEF Workflow!Next, Workflow!Up

\* The host asks for a code.
LEMMA ShowCodeSteps ==
    ASSUME Whole, NEW a \in Account, NEW id \in BookingRef, NEW nonce \in Nonce,
           ShowCode(a, id, nonce)
    PROVE  Workflow!Next /\ [Contract!Next]_(Contract!vars)
<1>1. Api!IssueChallenge(id, a, nonce) /\ UNCHANGED contractVars
  BY DEF ShowCode
<1>2. UNCHANGED <<txs, rpcSeen, now>>
  BY <1>1 DEF Api!IssueChallenge, Api!ledgerVars
<1>3. Workflow!IssueChallenge(id, a, nonce)
  BY <1>1, <1>2, ViewStays DEF Api!IssueChallenge, Workflow!IssueChallenge, Api!Put,
     Workflow!Put, Api!ledgerVars, Workflow!ledgerVars
<1>4. Workflow!Post
  BY <1>3 DEF Workflow!Post
<1>5. QED
  BY <1>1, <1>2, <1>4, ContractStutters DEF Workflow!Next, Workflow!Up

\* A page reports a call that was included, in the request of its method.
LEMMA ReportSteps ==
    ASSUME Whole, NEW a \in Account, NEW w \in Worker, Report(a, w)
    PROVE  Workflow!Next /\ [Contract!Next]_(Contract!vars)
<1>1. PICK kind \in Workflow!Kind : kind = KindOf(tabs[a].method)
  <2>1. PICK t : t = tabs[a]
    OBVIOUS
  <2>2. t # Idle /\ t.stage = "report"
    BY <2>1 DEF Report, Client!Posted, Client!At
  <2>3. t \in Page /\ t.method # "create_booking"
    BY <2>1, <2>2 DEF Whole, PagesFit, Fits
  <2>4. t.method \in {"fund_booking", "cancel_booking", "confirm_visit"}
    BY <2>2, <2>3 DEF Page, Client!Method
  <2>5. KindOf(t.method) \in Workflow!Kind
    BY <2>4 DEF KindOf, Workflow!Kind
  <2>6. QED
    BY <2>1, <2>5
<1>2. PICK id : id = tabs[a].id
  OBVIOUS
<1>3. PICK arg : arg = sent[Client!CallOf(a)]
  OBVIOUS
<1>4. Api!Submit(w, kind, id, a, arg) /\ UNCHANGED contractVars
  BY <1>1, <1>2, <1>3 DEF Report
<1>5. id \in BookingRef
  <2>1. PICK t : t = tabs[a]
    OBVIOUS
  <2>2. t # Idle /\ t.stage = "report"
    BY <2>1 DEF Report, Client!Posted, Client!At
  <2>3. QED
    BY <1>2, <2>1, <2>2 DEF Whole, PagesFit, Page
<1>6. QED
  BY <1>4, <1>5, SubmitIsPost, ContractStutters

\* A request goes on, ends or is lost, and the RPC node catches up.
LEMMA ApiSteps ==
    ASSUME Whole,
           \/ \E w \in Worker : Serve(w) \/ Fails(w)
           \/ Restart
           \/ RpcCatchesUp
    PROVE  Workflow!Next /\ [Contract!Next]_(Contract!vars)
<1>1. ASSUME NEW w \in Worker, Serve(w)
      PROVE  Workflow!Next /\ [Contract!Next]_(Contract!vars)
  <2>1. Workflow!Serve(w)
    BY <1>1, ServeIsServe DEF Serve, Whole
  <2>2. UNCHANGED <<contractVars, txs, now>>
    <3>1. UNCHANGED <<txs, now>>
      BY <1>1 DEF Serve, Api!Serve, Api!FundVerify, Api!FundCheck, Api!FundCommit,
         Api!CancelVerify, Api!RefundCheck, Api!RefundCommit, Api!FindChallenge,
         Api!SpendChallenge, Api!CheckInCheck, Api!CheckInUpdate, Api!CheckInHistory,
         Api!ConfirmVerify, Api!ConfirmCheck, Api!ConfirmUpdate, Api!ConfirmHistory,
         Api!Verify, Api!Check, Api!FindSlot, Api!InsertBooking, Api!ledgerVars
    <3>2. QED
      BY <1>1, <3>1 DEF Serve
  <2>3. QED
    BY <2>1, <2>2, ContractStutters DEF Workflow!Next, Workflow!Up
<1>2. ASSUME NEW w \in Worker, Fails(w)
      PROVE  Workflow!Next /\ [Contract!Next]_(Contract!vars)
  <2>1. UNCHANGED <<contractVars, row, payments, history, challenges, txs, rpcSeen, now>>
    BY <1>2 DEF Fails, Api!Fails, Api!database, Api!ledgerVars
  <2>2. Workflow!Fails(w)
    BY <1>2, <2>1, ViewStays DEF Fails, Api!Fails, Workflow!Fails, Api!Answer,
       Workflow!Answer, Workflow!database, Workflow!ledgerVars
  <2>3. QED
    BY <2>1, <2>2, ContractStutters DEF Workflow!Next
<1>3. CASE Restart
  <2>1. UNCHANGED <<contractVars, row, payments, history, challenges, txs, rpcSeen, now>>
    BY <1>3 DEF Restart, Api!Restart, Api!database, Api!ledgerVars
  <2>2. Workflow!Restart
    BY <1>3, <2>1, ViewStays DEF Restart, Api!Restart, Workflow!Restart,
       Workflow!database, Workflow!ledgerVars
  <2>3. QED
    BY <2>1, <2>2, ContractStutters DEF Workflow!Next
<1>4. CASE RpcCatchesUp
  <2>1. UNCHANGED <<contractVars, row, payments, history, challenges, requests, txs, now>>
    BY <1>4 DEF RpcCatchesUp, Api!RpcCatchesUp, Api!apiVars
  <2>2. Workflow!RpcCatchesUp
    BY <1>4, <2>1, ViewStays, ViewOf DEF Whole, RpcCatchesUp, Api!RpcCatchesUp,
       Workflow!RpcCatchesUp, Workflow!apiVars
  <2>3. QED
    BY <2>1, <2>2, ContractStutters DEF Workflow!Next, Workflow!Up
<1>5. QED
  BY <1>1, <1>2, <1>3, <1>4

\* A transaction is included.
LEMMA IncludeSteps ==
    ASSUME Whole, NEW call \in DOMAIN sent, Include(call)
    PROVE  Workflow!Next /\ Contract!Next
<1>1. Carries(call) /\ Invoke(call) /\ UNCHANGED <<apiVars, rpcSeen>>
  BY DEF Include, Whole, PagesFit, CallFits
<1>2. Contract!Next
  BY <1>1, InvokeIsCall DEF Whole, Contract!Next
<1>3. Contract!Faithful'
  BY <1>2, ContractStep DEF Whole
<1>4. Workflow!Next
  BY <1>1, <1>3, IncludePublishes DEF Whole, apiVars
<1>5. QED
  BY <1>2, <1>4

\* The network goes on: its clock is the API's.
LEMMA LedgerSteps ==
    ASSUME Whole, Ledger
    PROVE  [Workflow!Next]_(Workflow!vars) /\ Contract!Next
<1>1. Contract!Next
  BY LedgerIsNetwork
<1>2. UNCHANGED <<row, payments, history, challenges, requests, rpcSeen>>
  BY DEF Ledger, apiVars
<1>3. UNCHANGED txs
  BY DEF Ledger, Chain!Initialize, Chain!Network, Chain!CloseLedger, Chain!RestoreInstance,
     Chain!RestoreBooking, Chain!SendTokens
<1>4. UNCHANGED now \/ (now < MaxTime /\ now' = now + 1)
  BY DEF Ledger, Chain!Initialize, Chain!Network, Chain!CloseLedger, Chain!RestoreInstance,
     Chain!RestoreBooking, Chain!SendTokens
<1>5. CASE UNCHANGED now
  BY <1>1, <1>2, <1>3, <1>5, WorkflowStutters DEF apiVars
<1>6. CASE now < MaxTime /\ now' = now + 1
  <2>1. Workflow!Tick
    BY <1>2, <1>3, <1>6, ViewStays DEF Workflow!Tick, Workflow!apiVars
  <2>2. QED
    BY <1>1, <2>1 DEF Workflow!Next, Workflow!Up
<1>7. QED
  BY <1>4, <1>5, <1>6

\* The renter enters a code.
LEMMA EnterCodeSteps ==
    ASSUME Whole, NEW a \in Account, NEW id \in BookingRef, NEW w \in Worker,
           NEW nonce, EnterCode(a, id, w, nonce)
    PROVE  Workflow!Next /\ [Contract!Next]_(Contract!vars)
<1>1. Api!Submit(w, "check-in", id, a, nonce) /\ UNCHANGED contractVars
  BY DEF EnterCode
<1>2. "check-in" \in Workflow!Kind
  BY DEF Workflow!Kind
<1>3. QED
  BY <1>1, <1>2, SubmitIsPost, ContractStutters

\* What leaves contract, ledger and API alone.
Apart == UNCHANGED <<contractVars, txs, now, rpcSeen, apiVars>>

\* The steps of the whole, by what they change.
Moved ==
    \/ Apart
    \/ \E a \in Account, id \in BookingRef :
          \/ \E w \in Worker, slot \in Slot, deposit \in OfferedDeposit :
                Book(a, w, id, slot, deposit)
          \/ \E nonce \in Nonce : ShowCode(a, id, nonce) \/ \E w \in Worker : EnterCode(a, id, w, nonce)
    \/ \E a \in Account, w \in Worker : Report(a, w)
    \/ \E call \in DOMAIN sent : Include(call)
    \/ Ledger
    \/ (\E w \in Worker : Serve(w) \/ Fails(w)) \/ Restart \/ RpcCatchesUp

\* Every step is one of them.
LEMMA NextMoves ==
    ASSUME [Next]_vars
    PROVE  Moved
<1>1. ASSUME Pages  PROVE Moved
  BY <1>1 DEF Pages, Moved, Apart, Booked, Load, Press
<1>2. ASSUME NEW a \in Account, Wallet(a)  PROVE Moved
  BY <1>2 DEF Wallet, Moved, Apart, Send, Confirmed
<1>3. ASSUME NEW a \in Account, GiveUp(a) \/ Abandon(a)  PROVE Moved
  BY <1>3 DEF Moved, Apart, GiveUp, Abandon
<1>4. ASSUME NEW call \in DOMAIN sent, Include(call) \/ Lose(call)  PROVE Moved
  BY <1>4 DEF Moved, Apart, Lose
<1>5. ASSUME UNCHANGED vars  PROVE Moved
  BY <1>5 DEF Moved, Apart, vars, apiVars, contractVars
<1>6. QED
  BY <1>1, <1>2, <1>3, <1>4, <1>5 DEF Next, Delayed, Smooth, Moved

\* So every step is one of the contract and one of the API, or leaves them alone.
LEMMA StepsOfParts ==
    ASSUME Whole, Moved
    PROVE  [Workflow!Next]_(Workflow!vars) /\ [Contract!Next]_(Contract!vars)
<1>1. CASE Apart
  BY <1>1, ContractStutters, WorkflowStutters DEF Apart, contractVars, apiVars
<1>2. ASSUME NEW a \in Account, NEW w \in Worker, NEW id \in BookingRef, NEW slot \in Slot,
             NEW deposit \in OfferedDeposit, Book(a, w, id, slot, deposit)
      PROVE  Workflow!Next /\ [Contract!Next]_(Contract!vars)
  BY <1>2, BookSteps
<1>3. ASSUME NEW a \in Account, NEW id \in BookingRef, NEW nonce \in Nonce,
             ShowCode(a, id, nonce) \/ \E w \in Worker : EnterCode(a, id, w, nonce)
      PROVE  Workflow!Next /\ [Contract!Next]_(Contract!vars)
  BY <1>3, ShowCodeSteps, EnterCodeSteps
<1>4. ASSUME NEW a \in Account, NEW w \in Worker, Report(a, w)
      PROVE  Workflow!Next /\ [Contract!Next]_(Contract!vars)
  BY <1>4, ReportSteps
<1>5. ASSUME NEW call \in DOMAIN sent, Include(call)
      PROVE  Workflow!Next /\ Contract!Next
  BY <1>5, IncludeSteps
<1>6. QED
  BY <1>1, <1>2, <1>3, <1>4, <1>5, LedgerSteps, ApiSteps DEF Moved

\* And keeps what is proved of them.
LEMMA PartsKept ==
    ASSUME Whole, [Next]_vars
    PROVE  Contract!Faithful' /\ Workflow!Kept
BY NextMoves, StepsOfParts, ContractStep, WorkflowStep DEF Whole

----------------------------------------------------------------------------
(***************************************************************************)
(* The parts fit each other for good.                                      *)
(***************************************************************************)
\* A booking is stored as the form offers it.
LEMMA TermsStay ==
    ASSUME Whole, [Next]_vars
    PROVE  TermsOffered'
<1>1. Workflow!Kept
  BY PartsKept
<1>2. DOMAIN row' \subseteq BookingRef
  BY <1>1 DEF Workflow!Kept, Workflow!Base, Workflow!TypeOK
<1>3. ASSUME NEW id \in DOMAIN row'
      PROVE  /\ row'[id].deposit \in OfferedDeposit
             /\ row'[id].slot \in Slot /\ row'[id].host \in Account
  <2>1. row'[id] \in Workflow!Row
    BY <1>1, <1>3 DEF Workflow!Kept, Workflow!Base, Workflow!TypeOK
  <2>2. QED
    BY <2>1 DEF Workflow!Row, Workflow!AskedDeposit
<1>4. QED
  BY <1>2, <1>3 DEF TermsOffered

\* The form that books waits for the API.
LEMMA BookFits ==
    ASSUME Whole, Workflow!Kept, NEW a \in Account, NEW w \in Worker, NEW id \in BookingRef,
           NEW slot \in Slot, NEW deposit \in OfferedDeposit, Book(a, w, id, slot, deposit)
    PROVE  PagesFit'
<1>1. PICK t : t = [stage |-> "booking", method |-> "create_booking", id |-> id, status |-> ""]
  OBVIOUS
<1>2. Client!Goes(a, t) /\ sent' = sent
  BY <1>1 DEF Book, Client!Book, Client!NotShown
<1>3. t \in Page
  BY <1>1 DEF Page, Seen, Client!NotShown, Client!Method
<1>4. t.id = id /\ t.status = "" /\ t.stage = "booking" /\ t.method = "create_booking"
  BY <1>1
<1>5. Fits(a, t)'
  BY <1>4 DEF Fits, Client!NotShown
<1>6. QED
  BY <1>2, <1>3, <1>5, PageGoes DEF Whole

\* The form whose booking is stored goes on to create the escrow.
LEMMA BookedFits ==
    ASSUME Whole, Workflow!Kept, NEW a \in Account, Booked(a)
    PROVE  PagesFit'
<1>1. PICK u : u = tabs[a]
  OBVIOUS
<1>2. PICK t : t = [stage |-> "call", method |-> "create_booking", id |-> u.id, status |-> ""]
  OBVIOUS
<1>3. /\ Client!Goes(a, t) /\ sent' = sent /\ row' = row
      /\ u # Idle /\ u.stage = "booking" /\ u.id \in DOMAIN row /\ row[u.id].renter = a
  BY <1>1, <1>2 DEF Booked, Client!Booked, Client!At, Client!Calling, Client!NotShown, apiVars
<1>4. u \in Page
  BY <1>1, <1>3 DEF Whole, PagesFit
<1>5. u.id \in BookingRef
  BY <1>4 DEF Page
<1>6. t \in Page
  BY <1>2, <1>5 DEF Page, Seen, Client!NotShown, Client!Method
<1>7. t.id = u.id /\ t.status = "" /\ t.stage = "call" /\ t.method = "create_booking"
  BY <1>2
<1>8. Fits(a, t)'
  BY <1>3, <1>7 DEF Fits
<1>9. QED
  BY <1>3, <1>6, <1>8, PageGoes DEF Whole

\* A page loads a booking.
LEMMA LoadFits ==
    ASSUME Whole, Workflow!Kept, NEW a \in Account, NEW id \in BookingRef, Load(a, id)
    PROVE  PagesFit'
<1>1. PICK status : status = row[id].status
  OBVIOUS
<1>2. PICK t : t = [stage |-> "loaded", id |-> id, status |-> status]
  OBVIOUS
<1>3. Client!Goes(a, t) /\ sent' = sent /\ row' = row /\ id \in DOMAIN row
  BY <1>1, <1>2 DEF Load, Client!Load, Client!Shown, apiVars
<1>4. status \in Workflow!Status
  BY <1>1, <1>3 DEF Whole, Workflow!Base, Workflow!TypeOK, Workflow!Row
<1>5. t \in Page
  BY <1>2, <1>4 DEF Page, Seen
<1>6. t.id = id /\ t.status = status /\ t.stage = "loaded"
  BY <1>2
<1>7. Fits(a, t)'
  BY <1>1, <1>3, <1>6 DEF Fits, Arrived
<1>8. QED
  BY <1>3, <1>5, <1>7, PageGoes DEF Whole

\* A page begins a call: to confirm only from a booking shown as checked in.
LEMMA PressFits ==
    ASSUME Whole, Workflow!Kept, NEW a \in Account, NEW id \in BookingRef, NEW action,
           Press(a, id, action)
    PROVE  PagesFit'
<1>1. PICK u : u = tabs[a]
  OBVIOUS
<1>2. PICK method : method = IF action = "confirm" THEN "confirm_visit" ELSE "cancel_booking"
  OBVIOUS
<1>3. PICK t : t = [stage |-> "call", method |-> method, id |-> id, status |-> u.status]
  OBVIOUS
<1>4. /\ Client!Goes(a, t) /\ sent' = sent /\ row' = row
      /\ u # Idle /\ u.stage = "loaded" /\ u.id = id
      /\ action = "confirm" => u.status = "CHECKED_IN"
  <2>1. PICK role : role = Role(a, id)
    OBVIOUS
  <2>2. Client!PressCall(a, id, role, action) /\ row' = row
    BY <2>1 DEF Press, apiVars
  <2>3. /\ Client!Goes(a, t) /\ sent' = sent /\ u # Idle /\ u.stage = "loaded" /\ u.id = id
        /\ action \in Client!availableActions(u.status, role)
    BY <1>1, <1>2, <1>3, <2>2 DEF Client!PressCall, Client!Offered, Client!At, Client!Calling
  <2>4. action = "confirm" => u.status = "CHECKED_IN"
    BY <2>3 DEF Client!availableActions
  <2>5. QED
    BY <2>2, <2>3, <2>4
<1>5. u \in Page /\ Fits(a, u)
  BY <1>1, <1>4 DEF Whole, PagesFit, Fits
<1>6. u.status \in Seen /\ method \in Client!Method
  BY <1>2, <1>5 DEF Page, Client!Method
<1>7. t \in Page
  BY <1>3, <1>6 DEF Page
<1>8. t.stage = "call" /\ t.method = method /\ t.id = id /\ t.status = u.status
  BY <1>3
<1>9. Fits(a, t)'
  BY <1>2, <1>4, <1>5, <1>8 DEF Fits
<1>10. QED
  BY <1>4, <1>7, <1>9, PageGoes DEF Whole

\* A page sends its call.
LEMMA SendFits ==
    ASSUME Whole, Workflow!Kept, NEW a \in Account, Send(a)
    PROVE  PagesFit'
<1>1. PICK u : u = tabs[a]
  OBVIOUS
<1>2. PICK t : t = [u EXCEPT !.stage = "sent"]
  OBVIOUS
<1>3. PICK call : call = [by |-> a, method |-> u.method, id |-> u.id]
  OBVIOUS
<1>4. /\ Client!Goes(a, t) /\ DOMAIN sent' = DOMAIN sent \cup {call} /\ row' = row
      /\ u # Idle /\ u.stage = "call"
  BY <1>1, <1>2, <1>3 DEF Send, Client!Send, Client!At, Client!Outcome, Client!CallOf, apiVars
<1>5. u \in Page /\ Fits(a, u)
  BY <1>1, <1>4 DEF Whole, PagesFit, Fits
<1>6. u \in [stage : {"booking", "call", "sent", "report"}, method : Client!Method,
             id : BookingRef, status : Seen]
  BY <1>4, <1>5 DEF Page
<1>7. /\ t \in [stage : {"booking", "call", "sent", "report"}, method : Client!Method,
                id : BookingRef, status : Seen]
      /\ t.stage = "sent" /\ t.method = u.method /\ t.id = u.id /\ t.status = u.status
  BY <1>2, <1>6
<1>8. t \in Page
  BY <1>7 DEF Page
<1>9. Fits(a, t)'
  BY <1>4, <1>5, <1>7 DEF Fits
<1>10. call.by = a /\ call.method = u.method /\ call.id = u.id
  BY <1>3
<1>11. CallFits(call)'
  BY <1>4, <1>5, <1>6, <1>10 DEF CallFits, Carries, Fits
<1>12. QED
  BY <1>4, <1>8, <1>9, <1>11, PageGoes DEF Whole

\* The poll of a page succeeds.
LEMMA ConfirmedFits ==
    ASSUME Whole, Workflow!Kept, NEW a \in Account, Confirmed(a)
    PROVE  PagesFit'
<1>1. PICK u : u = tabs[a]
  OBVIOUS
<1>2. PICK t : t = IF u.method = "create_booking"
                   THEN [stage |-> "call", method |-> "fund_booking", id |-> u.id, status |-> ""]
                   ELSE [u EXCEPT !.stage = "report"]
  OBVIOUS
<1>3. /\ Client!Goes(a, t) /\ sent' = sent /\ row' = row
      /\ u # Idle /\ u.stage = "sent"
  BY <1>1, <1>2 DEF Confirmed, Client!Confirmed, Client!At, Client!Calling, Client!NotShown,
     apiVars
<1>4. u \in Page /\ Fits(a, u)
  BY <1>1, <1>3 DEF Whole, PagesFit, Fits
<1>5. u \in [stage : {"booking", "call", "sent", "report"}, method : Client!Method,
             id : BookingRef, status : Seen]
  BY <1>3, <1>4 DEF Page
<1>6. CASE u.method = "create_booking"
  <2>1. t = [stage |-> "call", method |-> "fund_booking", id |-> u.id, status |-> ""]
    BY <1>2, <1>6
  <2>2. t.stage = "call" /\ t.method = "fund_booking" /\ t.id = u.id /\ t.status = ""
    BY <2>1
  <2>3. t \in Page
    BY <1>5, <2>1 DEF Page, Seen, Client!NotShown, Client!Method
  <2>4. Fits(a, t)'
    BY <1>3, <1>4, <2>2 DEF Fits
  <2>5. QED
    BY <1>3, <2>3, <2>4, PageGoes DEF Whole
<1>7. CASE u.method # "create_booking"
  <2>1. t = [u EXCEPT !.stage = "report"]
    BY <1>2, <1>7
  <2>2. /\ t \in [stage : {"booking", "call", "sent", "report"}, method : Client!Method,
                  id : BookingRef, status : Seen]
        /\ t.stage = "report" /\ t.method = u.method /\ t.id = u.id /\ t.status = u.status
    BY <1>5, <2>1
  <2>3. t \in Page
    BY <2>2 DEF Page
  <2>4. Fits(a, t)'
    BY <1>3, <1>4, <1>7, <2>2 DEF Fits
  <2>5. QED
    BY <1>3, <2>3, <2>4, PageGoes DEF Whole
<1>8. QED
  BY <1>6, <1>7

\* The work of a page ends.
LEMMA EndFits ==
    ASSUME Whole, Workflow!Kept, NEW a \in Account, tabs[a] # Idle,
           Client!Goes(a, Client!Left(a)) \/ Client!Goes(a, Idle), sent' = sent, row' = row
    PROVE  PagesFit'
<1>1. PICK t : t = Client!Left(a)
  OBVIOUS
<1>2. t = Idle \/ (t \in Page /\ Fits(a, t))
  BY <1>1, LeftFits DEF Whole
<1>3. t = Idle \/ (t \in Page /\ Fits(a, t)')
  BY <1>2, FitsStays
<1>4. CASE Client!Goes(a, Client!Left(a))
  BY <1>1, <1>3, <1>4, PageGoes DEF Whole
<1>5. CASE Client!Goes(a, Idle)
  BY <1>5, PageGoes DEF Whole
<1>6. QED
  BY <1>4, <1>5

\* Every step leaves pages that fit.
LEMMA PagesKept ==
    ASSUME Whole, [Next]_vars
    PROVE  PagesFit'
<1>1. Workflow!Kept
  BY PartsKept
<1>2. ASSUME NEW a \in Account, NEW id \in BookingRef, NEW nonce, NEW w \in Worker,
             EnterCode(a, id, w, nonce)
      PROVE  PagesFit'
  <2>1. /\ tabs[a] # Idle /\ Client!Goes(a, Client!Left(a)) /\ sent' = sent /\ row' = row
    BY <1>2 DEF EnterCode, Client!Posted, Client!At, Api!Submit, Api!database
  <2>2. QED
    BY <1>1, <2>1, EndFits
<1>3. CASE Pages
  <2>1. PICK a \in Account, id \in BookingRef :
           \/ \E w \in Worker, slot \in Slot, deposit \in OfferedDeposit :
                 Book(a, w, id, slot, deposit)
           \/ Booked(a)
           \/ Load(a, id)
           \/ \E action \in {"cancel", "confirm"} : Press(a, id, action)
           \/ \E nonce \in Nonce : ShowCode(a, id, nonce)
                                     \/ \E w \in Worker : EnterCode(a, id, w, nonce)
    BY <1>3 DEF Pages
  <2>2. ASSUME NEW nonce \in Nonce, ShowCode(a, id, nonce)  PROVE PagesFit'
    BY <1>1, <2>2, PagesStay DEF Whole, ShowCode
  <2>3. QED
    BY <1>1, <1>2, <2>1, <2>2, BookFits, BookedFits, LoadFits, PressFits
<1>4. ASSUME NEW a \in Account, Wallet(a)  PROVE PagesFit'
  <2>1. ASSUME NEW w \in Worker, Report(a, w)  PROVE PagesFit'
    <3>1. /\ tabs[a] # Idle /\ Client!Goes(a, Client!Left(a)) /\ sent' = sent /\ row' = row
      BY <2>1 DEF Report, Client!Posted, Client!At, Api!Submit, Api!database
    <3>2. QED
      BY <1>1, <3>1, EndFits
  <2>2. QED
    BY <1>1, <1>4, <2>1, SendFits, ConfirmedFits DEF Wallet
<1>5. ASSUME NEW a \in Account, GiveUp(a)  PROVE PagesFit'
  <2>1. /\ tabs[a] # Idle /\ Client!Goes(a, Client!Left(a)) /\ sent' = sent /\ row' = row
    BY <1>5 DEF GiveUp, Client!GiveUp, Client!At, apiVars
  <2>2. QED
    BY <1>1, <2>1, EndFits
<1>6. ASSUME NEW a \in Account, Abandon(a)  PROVE PagesFit'
  <2>1. /\ tabs[a] # Idle /\ sent' = sent /\ row' = row
        /\ Client!Goes(a, Client!Left(a)) \/ Client!Goes(a, Idle)
    BY <1>6 DEF Abandon, Client!Abandon, apiVars
  <2>2. QED
    BY <1>1, <2>1, EndFits
<1>7. ASSUME NEW call \in DOMAIN sent, Include(call) \/ Lose(call)  PROVE PagesFit'
  <2>1. tabs' = tabs /\ DOMAIN sent' = DOMAIN sent
    BY <1>7 DEF Include, Lose, Client!Included, Client!Outcome
  <2>2. ASSUME NEW a \in Account, tabs'[a] # Idle  PROVE Fits(a, tabs[a])'
    <3>1. PICK t : t = tabs[a]
      OBVIOUS
    <3>2. Fits(a, t)
      BY <2>1, <2>2, <3>1 DEF Whole, PagesFit, Fits
    <3>3. Fits(a, t)'
      BY <1>1, <3>2, FitsStays
    <3>4. QED
      BY <2>1, <3>1, <3>3 DEF Fits
  <2>3. QED
    BY <1>1, <2>1, <2>2, CallFitsStays DEF Whole, PagesFit
<1>8. CASE UNCHANGED clientVars
  BY <1>1, <1>8, PagesStay DEF Whole
<1>9. Ledger \/ RpcCatchesUp \/ Restart \/ (\E w \in Worker : Serve(w) \/ Fails(w))
         \/ UNCHANGED vars => UNCHANGED clientVars
  BY DEF Ledger, RpcCatchesUp, Restart, Serve, Fails, vars, clientVars
<1>10. QED
  BY <1>3, <1>4, <1>5, <1>6, <1>7, <1>8, <1>9 DEF Next, Delayed, Smooth

\* It all holds to begin with.
LEMMA InitWhole == Init => Whole
<1> SUFFICES ASSUME Init  PROVE Whole
  OBVIOUS
<1>1. Contract!Init
  BY DEF Init, Chain!Init, Contract!Init, Chain!Holder, Contract!Holder, Chain!BookingId,
     Contract!BookingId
<1>2. Contract!Faithful
  BY <1>1, Contract!InitFaithful, CompositionAssumption DEF Chain!ConstantsAssumption
<1>3. View = <<>>
  BY DEF Init, Chain!Init, View
<1>4. Workflow!Init
  BY <1>3 DEF Init, Api!Init, Workflow!Init
<1>5. Workflow!Base
  BY <1>4, Workflow!InitBase, CompositionAssumption DEF Api!WorkflowAssumption
<1>6. DOMAIN row = {}
  BY DEF Init, Api!Init
<1>7. PagesFit
  BY DEF Init, Client!Init, PagesFit
<1>8. QED
  BY <1>2, <1>5, <1>6, <1>7 DEF Whole, TermsOffered

\* No step ends it.
LEMMA WholeKept == Whole /\ [Next]_vars => Whole' /\ Workflow!Kept
BY PartsKept, TermsStay, PagesKept DEF Whole, Workflow!Kept

\* So it holds for good.
LEMMA WholeInvariant == Spec => []Whole
BY InitWhole, WholeKept, PTL DEF Spec

----------------------------------------------------------------------------
(***************************************************************************)
(* The contract's storage and the database.                                *)
(***************************************************************************)
\* Every escrow is of a stored booking, on its terms.
SameTerms(c, id) ==
    /\ OnChain[id] = c
    /\ bookings[c].renter = row[id].renter /\ bookings[c].host = row[id].host
    /\ bookings[c].deposit_amount = row[id].deposit
    /\ bookings[c].visit_time = visitTime(row[id].slot)
EscrowsAreStored == \A c \in DOMAIN bookings : \E id \in DOMAIN row : SameTerms(c, id)

\* A payment is recorded with the deposit of its booking.
AmountsAreDeposits == \A p \in payments : p.amount = row[p.booking].deposit

\* Database and contract agree.
Agree ==
    /\ Whole
    /\ Workflow!Books /\ Workflow!BookingsAreDistinct
    /\ EscrowsAreStored /\ AmountsAreDeposits
    /\ ReleaseFollowsCheckIn

\* How the contract's storage may change: by a page's call.
Created(call, c) ==
    /\ CallFits(call) /\ call.method = "create_booking" /\ OnChain[call.id] = c
    /\ bookings'[c] = [renter |-> call.by, host |-> row[call.id].host,
                       deposit_amount |-> row[call.id].deposit,
                       visit_time |-> visitTime(row[call.id].slot), state |-> "Created"]
ConfirmsOn(call, c) ==
    CallFits(call) /\ call.method = "confirm_visit" /\ OnChain[call.id] = c

\* One call changes one escrow, which it creates, or releases, or does neither.
LEMMA InvokeChanges ==
    ASSUME NEW call, CallFits(call), Invoke(call), NEW c \in DOMAIN bookings'
    PROVE  \/ c \in DOMAIN bookings /\ (bookings'[c].state = "Released" => bookings[c].state = "Released")
           \/ c \notin DOMAIN bookings /\ Created(call, c)
           \/ c \in DOMAIN bookings /\ ConfirmsOn(call, c)
<1>1. PICK k : k = OnChain[call.id]
  OBVIOUS
<1>2. CASE call.method = "create_booking"
  <2>1. /\ k \notin DOMAIN bookings
        /\ bookings' = [d \in DOMAIN bookings \cup {k} |->
              IF d = k
              THEN [renter |-> call.by, host |-> row[call.id].host,
                    deposit_amount |-> row[call.id].deposit,
                    visit_time |-> visitTime(row[call.id].slot), state |-> "Created"]
              ELSE bookings[d]]
    BY <1>1, <1>2 DEF Invoke, Chain!CreateBooking
  <2>2. QED
    BY <1>1, <1>2, <2>1 DEF Created
<1>3. ASSUME NEW state \in {"Funded", "Refunded"}, Chain!SetState(k, state)
      PROVE  c \in DOMAIN bookings /\ (bookings'[c].state = "Released" => bookings[c].state = "Released")
  BY <1>3 DEF Chain!SetState
<1>4. CASE call.method = "fund_booking"
  BY <1>1, <1>3, <1>4 DEF Invoke, Chain!FundBooking
<1>5. CASE call.method = "cancel_booking"
  BY <1>1, <1>3, <1>5 DEF Invoke, Chain!CancelBooking
<1>6. CASE call.method = "confirm_visit"
  <2>1. Chain!SetState(k, "Released")
    BY <1>1, <1>6 DEF Invoke, Chain!ConfirmVisit
  <2>2. DOMAIN bookings' = DOMAIN bookings /\ \A d \in DOMAIN bookings : d # k => bookings'[d] = bookings[d]
    BY <2>1 DEF Chain!SetState
  <2>3. QED
    BY <1>1, <1>6, <2>2 DEF ConfirmsOn
<1>7. QED
  BY <1>2, <1>4, <1>5, <1>6 DEF CallFits, Carries, Client!Method

\* And nothing else changes escrows.
LEMMA EscrowChanges ==
    ASSUME Whole, Moved, NEW c \in DOMAIN bookings'
    PROVE  \/ c \in DOMAIN bookings /\ (bookings'[c].state = "Released" => bookings[c].state = "Released")
           \/ /\ row' = row
              /\ \E call \in DOMAIN sent :
                    \/ c \notin DOMAIN bookings /\ Created(call, c)
                    \/ c \in DOMAIN bookings /\ ConfirmsOn(call, c)
<1>1. ASSUME NEW call \in DOMAIN sent, Include(call)
      PROVE  \/ c \in DOMAIN bookings /\ (bookings'[c].state = "Released" => bookings[c].state = "Released")
             \/ /\ row' = row
                /\ \/ c \notin DOMAIN bookings /\ Created(call, c)
                   \/ c \in DOMAIN bookings /\ ConfirmsOn(call, c)
  BY <1>1, InvokeChanges DEF Whole, PagesFit, Include, apiVars
<1>2. CASE UNCHANGED bookings
  BY <1>2
<1>3. Ledger => UNCHANGED bookings
  BY DEF Ledger, Chain!Initialize, Chain!Network, Chain!CloseLedger, Chain!RestoreInstance,
     Chain!RestoreBooking, Chain!SendTokens, Chain!storage
<1>4. (\E call \in DOMAIN sent : Include(call)) \/ UNCHANGED bookings
  BY <1>3 DEF Moved, Apart, Book, ShowCode, EnterCode, Report, Serve, Fails, Restart,
     RpcCatchesUp, contractVars
<1>5. QED
  BY <1>1, <1>2, <1>4

\* The terms of an escrow are final, as those of the stored booking are.
LEMMA EscrowsStay ==
    ASSUME Agree, [Next]_vars
    PROVE  EscrowsAreStored'
<1>1. Workflow!Kept /\ Moved
  BY NextMoves, WholeKept DEF Agree
<1>2. \A c \in DOMAIN bookings :
         /\ c \in DOMAIN bookings'
         /\ bookings'[c].renter = bookings[c].renter /\ bookings'[c].host = bookings[c].host
         /\ bookings'[c].deposit_amount = bookings[c].deposit_amount
         /\ bookings'[c].visit_time = bookings[c].visit_time
  <2>1. Contract!TermsAreFinal
    BY <1>1, StepsOfParts, Contract!StepFinal, CompositionAssumption
    DEF Chain!ConstantsAssumption, Agree, Whole, Contract!Faithful
  <2>2. ASSUME NEW c \in DOMAIN bookings
        PROVE  /\ c \in DOMAIN bookings'
               /\ bookings'[c].renter = bookings[c].renter /\ bookings'[c].host = bookings[c].host
               /\ bookings'[c].deposit_amount = bookings[c].deposit_amount
               /\ bookings'[c].visit_time = bookings[c].visit_time
    <3>1. PICK b : b = bookings[c]
      OBVIOUS
    <3>2. PICK state : state = bookings'[c].state
      OBVIOUS
    <3>3. c \in DOMAIN bookings' /\ bookings'[c] = [b EXCEPT !.state = state]
      BY <2>1, <2>2, <3>1, <3>2 DEF Contract!TermsAreFinal
    <3>4. b \in Contract!Booking
      BY <2>2, <3>1 DEF Agree, Whole, Contract!Faithful, Contract!Typed, Contract!TypeOK
    <3>5. /\ [b EXCEPT !.state = state].renter = b.renter
          /\ [b EXCEPT !.state = state].host = b.host
          /\ [b EXCEPT !.state = state].deposit_amount = b.deposit_amount
          /\ [b EXCEPT !.state = state].visit_time = b.visit_time
      BY <3>4 DEF Contract!Booking
    <3>6. QED
      BY <3>1, <3>3, <3>5
  <2>3. QED
    BY <2>2
<1>3. ASSUME NEW c \in DOMAIN bookings'  PROVE \E id \in DOMAIN row' : SameTerms(c, id)'
  <2>1. CASE c \in DOMAIN bookings
    <3>1. PICK id \in DOMAIN row : SameTerms(c, id)
      BY <2>1 DEF Agree, EscrowsAreStored
    <3>2. id \in DOMAIN row' /\ SameTerms(c, id)'
      BY <1>1, <1>2, <2>1, <3>1, RowsGrow DEF SameTerms
    <3>3. QED
      BY <3>2
  <2>2. CASE c \notin DOMAIN bookings
    <3>1. PICK call \in DOMAIN sent : row' = row /\ Created(call, c)
      BY <1>1, <1>3, <2>2, EscrowChanges DEF Agree
    <3>2. PICK id : id = call.id
      OBVIOUS
    <3>3. PICK new : new = bookings'[c]
      OBVIOUS
    <3>4. /\ id \in DOMAIN row /\ row[id].renter = call.by /\ OnChain[id] = c
          /\ new = [renter |-> call.by, host |-> row[id].host,
                    deposit_amount |-> row[id].deposit,
                    visit_time |-> visitTime(row[id].slot), state |-> "Created"]
      BY <3>1, <3>2, <3>3 DEF Created, CallFits, Carries
    <3>5. SameTerms(c, id)'
      BY <3>1, <3>3, <3>4 DEF SameTerms
    <3>6. QED
      BY <3>1, <3>4, <3>5
  <2>3. QED
    BY <2>1, <2>2
<1>4. QED
  BY <1>3 DEF EscrowsAreStored

\* The amount recorded is the deposit.
LEMMA AmountsStay ==
    ASSUME Agree, [Next]_vars
    PROVE  AmountsAreDeposits'
<1>1. Workflow!Kept /\ Moved
  BY NextMoves, WholeKept DEF Agree
<1>2. [Workflow!Next]_(Workflow!vars)
  BY <1>1, StepsOfParts DEF Agree
<1>3. ASSUME NEW p \in payments
      PROVE  p.booking \in DOMAIN row /\ p.amount = row[p.booking].deposit
                /\ row'[p.booking].deposit = row[p.booking].deposit
  <2>1. p.booking \in DOMAIN row /\ p.amount = row[p.booking].deposit
    BY <1>3 DEF Agree, Workflow!Books, AmountsAreDeposits
  <2>2. QED
    BY <1>1, <2>1, RowsGrow
<1>4. ASSUME NEW id, NEW hash, NEW from, NEW to, NEW kind, NEW event,
             Workflow!Pays(id, hash, from, to, kind, event), NEW p \in payments'
      PROVE  p.amount = row'[p.booking].deposit
  <2>1. PICK paid : paid = [booking |-> id, hash |-> hash, kind |-> kind,
                            amount |-> row[id].deposit]
    OBVIOUS
  <2>2. payments' = payments \cup {paid} /\ id \in DOMAIN row
    BY <1>4, <2>1 DEF Workflow!Pays, Workflow!Paid
  <2>3. paid.booking = id /\ paid.amount = row[id].deposit
    BY <2>1
  <2>4. row'[id].deposit = row[id].deposit
    BY <1>1, <2>2, RowsGrow
  <2>5. QED
    BY <1>3, <1>4, <2>2, <2>3, <2>4
<1>5. CASE Workflow!Settles
  BY <1>4, <1>5 DEF Workflow!Settles, AmountsAreDeposits
<1>6. CASE UNCHANGED payments
  BY <1>3, <1>6 DEF AmountsAreDeposits
<1>7. Workflow!Settles \/ UNCHANGED payments
  <2>1. ASSUME Workflow!Creates  PROVE UNCHANGED payments
    <3>1. PICK w \in Worker, new \in BookingRef, slot \in Slot, renter \in Account,
               host \in Account, deposit \in Workflow!AskedDeposit :
                  Workflow!Inserts(w, new, slot, renter, host, deposit)
      BY <2>1 DEF Workflow!Creates
    <3>2. QED
      BY <3>1 DEF Workflow!Inserts
  <2>2. QED
    BY <1>2, <2>1, Workflow!StepKinds, CompositionAssumption
    DEF Agree, Whole, Api!WorkflowAssumption, Workflow!Quiet, Workflow!ChecksIn,
        Workflow!Completes, Workflow!Moves, Workflow!CheckInHistory, Workflow!ConfirmHistory
<1>8. QED
  BY <1>5, <1>6, <1>7

\* Hosts confirm from a page that shows the renter checked in.
LEMMA ReleasesStay ==
    ASSUME Agree, [Next]_vars, (Workflow!BookingsAreDistinct)'
    PROVE  ReleaseFollowsCheckIn'
<1>1. Workflow!Kept /\ Moved
  BY NextMoves, WholeKept DEF Agree
<1>2. ASSUME NEW id \in DOMAIN row', OnChain[id] \in DOMAIN bookings',
             bookings'[OnChain[id]].state = "Released"
      PROVE  row'[id].status \in Arrived
  <2>1. PICK c : c = OnChain[id]
    OBVIOUS
  <2>2. CASE c \in DOMAIN bookings /\ bookings[c].state = "Released"
    <3>1. PICK other \in DOMAIN row : OnChain[other] = c
      BY <2>2 DEF Agree, EscrowsAreStored, SameTerms
    <3>2. other \in DOMAIN row'
      BY <1>1, RowsGrow
    <3>3. other = id
      BY <1>2, <2>1, <3>1, <3>2 DEF Workflow!BookingsAreDistinct
    <3>4. row[id].status \in Arrived
      BY <2>1, <2>2, <3>1, <3>3 DEF Agree, ReleaseFollowsCheckIn, HasState, HasEscrow,
         EscrowOf, Arrived
    <3>5. QED
      BY <1>1, <3>1, <3>3, <3>4, RowsGrow
  <2>3. CASE ~ (c \in DOMAIN bookings /\ bookings[c].state = "Released")
    <3>1. PICK call \in DOMAIN sent :
             /\ row' = row
             /\ Created(call, c) \/ ConfirmsOn(call, c)
      BY <1>1, <1>2, <2>1, <2>3, EscrowChanges DEF Agree
    <3>2. ~ Created(call, c)
      <4>1. PICK new : new = bookings'[c]
        OBVIOUS
      <4>2. new.state = "Released"
        BY <1>2, <2>1, <4>1
      <4>3. QED
        BY <4>1, <4>2 DEF Created
    <3>3. call.id \in DOMAIN row /\ OnChain[call.id] = c /\ row[call.id].status \in Arrived
      BY <3>1, <3>2 DEF ConfirmsOn, CallFits, Carries
    <3>4. call.id = id
      BY <1>2, <2>1, <3>1, <3>3 DEF Workflow!BookingsAreDistinct
    <3>5. QED
      BY <3>1, <3>3, <3>4
  <2>4. QED
    BY <2>2, <2>3
<1>3. QED
  BY <1>2 DEF ReleaseFollowsCheckIn, HasState, HasEscrow, EscrowOf, Arrived

\* Database and contract go on agreeing.
LEMMA AgreeKept == Agree /\ [Next]_vars => Agree'
<1> SUFFICES ASSUME Agree, [Next]_vars  PROVE Agree'
  OBVIOUS
<1>1. Whole' /\ Workflow!Kept /\ [Workflow!Next]_(Workflow!vars)
  BY NextMoves, StepsOfParts, WholeKept DEF Agree
<1>2. (Workflow!Books)'
  BY <1>1, Workflow!StepBooks, CompositionAssumption DEF Agree, Whole, Api!WorkflowAssumption
<1>3. (Workflow!BookingsAreDistinct)'
  BY <1>1, Workflow!StepDistinct, CompositionAssumption DEF Agree, Whole, Api!WorkflowAssumption
<1>4. QED
  BY <1>1, <1>2, <1>3, EscrowsStay, AmountsStay, ReleasesStay DEF Agree

\* They do to begin with.
LEMMA InitAgree == Init => Agree
<1> SUFFICES ASSUME Init  PROVE Agree
  OBVIOUS
<1>1. DOMAIN row = {} /\ payments = {} /\ DOMAIN bookings = {}
  BY DEF Init, Api!Init, Chain!Init
<1>2. QED
  BY <1>1, InitWhole DEF Agree, EscrowsAreStored, AmountsAreDeposits, ReleaseFollowsCheckIn,
     Workflow!Books, Workflow!BookingsAreDistinct

\* And so for good.
LEMMA Agreement == Spec => []Agree
BY InitAgree, AgreeKept, PTL DEF Spec

\* What the database records as paid was published, and so is in the contract's storage.
LEMMA RecordedIsStored ==
    ASSUME Agree, NEW id \in DOMAIN row
    PROVE  /\ row[id].status # "PENDING_FUNDING" =>
                 /\ Chain!Published(OnChain[id], "BookingFunded")
                 /\ HasState(id, {"Funded", "Refunded", "Released"})
           /\ row[id].status = "COMPLETED" => HasState(id, {"Released"})
           /\ row[id].status = "REFUNDED" => HasState(id, {"Refunded"})
<1>1. PICK c : c = OnChain[id]
  OBVIOUS
<1>2. Contract!Faithful /\ Workflow!Books
  BY DEF Agree, Whole
<1>3. \A event : Contract!Published(c, event) =>
         /\ c \in DOMAIN bookings
         /\ event = "BookingFunded" => bookings[c].state # "Created"
         /\ event = "DepositRefunded" => bookings[c].state = "Refunded"
         /\ event = "VisitConfirmed" => bookings[c].state = "Released"
  BY <1>2 DEF Contract!Faithful, Contract!EventsTellTheState, Contract!Published
<1>4. c \in DOMAIN bookings => bookings[c].state \in {"Created", "Funded", "Refunded", "Released"}
  BY <1>2 DEF Contract!Faithful, Contract!Typed, Contract!TypeOK, Contract!Booking,
     Contract!BookingState
<1>5. ASSUME NEW kind, Workflow!HasPaid(id, kind)
      PROVE  Contract!Published(c, Workflow!EventPaid(kind))
  <2>1. PICK p \in payments : p.booking = id /\ p.kind = kind
    BY <1>5 DEF Workflow!HasPaid
  <2>2. /\ p.hash \in DOMAIN View /\ View[p.hash].event = Workflow!EventPaid(kind)
        /\ View[p.hash].booking_id = c
    BY <1>1, <1>2, <2>1 DEF Workflow!Books
  <2>3. QED
    BY <1>2, <2>2, ViewOf DEF Contract!Published
<1>6. row[id].status # "PENDING_FUNDING" => Contract!Published(c, "BookingFunded")
  BY <1>2, <1>5 DEF Workflow!Books, Workflow!EventPaid
<1>7. row[id].status = "REFUNDED" => Contract!Published(c, "DepositRefunded")
  BY <1>2, <1>5 DEF Workflow!Books, Workflow!EventPaid
<1>8. row[id].status = "COMPLETED" => Contract!Published(c, "VisitConfirmed")
  BY <1>1, <1>2, ViewOf DEF Workflow!Books, Workflow!Published, Contract!Published
<1>9. \A event : Chain!Published(c, event) <=> Contract!Published(c, event)
  BY DEF Chain!Published, Contract!Published
<1>10. QED
  BY <1>1, <1>3, <1>4, <1>6, <1>7, <1>8, <1>9 DEF HasState, HasEscrow, EscrowOf

\* The database is never ahead of the contract's storage, for any number of bookings,
\* pages and requests, whatever restarts, fails or is lost between them.
THEOREM DatabaseFollows == Spec => []DatabaseFollowsTheContract
<1>1. Agree => DatabaseFollowsTheContract
  BY RecordedIsStored DEF DatabaseFollowsTheContract
<1>2. QED
  BY <1>1, Agreement, PTL

\* An escrow and its booking are equal.
LEMMA EscrowIsBooking ==
    ASSUME Agree, NEW id \in DOMAIN row, HasEscrow(id)
    PROVE  SameTerms(OnChain[id], id)
<1>1. PICK other \in DOMAIN row : SameTerms(OnChain[id], other)
  BY DEF Agree, EscrowsAreStored, HasEscrow
<1>2. other = id
  BY <1>1 DEF Agree, Workflow!BookingsAreDistinct, SameTerms
<1>3. QED
  BY <1>1, <1>2

\* The contract holds every booking on the terms it is stored with, and a recorded
\* payment is of the amount the ledger moved.
THEOREM TermsCarried == Spec => []TermsAreTheBookings
<1>1. ASSUME Agree, NEW id \in DOMAIN row, HasEscrow(id)
      PROVE  /\ EscrowOf(id).renter = row[id].renter /\ EscrowOf(id).host = row[id].host
             /\ EscrowOf(id).deposit_amount = row[id].deposit
             /\ EscrowOf(id).visit_time = visitTime(row[id].slot)
  BY <1>1, EscrowIsBooking DEF SameTerms, EscrowOf
<1>2. ASSUME Agree, NEW p \in payments  PROVE txs[p.hash].amount = p.amount
  <2>1. PICK id : id = p.booking
    OBVIOUS
  <2>2. /\ id \in DOMAIN row /\ p.hash \in DOMAIN View
        /\ View[p.hash].booking_id = OnChain[id] /\ p.amount = row[id].deposit
    BY <1>2, <2>1 DEF Agree, Workflow!Books, AmountsAreDeposits
  <2>3. p.hash \in DOMAIN txs /\ txs[p.hash].booking_id = OnChain[id]
    BY <1>2, <2>2, ViewOf DEF Agree, Whole
  <2>4. /\ OnChain[id] \in DOMAIN bookings
        /\ txs[p.hash].amount = bookings[OnChain[id]].deposit_amount
    BY <1>2, <2>3 DEF Agree, Whole, Contract!Faithful, Contract!EventsTellTheState
  <2>5. QED
    BY <1>2, <2>2, <2>4, EscrowIsBooking DEF SameTerms, HasEscrow
<1>3. Agree => TermsAreTheBookings
  BY <1>1, <1>2 DEF TermsAreTheBookings
<1>4. QED
  BY <1>3, Agreement, PTL

\* A deposit is released only after the renter's check-in is recorded, however many
\* pages host and renter have open and whatever becomes of them.
THEOREM ReleaseFollows == Spec => []ReleaseFollowsCheckIn
<1>1. Agree => ReleaseFollowsCheckIn
  BY DEF Agree
<1>2. QED
  BY <1>1, Agreement, PTL

\* A booking the contract does not take a deposit for stays unpaid, without an escrow.
THEOREM UnpayableStays == Spec => []UnpayableGoesNowhere
<1>1. ASSUME Agree, NEW id \in DOMAIN row, row[id].deposit \notin MinDeposit .. MaxDeposit
      PROVE  row[id].status = "PENDING_FUNDING" /\ ~ HasEscrow(id)
  <2>1. ~ HasEscrow(id)
    <3> SUFFICES ASSUME HasEscrow(id)  PROVE FALSE
      OBVIOUS
    <3>1. bookings[OnChain[id]].deposit_amount = row[id].deposit
      BY <1>1, EscrowIsBooking DEF SameTerms
    <3>2. bookings[OnChain[id]] \in Contract!Booking
      BY <1>1 DEF HasEscrow, Agree, Whole, Contract!Faithful, Contract!Typed, Contract!TypeOK
    <3>3. bookings[OnChain[id]].deposit_amount \in MinDeposit .. MaxDeposit
      BY <3>2 DEF Contract!Booking
    <3>4. QED
      BY <1>1, <3>1, <3>3
  <2>2. QED
    BY <1>1, <2>1, RecordedIsStored DEF HasState
<1>2. Agree => UnpayableGoesNowhere
  BY <1>1 DEF UnpayableGoesNowhere
<1>3. QED
  BY <1>2, Agreement, PTL

----------------------------------------------------------------------------
(***************************************************************************)
(* What the API assumes of its ledger is what the contract does.           *)
(***************************************************************************)
\* The specification of the API is written the same over the view as defined here.
LEMMA SameServe ==
    ASSUME NEW w \in Worker, Workflow!Serve(w)
    PROVE  ApiView!Serve(w)
<1>1. Workflow!FundVerify(w) => ApiView!FundVerify(w)
  BY DEF View, ApiView!FundVerify, Workflow!FundVerify, ApiView!Verify, Workflow!Verify,
     ApiView!verifyEvent, Workflow!verifyEvent, ApiView!Serves, Workflow!Serves,
     ApiView!Answer, Workflow!Answer, ApiView!Proceed, Workflow!Proceed,
     ApiView!StillIn, Workflow!StillIn, ApiView!SetStatus, Workflow!SetStatus,
     ApiView!Record, Workflow!Record, ApiView!HashIsNew, Workflow!HashIsNew,
     ApiView!Paid, Workflow!Paid, ApiView!NoHash, Workflow!NoHash, ApiView!database,
     Workflow!database, ApiView!ledgerVars, Workflow!ledgerVars
<1>2. Workflow!FundCheck(w) => ApiView!FundCheck(w)
  BY DEF View, ApiView!FundCheck, Workflow!FundCheck, ApiView!Check, Workflow!Check,
     ApiView!Serves, Workflow!Serves, ApiView!Answer, Workflow!Answer, ApiView!Proceed,
     Workflow!Proceed, ApiView!StillIn, Workflow!StillIn, ApiView!SetStatus,
     Workflow!SetStatus, ApiView!Record, Workflow!Record, ApiView!HashIsNew,
     Workflow!HashIsNew, ApiView!Paid, Workflow!Paid, ApiView!NoHash, Workflow!NoHash,
     ApiView!database, Workflow!database, ApiView!ledgerVars, Workflow!ledgerVars
<1>3. Workflow!FundCommit(w) => ApiView!FundCommit(w)
  BY DEF View, ApiView!FundCommit, Workflow!FundCommit, ApiView!Serves, Workflow!Serves,
     ApiView!Answer, Workflow!Answer, ApiView!Proceed, Workflow!Proceed,
     ApiView!StillIn, Workflow!StillIn, ApiView!SetStatus, Workflow!SetStatus,
     ApiView!Record, Workflow!Record, ApiView!HashIsNew, Workflow!HashIsNew,
     ApiView!Paid, Workflow!Paid, ApiView!NoHash, Workflow!NoHash, ApiView!database,
     Workflow!database, ApiView!ledgerVars, Workflow!ledgerVars
<1>4. Workflow!CancelVerify(w) => ApiView!CancelVerify(w)
  BY DEF View, ApiView!CancelVerify, Workflow!CancelVerify, ApiView!Verify,
     Workflow!Verify, ApiView!verifyEvent, Workflow!verifyEvent, ApiView!Serves,
     Workflow!Serves, ApiView!Answer, Workflow!Answer, ApiView!Proceed,
     Workflow!Proceed, ApiView!StillIn, Workflow!StillIn, ApiView!SetStatus,
     Workflow!SetStatus, ApiView!Record, Workflow!Record, ApiView!HashIsNew,
     Workflow!HashIsNew, ApiView!Paid, Workflow!Paid, ApiView!NoHash, Workflow!NoHash,
     ApiView!database, Workflow!database, ApiView!ledgerVars, Workflow!ledgerVars
<1>5. Workflow!RefundCheck(w) => ApiView!RefundCheck(w)
  BY DEF View, ApiView!RefundCheck, Workflow!RefundCheck, ApiView!Check, Workflow!Check,
     ApiView!Serves, Workflow!Serves, ApiView!Answer, Workflow!Answer, ApiView!Proceed,
     Workflow!Proceed, ApiView!StillIn, Workflow!StillIn, ApiView!SetStatus,
     Workflow!SetStatus, ApiView!Record, Workflow!Record, ApiView!HashIsNew,
     Workflow!HashIsNew, ApiView!Paid, Workflow!Paid, ApiView!NoHash, Workflow!NoHash,
     ApiView!database, Workflow!database, ApiView!ledgerVars, Workflow!ledgerVars
<1>6. Workflow!RefundCommit(w) => ApiView!RefundCommit(w)
  BY DEF View, ApiView!RefundCommit, Workflow!RefundCommit, ApiView!Serves,
     Workflow!Serves, ApiView!Answer, Workflow!Answer, ApiView!Proceed,
     Workflow!Proceed, ApiView!StillIn, Workflow!StillIn, ApiView!SetStatus,
     Workflow!SetStatus, ApiView!Record, Workflow!Record, ApiView!HashIsNew,
     Workflow!HashIsNew, ApiView!Paid, Workflow!Paid, ApiView!NoHash, Workflow!NoHash,
     ApiView!database, Workflow!database, ApiView!ledgerVars, Workflow!ledgerVars
<1>7. Workflow!FindChallenge(w) => ApiView!FindChallenge(w)
  BY DEF View, ApiView!FindChallenge, Workflow!FindChallenge, ApiView!Serves,
     Workflow!Serves, ApiView!Answer, Workflow!Answer, ApiView!Proceed,
     Workflow!Proceed, ApiView!StillIn, Workflow!StillIn, ApiView!SetStatus,
     Workflow!SetStatus, ApiView!Record, Workflow!Record, ApiView!HashIsNew,
     Workflow!HashIsNew, ApiView!Paid, Workflow!Paid, ApiView!NoHash, Workflow!NoHash,
     ApiView!database, Workflow!database, ApiView!ledgerVars, Workflow!ledgerVars
<1>8. Workflow!SpendChallenge(w) => ApiView!SpendChallenge(w)
  BY DEF View, ApiView!SpendChallenge, Workflow!SpendChallenge, ApiView!Serves,
     Workflow!Serves, ApiView!Answer, Workflow!Answer, ApiView!Proceed,
     Workflow!Proceed, ApiView!StillIn, Workflow!StillIn, ApiView!SetStatus,
     Workflow!SetStatus, ApiView!Record, Workflow!Record, ApiView!HashIsNew,
     Workflow!HashIsNew, ApiView!Paid, Workflow!Paid, ApiView!NoHash, Workflow!NoHash,
     ApiView!database, Workflow!database, ApiView!ledgerVars, Workflow!ledgerVars
<1>9. Workflow!CheckInCheck(w) => ApiView!CheckInCheck(w)
  BY DEF View, ApiView!CheckInCheck, Workflow!CheckInCheck, ApiView!Check,
     Workflow!Check, ApiView!Serves, Workflow!Serves, ApiView!Answer, Workflow!Answer,
     ApiView!Proceed, Workflow!Proceed, ApiView!StillIn, Workflow!StillIn,
     ApiView!SetStatus, Workflow!SetStatus, ApiView!Record, Workflow!Record,
     ApiView!HashIsNew, Workflow!HashIsNew, ApiView!Paid, Workflow!Paid, ApiView!NoHash,
     Workflow!NoHash, ApiView!database, Workflow!database, ApiView!ledgerVars,
     Workflow!ledgerVars
<1>10. Workflow!CheckInUpdate(w) => ApiView!CheckInUpdate(w)
  BY DEF View, ApiView!CheckInUpdate, Workflow!CheckInUpdate, ApiView!Serves,
     Workflow!Serves, ApiView!Answer, Workflow!Answer, ApiView!Proceed,
     Workflow!Proceed, ApiView!StillIn, Workflow!StillIn, ApiView!SetStatus,
     Workflow!SetStatus, ApiView!Record, Workflow!Record, ApiView!HashIsNew,
     Workflow!HashIsNew, ApiView!Paid, Workflow!Paid, ApiView!NoHash, Workflow!NoHash,
     ApiView!database, Workflow!database, ApiView!ledgerVars, Workflow!ledgerVars
<1>11. Workflow!CheckInHistory(w) => ApiView!CheckInHistory(w)
  BY DEF View, ApiView!CheckInHistory, Workflow!CheckInHistory, ApiView!Serves,
     Workflow!Serves, ApiView!Answer, Workflow!Answer, ApiView!Proceed,
     Workflow!Proceed, ApiView!StillIn, Workflow!StillIn, ApiView!SetStatus,
     Workflow!SetStatus, ApiView!Record, Workflow!Record, ApiView!HashIsNew,
     Workflow!HashIsNew, ApiView!Paid, Workflow!Paid, ApiView!NoHash, Workflow!NoHash,
     ApiView!database, Workflow!database, ApiView!ledgerVars, Workflow!ledgerVars
<1>12. Workflow!ConfirmVerify(w) => ApiView!ConfirmVerify(w)
  BY DEF View, ApiView!ConfirmVerify, Workflow!ConfirmVerify, ApiView!Verify,
     Workflow!Verify, ApiView!verifyEvent, Workflow!verifyEvent, ApiView!Serves,
     Workflow!Serves, ApiView!Answer, Workflow!Answer, ApiView!Proceed,
     Workflow!Proceed, ApiView!StillIn, Workflow!StillIn, ApiView!SetStatus,
     Workflow!SetStatus, ApiView!Record, Workflow!Record, ApiView!HashIsNew,
     Workflow!HashIsNew, ApiView!Paid, Workflow!Paid, ApiView!NoHash, Workflow!NoHash,
     ApiView!database, Workflow!database, ApiView!ledgerVars, Workflow!ledgerVars
<1>13. Workflow!ConfirmCheck(w) => ApiView!ConfirmCheck(w)
  BY DEF View, ApiView!ConfirmCheck, Workflow!ConfirmCheck, ApiView!Check,
     Workflow!Check, ApiView!Serves, Workflow!Serves, ApiView!Answer, Workflow!Answer,
     ApiView!Proceed, Workflow!Proceed, ApiView!StillIn, Workflow!StillIn,
     ApiView!SetStatus, Workflow!SetStatus, ApiView!Record, Workflow!Record,
     ApiView!HashIsNew, Workflow!HashIsNew, ApiView!Paid, Workflow!Paid, ApiView!NoHash,
     Workflow!NoHash, ApiView!database, Workflow!database, ApiView!ledgerVars,
     Workflow!ledgerVars
<1>14. Workflow!ConfirmUpdate(w) => ApiView!ConfirmUpdate(w)
  BY DEF View, ApiView!ConfirmUpdate, Workflow!ConfirmUpdate, ApiView!Serves,
     Workflow!Serves, ApiView!Answer, Workflow!Answer, ApiView!Proceed,
     Workflow!Proceed, ApiView!StillIn, Workflow!StillIn, ApiView!SetStatus,
     Workflow!SetStatus, ApiView!Record, Workflow!Record, ApiView!HashIsNew,
     Workflow!HashIsNew, ApiView!Paid, Workflow!Paid, ApiView!NoHash, Workflow!NoHash,
     ApiView!database, Workflow!database, ApiView!ledgerVars, Workflow!ledgerVars
<1>15. Workflow!ConfirmHistory(w) => ApiView!ConfirmHistory(w)
  BY DEF View, ApiView!ConfirmHistory, Workflow!ConfirmHistory, ApiView!Serves,
     Workflow!Serves, ApiView!Answer, Workflow!Answer, ApiView!Proceed,
     Workflow!Proceed, ApiView!StillIn, Workflow!StillIn, ApiView!SetStatus,
     Workflow!SetStatus, ApiView!Record, Workflow!Record, ApiView!HashIsNew,
     Workflow!HashIsNew, ApiView!Paid, Workflow!Paid, ApiView!NoHash, Workflow!NoHash,
     ApiView!database, Workflow!database, ApiView!ledgerVars, Workflow!ledgerVars
<1>16. Workflow!FindSlot(w) => ApiView!FindSlot(w)
  BY DEF View, ApiView!FindSlot, Workflow!FindSlot, ApiView!Serves, Workflow!Serves,
     ApiView!Answer, Workflow!Answer, ApiView!Proceed, Workflow!Proceed,
     ApiView!SlotIsFree, Workflow!SlotIsFree, ApiView!database, Workflow!database,
     ApiView!ledgerVars, Workflow!ledgerVars
<1>17. Workflow!InsertBooking(w) => ApiView!InsertBooking(w)
  BY DEF View, ApiView!InsertBooking, Workflow!InsertBooking, ApiView!Serves,
     Workflow!Serves, ApiView!Answer, Workflow!Answer, ApiView!Insertable,
     Workflow!Insertable, ApiView!SlotIsFree, Workflow!SlotIsFree, ApiView!Put,
     Workflow!Put, ApiView!NoProof, Workflow!NoProof, ApiView!NoHash, Workflow!NoHash,
     ApiView!database, Workflow!database, ApiView!ledgerVars, Workflow!ledgerVars
<1>18. QED
  BY <1>1, <1>2, <1>3, <1>4, <1>5, <1>6, <1>7, <1>8, <1>9, <1>10, <1>11, <1>12, <1>13, <1>14,
     <1>15, <1>16, <1>17 DEF ApiView!Serve, Workflow!Serve

\* So is all it does besides.
LEMMA SameNext ==
    ASSUME Workflow!Next
    PROVE  ApiView!Next
<1>1. Workflow!Post => ApiView!Post
  BY DEF View, ApiView!Post, Workflow!Post, ApiView!Create, Workflow!Create,
     ApiView!DepositAccepted, Workflow!DepositAccepted, ApiView!VisitAhead,
     Workflow!VisitAhead, ApiView!Put, Workflow!Put, ApiView!IssueChallenge,
     Workflow!IssueChallenge,
     ApiView!Submit, Workflow!Submit, ApiView!Kind, Workflow!Kind, ApiView!apiVars,
     Workflow!apiVars, ApiView!ledgerVars, Workflow!ledgerVars, ApiView!database,
     Workflow!database
<1>2. Workflow!RpcCatchesUp => ApiView!RpcCatchesUp
  BY DEF View, ApiView!RpcCatchesUp, Workflow!RpcCatchesUp, ApiView!apiVars,
     Workflow!apiVars, ApiView!ledgerVars, Workflow!ledgerVars, ApiView!database,
     Workflow!database
<1>3. Workflow!Tick => ApiView!Tick
  BY DEF View, ApiView!Tick, Workflow!Tick, ApiView!apiVars, Workflow!apiVars,
     ApiView!ledgerVars, Workflow!ledgerVars, ApiView!database, Workflow!database
<1>4. \A c, event : Workflow!LedgerPublishes(c, event) => ApiView!LedgerPublishes(c, event)
  BY DEF View, ApiView!LedgerPublishes, Workflow!LedgerPublishes, ApiView!Published,
     Workflow!Published, ApiView!Settled, Workflow!Settled, ApiView!apiVars,
     Workflow!apiVars, ApiView!ledgerVars, Workflow!ledgerVars, ApiView!database,
     Workflow!database
<1>5. Workflow!Restart => ApiView!Restart
  BY DEF View, ApiView!Restart, Workflow!Restart, ApiView!apiVars, Workflow!apiVars,
     ApiView!ledgerVars, Workflow!ledgerVars, ApiView!database, Workflow!database
<1>6. \A w \in Worker : Workflow!Fails(w) => ApiView!Fails(w)
  BY DEF View, ApiView!Fails, Workflow!Fails, ApiView!Answer, Workflow!Answer,
     ApiView!apiVars, Workflow!apiVars, ApiView!ledgerVars, Workflow!ledgerVars,
     ApiView!database, Workflow!database
<1>7. QED
  BY <1>1, <1>2, <1>3, <1>4, <1>5, <1>6, SameServe
     DEF ApiView!Next, Workflow!Next, ApiView!Up, Workflow!Up

\* Pages, contract and API together are a behaviour of the API as specified by itself:
\* the ledger it assumes is the one it gets, and what holds of it alone holds here.
THEOREM ApiSeesItsLedger == Spec => TheApiSeesItsLedger
<1>1. Init => ApiView!Init
  BY DEF Init, Chain!Init, Api!Init, ApiView!Init
<1>2. Whole /\ [Next]_vars => [ApiView!Next]_(ApiView!vars)
  <2> SUFFICES ASSUME Whole, [Next]_vars  PROVE [ApiView!Next]_(ApiView!vars)
    OBVIOUS
  <2>1. [Workflow!Next]_(Workflow!vars)
    BY NextMoves, StepsOfParts
  <2>2. UNCHANGED Workflow!vars => UNCHANGED ApiView!vars
    BY DEF View, Workflow!vars, ApiView!vars
  <2>3. QED
    BY <2>1, <2>2, SameNext
<1>3. QED
  BY <1>1, <1>2, WholeInvariant, PTL DEF Spec, TheApiSeesItsLedger, ApiView!Spec

----------------------------------------------------------------------------
(***************************************************************************)
(* The promise to renter and host.                                         *)
(***************************************************************************)
\* The promise sees the contract here as it sees the contract by itself.
LEMMA SameSight ==
    /\ Chain!Chosen = Contract!Chosen /\ Chain!Agreed = Contract!Agreed
    /\ Chain!Stages = Contract!Stages /\ Chain!Wallets = Contract!Wallets
    /\ Chain!Chosen' = Contract!Chosen' /\ Chain!Agreed' = Contract!Agreed'
    /\ Chain!Stages' = Contract!Stages' /\ Chain!Wallets' = Contract!Wallets'
BY DEF Chain!Chosen, Contract!Chosen, Chain!Agreed, Contract!Agreed, Chain!Terms,
   Contract!Terms, Chain!Stages, Contract!Stages, Chain!stageOf, Contract!stageOf,
   Chain!Wallets, Contract!Wallets

\* So what happens to a deposit is the same to both.
LEMMA DepositMoves ==
    ASSUME NEW c
    PROVE  /\ Contract!Promise!Agree(c) => Promise!Agree(c)
           /\ Contract!Promise!Deposit(c) => Promise!Deposit(c)
           /\ Contract!Promise!CallOff(c) => Promise!CallOff(c)
           /\ Contract!Promise!TakeBack(c) => Promise!TakeBack(c)
           /\ Contract!Promise!GiveBack(c) => Promise!GiveBack(c)
<1>1. Contract!Promise!Agree(c) => Promise!Agree(c)
  BY SameSight DEF Contract!Promise!Agree, Promise!Agree, Contract!Promise!With, Promise!With,
     Contract!Promise!Agreement, Promise!Agreement
<1>2. Contract!Promise!Deposit(c) => Promise!Deposit(c)
  BY SameSight DEF Contract!Promise!Deposit, Promise!Deposit, Contract!Promise!With,
     Promise!With, Contract!Promise!Pay, Promise!Pay
<1>3. Contract!Promise!CallOff(c) => Promise!CallOff(c)
  BY SameSight DEF Contract!Promise!CallOff, Promise!CallOff, Contract!Promise!With,
     Promise!With
<1>4. Contract!Promise!TakeBack(c) => Promise!TakeBack(c)
  BY SameSight DEF Contract!Promise!TakeBack, Promise!TakeBack, Contract!Promise!With,
     Promise!With, Contract!Promise!Pay, Promise!Pay
<1>5. Contract!Promise!GiveBack(c) => Promise!GiveBack(c)
  BY SameSight DEF Contract!Promise!GiveBack, Promise!GiveBack, Contract!Promise!With,
     Promise!With, Contract!Promise!Pay, Promise!Pay
<1>6. QED
  BY <1>1, <1>2, <1>3, <1>4, <1>5

\* The promise's variables after a step are those of the state after it.
LEMMA SightNext ==
    /\ Bookings' = [id \in DOMAIN row' |->
                      [renter |-> row'[id].renter, viewing |-> row'[id].slot,
                       amount |-> row'[id].deposit]]
    /\ Coded' = {challenges'[n].booking : n \in DOMAIN challenges'}
    /\ Outcomes' = [id \in DOMAIN row' |-> outcome(id)']
    /\ Recorded' = [id \in DOMAIN row' |-> row'[id].status]
BY DEF Bookings, Coded, Outcomes, Recorded

\* A step that leaves the contract and the time alone moves no deposit.
LEMMA MoneyStays ==
    ASSUME UNCHANGED <<contractVars, now>>
    PROVE  UNCHANGED Promise!money
BY DEF contractVars, Promise!money, Chain!Chosen, Chain!Agreed, Chain!Terms, Chain!Stages,
   Chain!stageOf, Chain!Wallets

\* Nor does it change what became of one, if nothing is published either.
LEMMA OutcomesStay ==
    ASSUME UNCHANGED <<bookings, txs>>, NEW id
    PROVE  outcome(id)' = outcome(id)
BY DEF outcome, EscrowOf, Chain!Published

\* What became of a deposit is what the state of its escrow says; of a refund only the
\* ledger tells whether there was a deposit.
OutcomeFits(id) ==
    LET c == OnChain[id] IN
    /\ c \notin DOMAIN bookings => outcome(id) = "nothing"
    /\ c \in DOMAIN bookings =>
          /\ bookings[c].state = "Created" => outcome(id) = "nothing"
          /\ bookings[c].state = "Funded" => outcome(id) = "deposited"
          /\ bookings[c].state = "Released" => outcome(id) = "released"
          /\ bookings[c].state = "Refunded" =>
                outcome(id) = IF Chain!Published(c, "BookingFunded") THEN "refunded"
                              ELSE "nothing"
AllOutcomesFit == \A id : OutcomeFits(id)

\* So it is whenever the events tell the state.
LEMMA OutcomesFit == Contract!Faithful => AllOutcomesFit
<1> SUFFICES ASSUME Contract!Faithful, NEW id  PROVE OutcomeFits(id)
  BY DEF AllOutcomesFit
<1>1. PICK c : c = OnChain[id]
  OBVIOUS
<1>2. outcome(id) = IF ~ Chain!Published(c, "BookingFunded") THEN "nothing"
                    ELSE CASE bookings[c].state = "Refunded" -> "refunded"
                           [] bookings[c].state = "Released" -> "released"
                           [] OTHER                          -> "deposited"
  BY <1>1 DEF outcome, EscrowOf
<1>3. \A event : Chain!Published(c, event) <=> Contract!Published(c, event)
  BY DEF Chain!Published, Contract!Published
<1>4. c \notin DOMAIN bookings => ~ Chain!Published(c, "BookingFunded")
  BY <1>3 DEF Contract!Faithful, Contract!EventsTellTheState, Contract!Published
<1>5. ASSUME c \in DOMAIN bookings
      PROVE  /\ bookings[c].state = "Created" => ~ Chain!Published(c, "BookingFunded")
             /\ bookings[c].state = "Funded" => Chain!Published(c, "BookingFunded")
             /\ bookings[c].state = "Released" => Contract!Published(c, "VisitConfirmed")
  BY <1>3, <1>5 DEF Contract!Faithful, Contract!EventsTellTheState
<1>6. Contract!Published(c, "VisitConfirmed") => Chain!Published(c, "BookingFunded")
  <2> SUFFICES ASSUME Contract!Published(c, "VisitConfirmed")
               PROVE  Contract!Published(c, "BookingFunded")
    BY <1>3
  <2>1. PICK i \in DOMAIN txs : txs[i].booking_id = c /\ txs[i].event = "VisitConfirmed"
    BY DEF Contract!Published
  <2>2. Contract!After(i, "BookingFunded")
    BY <2>1 DEF Contract!Faithful, Contract!SettledByTheRightParty
  <2>3. i \in Nat /\ \A j \in 1 .. i - 1 : j \in DOMAIN txs
    <3>1. txs \in Seq(Contract!Tx)
      BY DEF Contract!Faithful, Contract!Typed, Contract!TypeOK
    <3>2. DOMAIN txs = 1 .. Len(txs) /\ Len(txs) \in Nat
      BY <3>1
    <3>3. QED
      BY <2>1, <3>2
  <2>4. QED
    BY <2>1, <2>2, <2>3 DEF Contract!After, Contract!Published
<1>7. PICK state : state = bookings[c].state
  OBVIOUS
<1>8. CASE ~ Chain!Published(c, "BookingFunded")
  BY <1>1, <1>2, <1>4, <1>5, <1>6, <1>8 DEF OutcomeFits
<1>9. CASE Chain!Published(c, "BookingFunded")
  <2>1. /\ state = "Refunded" => outcome(id) = "refunded"
        /\ state = "Released" => outcome(id) = "released"
        /\ state = "Funded" => outcome(id) = "deposited"
    BY <1>2, <1>7, <1>9
  <2>2. QED
    BY <1>1, <1>4, <1>5, <1>7, <1>9, <2>1 DEF OutcomeFits
<1>10. QED
  BY <1>8, <1>9

----------------------------------------------------------------------------
(***************************************************************************)
(* Bookings, codes and records.                                            *)
(***************************************************************************)
\* A booking made is one of the promise.
LEMMA CreateKeepsVisit ==
    ASSUME Agree, NEW w \in Worker, NEW id \in BookingRef, NEW slot \in Slot,
           NEW renter \in Account, NEW host \in Account, NEW deposit \in Workflow!AskedDeposit,
           Workflow!Inserts(w, id, slot, renter, host, deposit),
           UNCHANGED <<contractVars, txs, now>>
    PROVE  Promise!Book(id)
<1>1. PICK new : new = [slot |-> slot, renter |-> renter, host |-> host, deposit |-> deposit,
                        status |-> "PENDING_FUNDING", proof |-> Workflow!NoProof]
  OBVIOUS
<1>2. /\ renter # host /\ SlotHost[slot] = host
      /\ \A other \in DOMAIN row : row[other].slot # slot /\ OnChain[other] # OnChain[id]
      /\ id \notin DOMAIN row
      /\ row' = [z \in DOMAIN row \cup {id} |-> IF z = id THEN new ELSE row[z]]
      /\ UNCHANGED challenges
  BY <1>1 DEF Workflow!Inserts, Workflow!Insertable, Workflow!SlotIsFree, Workflow!Put
<1>3. new.slot = slot /\ new.renter = renter /\ new.deposit = deposit
      /\ new.status = "PENDING_FUNDING"
  BY <1>1
<1>4. deposit \in 1 .. MaxApiDeposit
  BY DEF Workflow!AskedDeposit
<1> DEFINE booked == [renter |-> renter, viewing |-> slot, amount |-> deposit]
<1>5. Bookings' = Promise!With(Bookings, id, booked)
  BY <1>2, <1>3, SightNext DEF Bookings, Promise!With
<1>6. Recorded' = Promise!With(Recorded, id, "PENDING_FUNDING")
  BY <1>2, <1>3, SightNext DEF Recorded, Promise!With
<1>7. outcome(id) = "nothing"
  <2>1. OnChain[id] \notin DOMAIN bookings
    BY <1>2 DEF Agree, EscrowsAreStored, SameTerms
  <2>2. QED
    BY <2>1, OutcomesFit DEF Agree, Whole, AllOutcomesFit, OutcomeFits
<1>8. Outcomes' = Promise!With(Outcomes, id, "nothing")
  <2>1. \A other : outcome(other)' = outcome(other)
    BY OutcomesStay DEF contractVars
  <2>2. Outcomes' = [z \in DOMAIN row \cup {id} |-> outcome(z)]
    BY <1>2, <2>1, SightNext
  <2>3. QED
    BY <1>7, <2>2 DEF Outcomes, Promise!With
<1>9. UNCHANGED <<Promise!money, Coded>>
  BY <1>2, MoneyStays, SightNext DEF Coded
<1>10. /\ id \notin DOMAIN Bookings /\ DOMAIN Bookings = DOMAIN row
       /\ \A other \in DOMAIN row : Bookings[other].viewing = row[other].slot
  BY <1>2 DEF Bookings
<1> HIDE DEF booked
<1>11. QED
  BY <1>2, <1>4, <1>5, <1>6, <1>8, <1>9, <1>10 DEF Promise!Book, booked

\* A host who is given a code shows one.
LEMMA ShowCodeKeepsVisit ==
    ASSUME Agree, NEW a \in Account, NEW id \in BookingRef, NEW nonce \in Nonce,
           ShowCode(a, id, nonce)
    PROVE  Promise!ShowCode(id) /\ id \in DOMAIN Bookings
<1>1. PICK code : code = [booking |-> id, expiresAt |-> now + ChallengeLife, consumed |-> FALSE]
  OBVIOUS
<1>2. /\ id \in DOMAIN row /\ nonce \notin DOMAIN challenges
      /\ challenges' = [n \in DOMAIN challenges \cup {nonce} |->
                           IF n = nonce THEN code ELSE challenges[n]]
      /\ UNCHANGED <<row, contractVars, txs, now>>
  BY <1>1 DEF ShowCode, Api!IssueChallenge, Api!Put, Api!ledgerVars
<1>3. code.booking = id
  BY <1>1
<1>4. Coded' = Coded \cup {id}
  BY <1>2, <1>3, SightNext DEF Coded
<1>5. UNCHANGED <<Promise!money, Bookings, Recorded>>
  BY <1>2, MoneyStays, SightNext DEF Bookings, Recorded
<1>6. Outcomes' = Outcomes
  BY <1>2, OutcomesStay, SightNext DEF Outcomes, contractVars
<1>7. QED
  BY <1>2, <1>4, <1>5, <1>6 DEF Promise!ShowCode, Bookings

\* A status that moves is a record of the promise.
LEMMA StatusIsRecord ==
    ASSUME Agree, Workflow!Kept, UNCHANGED <<contractVars, txs, now>>, Coded' = Coded,
           NEW id \in DOMAIN row, NEW from, NEW to, row[id].status = from,
           DOMAIN row' = DOMAIN row, row'[id].status = to,
           \A other \in DOMAIN row : other # id => row'[other] = row[other]
    PROVE  Promise!Record(id, from, to)
<1>1. Recorded[id] = from /\ Recorded' = Promise!With(Recorded, id, to)
  BY SightNext DEF Recorded, Promise!With
<1>2. \A other \in DOMAIN row :
         /\ row'[other].renter = row[other].renter /\ row'[other].slot = row[other].slot
         /\ row'[other].deposit = row[other].deposit
  BY RowsGrow
<1>3. Bookings' = Bookings
  BY <1>2, SightNext DEF Bookings
<1>4. Outcomes' = Outcomes
  BY OutcomesStay, SightNext DEF Outcomes, contractVars
<1>5. QED
  BY <1>1, <1>3, <1>4, MoneyStays DEF Promise!Record

\* What the ledger has of a booking recorded as paid in.
LEMMA OutcomeOfRecorded ==
    ASSUME Agree, NEW id \in DOMAIN row
    PROVE  /\ Chain!Published(OnChain[id], "BookingFunded") => outcome(id) # "nothing"
           /\ row[id].status # "PENDING_FUNDING"
                 /\ Chain!Published(OnChain[id], "DepositRefunded") => outcome(id) = "refunded"
           /\ Chain!Published(OnChain[id], "VisitConfirmed") => outcome(id) = "released"
<1>1. PICK c : c = OnChain[id]
  OBVIOUS
<1>2. OutcomeFits(id) /\ Contract!EventsTellTheState
  BY OutcomesFit DEF Agree, Whole, Contract!Faithful, AllOutcomesFit
<1>3. \A event : Chain!Published(c, event) <=> Contract!Published(c, event)
  BY DEF Chain!Published, Contract!Published
<1>4. ASSUME NEW event, Chain!Published(c, event)
      PROVE  /\ c \in DOMAIN bookings
             /\ event = "BookingFunded" => bookings[c].state # "Created"
             /\ event = "DepositRefunded" => bookings[c].state = "Refunded"
             /\ event = "VisitConfirmed" => bookings[c].state = "Released"
  BY <1>2, <1>3, <1>4 DEF Contract!EventsTellTheState, Contract!Published
<1>5. c \in DOMAIN bookings => bookings[c].state \in {"Created", "Funded", "Refunded", "Released"}
  BY DEF Agree, Whole, Contract!Faithful, Contract!Typed, Contract!TypeOK, Contract!Booking,
     Contract!BookingState
<1>6. row[id].status # "PENDING_FUNDING" => Chain!Published(c, "BookingFunded")
  BY <1>1, RecordedIsStored
<1>7. Chain!Published(c, "BookingFunded") => outcome(id) # "nothing"
  BY <1>1, <1>2, <1>4, <1>5 DEF OutcomeFits
<1>8. row[id].status # "PENDING_FUNDING" /\ Chain!Published(c, "DepositRefunded")
         => outcome(id) = "refunded"
  BY <1>1, <1>2, <1>4, <1>6 DEF OutcomeFits
<1>9. Chain!Published(c, "VisitConfirmed") => outcome(id) = "released"
  BY <1>1, <1>2, <1>4 DEF OutcomeFits
<1>10. QED
  BY <1>1, <1>7, <1>8, <1>9

\* A step of the API is one of the promise, or is not seen.
LEMMA ApiKeepsVisit ==
    ASSUME Agree, [Workflow!Next]_(Workflow!vars), Workflow!Kept,
           UNCHANGED <<contractVars, txs, now>>, Coded' = Coded
    PROVE  Promise!VisitNext \/ UNCHANGED Promise!allVars
<1>1. /\ DOMAIN Bookings = DOMAIN row /\ DOMAIN row \subseteq BookingRef
      /\ \A id \in DOMAIN row : Outcomes[id] = outcome(id)
  BY DEF Bookings, Outcomes, Agree, Whole, TermsOffered
<1>2. ASSUME NEW w \in Worker, NEW id \in BookingRef, NEW slot \in Slot,
             NEW renter \in Account, NEW host \in Account,
             NEW deposit \in Workflow!AskedDeposit,
             Workflow!Inserts(w, id, slot, renter, host, deposit)
      PROVE  Promise!VisitNext
  BY <1>2, CreateKeepsVisit DEF Promise!VisitNext
<1>3. ASSUME NEW id \in DOMAIN row, NEW from, NEW to, Workflow!Moves(id, from, to)
      PROVE  Promise!Record(id, from, to)
  BY <1>3, StatusIsRecord DEF Workflow!Moves
<1>4. ASSUME NEW id, NEW hash, NEW from, NEW to \in Workflow!Status, NEW kind, NEW event,
             Workflow!Pays(id, hash, from, to, kind, event)
      PROVE  /\ id \in DOMAIN row /\ row[id].status = from
             /\ Chain!Published(OnChain[id], event) /\ Promise!Record(id, from, to)
  <2>1. /\ id \in DOMAIN row /\ row[id].status = from
        /\ hash \in DOMAIN View /\ View[hash].event = event /\ View[hash].booking_id = OnChain[id]
        /\ row' = [row EXCEPT ![id].status = to]
    BY <1>4 DEF Workflow!Pays, Workflow!SetStatus
  <2>2. Chain!Published(OnChain[id], event)
    BY <2>1, ViewOf DEF Agree, Whole, Chain!Published
  <2>3. /\ DOMAIN row' = DOMAIN row /\ row'[id].status = to
        /\ \A other \in DOMAIN row : other # id => row'[other] = row[other]
    BY <2>1, Workflow!StatusSet, CompositionAssumption
    DEF Agree, Whole, Workflow!Base, Api!WorkflowAssumption
  <2>4. QED
    BY <2>1, <2>2, <2>3, StatusIsRecord
<1>5. CASE Workflow!Settles
  <2>1. PICK id \in BookingRef, hash \in Nat :
          \/ Workflow!Pays(id, hash, "PENDING_FUNDING", "FUNDED", "FUND", "BookingFunded")
          \/ Workflow!Pays(id, hash, "FUNDED", "REFUNDED", "REFUND", "DepositRefunded")
    BY <1>5 DEF Workflow!Settles
  <2>2. CASE Workflow!Pays(id, hash, "PENDING_FUNDING", "FUNDED", "FUND", "BookingFunded")
    <3>1. id \in DOMAIN row /\ Promise!RecordDeposit(id)
      BY <1>1, <1>4, <2>2, OutcomeOfRecorded DEF Promise!RecordDeposit, Workflow!Status
    <3>2. QED
      BY <1>1, <3>1 DEF Promise!VisitNext
  <2>3. CASE Workflow!Pays(id, hash, "FUNDED", "REFUNDED", "REFUND", "DepositRefunded")
    <3>1. id \in DOMAIN row /\ Promise!RecordRefund(id)
      BY <1>1, <1>4, <2>3, OutcomeOfRecorded DEF Promise!RecordRefund, Workflow!Status
    <3>2. QED
      BY <1>1, <3>1 DEF Promise!VisitNext
  <2>4. QED
    BY <2>1, <2>2, <2>3
<1>6. CASE Workflow!ChecksIn
  <2>1. PICK w \in Worker, id \in BookingRef :
          /\ requests[w] # Idle /\ requests[w].kind = "check-in"
          /\ requests[w].stage = "checked" /\ requests[w].id = id
          /\ Workflow!Moves(id, "FUNDED", "CHECKED_IN")
    BY <1>6 DEF Workflow!ChecksIn, Workflow!Serves
  <2>2. /\ requests[w].arg \in DOMAIN challenges
        /\ challenges[requests[w].arg].booking = id
    BY <2>1 DEF Agree, Whole, Workflow!Base, Workflow!Served, Workflow!Good
  <2>3. id \in Coded
    BY <2>2 DEF Coded
  <2>4. id \in DOMAIN row /\ Promise!CheckIn(id)
    BY <1>3, <2>1, <2>3 DEF Promise!CheckIn, Workflow!Moves
  <2>5. QED
    BY <1>1, <2>4 DEF Promise!VisitNext
<1>7. CASE Workflow!Completes
  <2>1. PICK id \in BookingRef :
          /\ Workflow!Moves(id, "CHECKED_IN", "COMPLETED")
          /\ Workflow!Published(OnChain[id], "VisitConfirmed")
    BY <1>7 DEF Workflow!Completes
  <2>2. id \in DOMAIN row /\ Chain!Published(OnChain[id], "VisitConfirmed")
    BY <2>1, ViewOf DEF Agree, Whole, Workflow!Moves, Workflow!Published, Chain!Published
  <2>3. Promise!RecordRelease(id)
    BY <1>1, <1>3, <2>1, <2>2, OutcomeOfRecorded DEF Promise!RecordRelease
  <2>4. QED
    BY <1>1, <2>2, <2>3 DEF Promise!VisitNext
<1>8. CASE UNCHANGED row
  <2>1. UNCHANGED <<Promise!money, Bookings, Recorded>>
    BY <1>8, MoneyStays, SightNext DEF Bookings, Recorded
  <2>2. Outcomes' = Outcomes
    BY <1>8, OutcomesStay, SightNext DEF Outcomes, contractVars
  <2>3. QED
    BY <2>1, <2>2 DEF Promise!allVars
<1>9. \/ Workflow!Creates \/ Workflow!Settles \/ Workflow!ChecksIn \/ Workflow!Completes
      \/ UNCHANGED row
  BY Workflow!StepKinds, CompositionAssumption
  DEF Agree, Whole, Api!WorkflowAssumption, Workflow!Quiet, Workflow!CheckInHistory,
      Workflow!ConfirmHistory
<1>10. QED
  BY <1>2, <1>5, <1>6, <1>7, <1>8, <1>9 DEF Workflow!Creates

\* No request shows a code: it spends one at most.
LEMMA CodesStay ==
    ASSUME Whole, Workflow!Kept,
           \/ \E w \in Worker : Serve(w) \/ Fails(w)
           \/ Restart
           \/ RpcCatchesUp
    PROVE  Coded' = Coded
<1>1. DOMAIN challenges' = DOMAIN challenges
  BY DEF Serve, Fails, Restart, RpcCatchesUp, Api!Serve, Api!FundVerify, Api!FundCheck,
     Api!FundCommit, Api!CancelVerify, Api!RefundCheck, Api!RefundCommit, Api!FindChallenge,
     Api!SpendChallenge, Api!CheckInCheck, Api!CheckInUpdate, Api!CheckInHistory,
     Api!ConfirmVerify, Api!ConfirmCheck, Api!ConfirmUpdate, Api!ConfirmHistory,
     Api!Verify, Api!Check, Api!FindSlot, Api!InsertBooking, Api!Fails, Api!Restart,
     Api!RpcCatchesUp, Api!database, Api!apiVars
<1>2. \A n \in DOMAIN challenges : challenges'[n].booking = challenges[n].booking
  BY DEF Workflow!Kept, Workflow!Grows
<1>3. QED
  BY <1>1, <1>2, SightNext DEF Coded

----------------------------------------------------------------------------
(***************************************************************************)
(* Deposits.                                                               *)
(***************************************************************************)
\* Who hosts a viewing hosts its booking.
HostsHost == \A id \in DOMAIN row : row[id].host = SlotHost[row[id].slot]

\* It stays so: a booking is stored for the host of its slot, and neither ever changes.
LEMMA HostsStay ==
    ASSUME Whole, HostsHost, [Next]_vars
    PROVE  HostsHost'
<1>1. Workflow!Kept /\ [Workflow!Next]_(Workflow!vars)
  BY NextMoves, StepsOfParts, PartsKept
<1>2. \/ Workflow!Creates
      \/ DOMAIN row' = DOMAIN row
  BY <1>1, Workflow!StepKinds, Workflow!SameBookings, CompositionAssumption
  DEF Whole, Api!WorkflowAssumption
<1>3. ASSUME NEW id \in DOMAIN row  PROVE row'[id].host = SlotHost[row'[id].slot]
  BY <1>1, RowsGrow DEF HostsHost
<1>4. CASE Workflow!Creates
  <2>1. PICK w \in Worker, new \in BookingRef, slot \in Slot, renter \in Account,
             host \in Account, deposit \in Workflow!AskedDeposit :
                Workflow!Inserts(w, new, slot, renter, host, deposit)
    BY <1>4 DEF Workflow!Creates
  <2>2. PICK stored : stored = [slot |-> slot, renter |-> renter, host |-> host,
                                deposit |-> deposit, status |-> "PENDING_FUNDING",
                                proof |-> Workflow!NoProof]
    OBVIOUS
  <2>3. /\ row' = [z \in DOMAIN row \cup {new} |-> IF z = new THEN stored ELSE row[z]]
        /\ SlotHost[slot] = host
    BY <2>1, <2>2 DEF Workflow!Inserts, Workflow!Put
  <2>4. stored.host = SlotHost[stored.slot]
    BY <2>2, <2>3
  <2>5. QED
    BY <1>3, <2>3, <2>4 DEF HostsHost
<1>5. QED
  BY <1>2, <1>3, <1>4 DEF HostsHost

\* One call tells of one deposit.
LEMMA OthersStay ==
    ASSUME Agree, Contract!Faithful', NEW call, CallFits(call), Invoke(call),
           UNCHANGED row, NEW c, c = OnChain[call.id]
    PROVE  /\ \A other \in DOMAIN row : other # call.id => outcome(other)' = outcome(other)
           /\ call.method # "fund_booking" =>
                 (Chain!Published(c, "BookingFunded")' <=> Chain!Published(c, "BookingFunded"))
<1>1. PICK event, amount, by : /\ Publishes(c, event, amount, by)
                               /\ event = "BookingFunded" <=> call.method = "fund_booking"
  BY InvokePublishes DEF Agree, Whole, CallFits
<1>2. PICK tx : tx = [event |-> event, booking_id |-> c, amount |-> amount,
                      by |-> by, at |-> now]
  OBVIOUS
<1>3. /\ txs \in Seq(Contract!Tx) /\ txs' \in Seq(Contract!Tx) /\ txs' = Append(txs, tx)
      /\ tx.booking_id = c /\ tx.event = event
  BY <1>1, <1>2 DEF Publishes, Agree, Whole, Contract!Faithful, Contract!Typed, Contract!TypeOK
<1>4. tx \in Contract!Tx
  <2>1. txs'[Len(txs) + 1] = tx /\ Len(txs) + 1 \in DOMAIN txs'
    BY <1>3
  <2>2. QED
    BY <1>3, <2>1
<1>5. \A d, x : Contract!Published(d, x)' <=> Contract!Published(d, x) \/ (d = c /\ x = event)
  BY <1>3, <1>4, Contract!PublishedNext, CompositionAssumption DEF Chain!ConstantsAssumption
<1>6. \A d, x : Chain!Published(d, x)' <=> Chain!Published(d, x) \/ (d = c /\ x = event)
  BY <1>5 DEF Chain!Published, Contract!Published
<1>7. \A d \in DOMAIN bookings : d # c => bookings'[d] = bookings[d]
  BY DEF Invoke, Chain!CreateBooking, Chain!FundBooking, Chain!CancelBooking,
     Chain!ConfirmVisit, Chain!SetState, CallFits, Carries, Client!Method
<1>8. ASSUME NEW other \in DOMAIN row, other # call.id
      PROVE  outcome(other)' = outcome(other)
  <2>1. PICK d : d = OnChain[other]
    OBVIOUS
  <2>2. d # c
    BY <1>8, <2>1 DEF CallFits, Carries, Agree, Workflow!BookingsAreDistinct
  <2>3. Chain!Published(d, "BookingFunded")' <=> Chain!Published(d, "BookingFunded")
    BY <1>6, <2>2
  <2>4. Chain!Published(d, "BookingFunded") => bookings'[d] = bookings[d]
    BY <1>7, <2>2 DEF Chain!Published, Agree, Whole, Contract!Faithful,
       Contract!EventsTellTheState
  <2>5. QED
    BY <2>1, <2>3, <2>4 DEF outcome, EscrowOf
<1>9. QED
  BY <1>1, <1>6, <1>8

\* What a call makes of the deposit it is about.
LEMMA CallKeepsVisit ==
    ASSUME Agree, HostsHost, Contract!Faithful', NEW call, CallFits(call), Invoke(call),
           UNCHANGED <<row, challenges>>
    PROVE  /\ call.id \in DOMAIN row
           /\ Promise!AgreeDeposit(call.id) \/ Promise!MoveDeposit(call.id)
<1>1. PICK id : id = call.id
  OBVIOUS
<1>2. PICK c : c = OnChain[id]
  OBVIOUS
<1>3. PICK by : by = call.by
  OBVIOUS
<1>4. /\ id \in DOMAIN row /\ by \in Account /\ c \in Contract!BookingId
      /\ row[id].host \in Account /\ row[id].slot \in Slot
      /\ visitTime(row[id].slot) \in OfferedVisit
  BY <1>1, <1>2, <1>3, InvokeIsCall, CompositionAssumption
  DEF CallFits, Carries, Agree, Whole, TermsOffered, visitTime
<1>5. UNCHANGED <<Bookings, Coded, Recorded>>
  BY SightNext DEF Bookings, Coded, Recorded
<1>6. ASSUME NEW what, outcome(id)' = what
      PROVE  Outcomes' = Promise!With(Outcomes, id, what)
  <2>1. \A other \in DOMAIN row : other # id => outcome(other)' = outcome(other)
    BY <1>1, OthersStay
  <2>2. QED
    BY <1>4, <1>6, <2>1, SightNext DEF Outcomes, Promise!With
<1>7. OutcomeFits(id) /\ OutcomeFits(id)'
  <2>1. Contract!Faithful
    BY DEF Agree, Whole
  <2>2. AllOutcomesFit /\ AllOutcomesFit'
    BY <2>1, OutcomesFit, PTL
  <2>3. QED
    BY <2>2 DEF AllOutcomesFit
<1>8. CASE call.method = "create_booking"
  <2>1. Contract!CreateBooking(c, by, row[id].host, row[id].deposit,
                               visitTime(row[id].slot))
    BY <1>1, <1>2, <1>3, <1>8, InvokeIs DEF Agree, Whole, CallFits
  <2>2. /\ Promise!Agree(c)
        /\ Contract!Agreed'[c] = [renter |-> by, host |-> row[id].host,
                                  amount |-> row[id].deposit,
                                  visit |-> visitTime(row[id].slot)]
    BY <1>4, <2>1, DepositMoves, Contract!CreateKeepsPromise, CompositionAssumption
    DEF Chain!ConstantsAssumption, Agree, Whole, Contract!Faithful
  <2>3. row[id].renter = by /\ row[id].host = SlotHost[row[id].slot]
    BY <1>1, <1>3, <1>4, <1>8 DEF CallFits, HostsHost
  <2>4. Chain!Agreed'[c] = Promise!TermsOf(id)
    BY <1>4, <2>2, <2>3 DEF Promise!TermsOf, Bookings, Chain!Agreed, Contract!Agreed, Chain!Terms,
       Contract!Terms
  <2>5. outcome(id) = "nothing" /\ outcome(id)' = "nothing"
    <3>1. c \notin DOMAIN bookings /\ c \in DOMAIN bookings' /\ bookings'[c].state = "Created"
      BY <2>1 DEF Contract!CreateBooking
    <3>2. QED
      BY <1>2, <1>7, <3>1 DEF OutcomeFits
  <2>6. Outcomes' = Outcomes
    BY <1>4, <1>6, <2>5 DEF Outcomes, Promise!With
  <2>7. Promise!AgreeDeposit(id)
    BY <1>2, <1>5, <2>2, <2>4, <2>6 DEF Promise!AgreeDeposit
  <2>8. QED
    BY <1>1, <1>4, <2>7
<1>9. ASSUME call.method # "create_booking",
             \/ Contract!FundBooking(by, c) \/ Contract!CancelBooking(by, c)
             \/ Contract!ConfirmVisit(by, c)
      PROVE  /\ c \in DOMAIN bookings /\ c \in DOMAIN Chain!Agreed
             /\ Contract!FundBooking(by, c) => Promise!Deposit(c)
             /\ Contract!CancelBooking(by, c) =>
                   \/ bookings[c].state = "Created" /\ Promise!CallOff(c)
                   \/ bookings[c].state = "Funded" /\ Promise!TakeBack(c)
             /\ Contract!ConfirmVisit(by, c) => Promise!GiveBack(c)
  <2>1. /\ c \in DOMAIN bookings
        /\ Contract!FundBooking(by, c) => Contract!Promise!Deposit(c)
        /\ Contract!CancelBooking(by, c) =>
              \/ bookings[c].state = "Created" /\ Contract!Promise!CallOff(c)
              \/ bookings[c].state = "Funded" /\ Contract!Promise!TakeBack(c)
        /\ Contract!ConfirmVisit(by, c) => Contract!Promise!GiveBack(c)
    BY <1>4, <1>9, Contract!CallKeepsPromise, CompositionAssumption
    DEF Chain!ConstantsAssumption, Agree, Whole, Contract!Faithful
  <2>2. QED
    BY <2>1, DepositMoves DEF Chain!Agreed
<1>10. ASSUME NEW state, Contract!SetState(c, state), c \in DOMAIN bookings
       PROVE  c \in DOMAIN bookings' /\ bookings'[c].state = state
  <2>1. bookings[c] \in Contract!Booking
    BY <1>10 DEF Agree, Whole, Contract!Faithful, Contract!Typed, Contract!TypeOK
  <2>2. QED
    BY <1>10, <2>1 DEF Contract!SetState, Contract!Booking
<1>11. ASSUME NEW what, Promise!Becomes(id, what), c \in DOMAIN Chain!Agreed,
              \/ Promise!Deposit(c) /\ what = "deposited"
              \/ Promise!CallOff(c) /\ what = "nothing"
              \/ Promise!TakeBack(c) /\ what = "refunded"
              \/ Recorded[id] = "CHECKED_IN" /\ Promise!GiveBack(c) /\ what = "released"
       PROVE  Promise!MoveDeposit(id)
  BY <1>2, <1>11 DEF Promise!MoveDeposit
<1>12. ASSUME NEW what, outcome(id)' = what  PROVE Promise!Becomes(id, what)
  BY <1>5, <1>6, <1>12 DEF Promise!Becomes
<1>13. CASE call.method = "fund_booking"
  <2>1. Contract!FundBooking(by, c)
    BY <1>1, <1>2, <1>3, <1>13, InvokeIs DEF Agree, Whole, CallFits
  <2>2. c \in DOMAIN bookings /\ c \in DOMAIN Chain!Agreed /\ Promise!Deposit(c)
    BY <1>9, <1>13, <2>1
  <2>3. c \in DOMAIN bookings' /\ bookings'[c].state = "Funded"
    BY <1>10, <2>1, <2>2 DEF Contract!FundBooking
  <2>4. outcome(id)' = "deposited"
    BY <1>2, <1>7, <2>3 DEF OutcomeFits
  <2>5. QED
    BY <1>1, <1>4, <1>11, <1>12, <2>2, <2>4
<1>14. CASE call.method = "cancel_booking"
  <2>1. Contract!CancelBooking(by, c)
    BY <1>1, <1>2, <1>3, <1>14, InvokeIs DEF Agree, Whole, CallFits
  <2>2. /\ c \in DOMAIN bookings /\ c \in DOMAIN Chain!Agreed
        /\ \/ bookings[c].state = "Created" /\ Promise!CallOff(c)
           \/ bookings[c].state = "Funded" /\ Promise!TakeBack(c)
    BY <1>9, <1>14, <2>1
  <2>3. c \in DOMAIN bookings' /\ bookings'[c].state = "Refunded"
    BY <1>10, <2>1, <2>2 DEF Contract!CancelBooking
  <2>4. Chain!Published(c, "BookingFunded")' <=> Chain!Published(c, "BookingFunded")
    BY <1>1, <1>2, <1>14, OthersStay
  <2>5. /\ bookings[c].state = "Created" => ~ Contract!Published(c, "BookingFunded")
        /\ bookings[c].state = "Funded" => Contract!Published(c, "BookingFunded")
    BY <2>2 DEF Agree, Whole, Contract!Faithful, Contract!EventsTellTheState
  <2>6. Chain!Published(c, "BookingFunded") <=> Contract!Published(c, "BookingFunded")
    BY DEF Chain!Published, Contract!Published
  <2>7. outcome(id)' = IF Chain!Published(c, "BookingFunded")' THEN "refunded" ELSE "nothing"
    BY <1>2, <1>7, <2>3 DEF OutcomeFits
  <2>8. CASE bookings[c].state = "Created"
    <3>1. outcome(id)' = "nothing" /\ Promise!CallOff(c)
      BY <2>2, <2>4, <2>5, <2>6, <2>7, <2>8
    <3>2. QED
      BY <1>1, <1>4, <1>11, <1>12, <2>2, <3>1
  <2>9. CASE bookings[c].state = "Funded"
    <3>1. outcome(id)' = "refunded" /\ Promise!TakeBack(c)
      BY <2>2, <2>4, <2>5, <2>6, <2>7, <2>9
    <3>2. QED
      BY <1>1, <1>4, <1>11, <1>12, <2>2, <3>1
  <2>10. QED
    BY <2>2, <2>8, <2>9
<1>15. CASE call.method = "confirm_visit"
  <2>1. Contract!ConfirmVisit(by, c) /\ row[id].status \in Arrived
    BY <1>1, <1>2, <1>3, <1>15, InvokeIs DEF Agree, Whole, CallFits
  <2>2. c \in DOMAIN bookings /\ c \in DOMAIN Chain!Agreed /\ Promise!GiveBack(c)
    BY <1>9, <1>15, <2>1
  <2>3. c \in DOMAIN bookings' /\ bookings'[c].state = "Released"
    BY <1>10, <2>1, <2>2 DEF Contract!ConfirmVisit
  <2>4. outcome(id)' = "released"
    BY <1>2, <1>7, <2>3 DEF OutcomeFits
  <2>5. Recorded[id] = "CHECKED_IN"
    <3>1. bookings[c].state = "Funded"
      BY <2>1 DEF Contract!ConfirmVisit
    <3>2. row[id].status # "COMPLETED"
      BY <1>2, <1>4, <3>1, RecordedIsStored DEF HasState, EscrowOf
    <3>3. QED
      BY <1>4, <2>1, <3>2 DEF Arrived, Recorded
  <2>6. QED
    BY <1>1, <1>4, <1>11, <1>12, <2>2, <2>4, <2>5
<1>16. QED
  BY <1>8, <1>13, <1>14, <1>15 DEF CallFits, Carries, Client!Method

\* What the ledger does by itself is somebody's own affair, time, or not seen.
LEMMA LedgerKeepsVisit ==
    ASSUME Agree, Ledger
    PROVE  Promise!VisitNext \/ UNCHANGED Promise!allVars
<1>1. UNCHANGED <<row, challenges, bookings, txs>>
  BY DEF Ledger, apiVars, Chain!Initialize, Chain!Network, Chain!CloseLedger,
     Chain!RestoreInstance, Chain!RestoreBooking, Chain!SendTokens, Chain!storage
<1>2. UNCHANGED <<Bookings, Coded, Outcomes, Recorded>>
  BY <1>1, OutcomesStay, SightNext DEF Bookings, Coded, Outcomes, Recorded
<1>3. ASSUME NEW a \in Asset, Chain!Initialize(a)  PROVE Promise!VisitNext
  <2>1. Contract!Initialize(a)
    BY <1>3 DEF Chain!Initialize, Contract!Initialize, Chain!InstanceLive,
       Contract!InstanceLive, Chain!Extended, Contract!Extended
  <2>2. Contract!Promise!ChooseCurrency
    BY <2>1, Contract!InitializeKeepsPromise, CompositionAssumption DEF Chain!ConstantsAssumption
  <2>3. Promise!ChooseCurrency
    BY <2>2, SameSight DEF Contract!Promise!ChooseCurrency, Promise!ChooseCurrency
  <2>4. QED
    BY <1>2, <2>3 DEF Promise!Elsewhere, Promise!VisitNext
<1>4. CASE Chain!CloseLedger
  <2>1. now' = now + 1 /\ UNCHANGED <<asset, bookings, balance>>
    BY <1>4 DEF Chain!CloseLedger, Chain!storage
  <2>2. UNCHANGED <<Chain!Chosen, Chain!Agreed, Chain!Stages, Chain!Wallets>>
    BY <2>1 DEF Chain!Chosen, Chain!Agreed, Chain!Terms, Chain!Stages, Chain!stageOf,
       Chain!Wallets
  <2>3. Promise!Tick
    BY <2>1, <2>2 DEF Promise!Tick
  <2>4. QED
    BY <1>2, <2>3 DEF Promise!Elsewhere, Promise!VisitNext
<1>5. CASE Chain!RestoreInstance \/ \E c \in Chain!BookingId : Chain!RestoreBooking(c)
  <2>1. UNCHANGED <<asset, bookings, balance, now>>
    BY <1>5 DEF Chain!RestoreInstance, Chain!RestoreBooking
  <2>2. UNCHANGED Promise!money
    BY <2>1 DEF Promise!money, Chain!Chosen, Chain!Agreed, Chain!Terms, Chain!Stages,
       Chain!stageOf, Chain!Wallets
  <2>3. QED
    BY <1>2, <2>2 DEF Promise!allVars
<1>6. ASSUME NEW a \in Asset, NEW from \in Account, NEW to \in Chain!Holder,
             NEW amount \in SentAmount, Chain!SendTokens(a, from, to, amount)
      PROVE  Promise!VisitNext \/ UNCHANGED Promise!allVars
  <2>1. Contract!SendTokens(a, from, to, amount) /\ to \in Contract!Holder
    BY <1>6 DEF Chain!SendTokens, Contract!SendTokens, Chain!storage, Contract!storage,
       Chain!Holder, Contract!Holder
  <2>2. Contract!Promise!Spend(from) \/ UNCHANGED Contract!Seen
    BY <2>1, Contract!SendKeepsPromise, CompositionAssumption
    DEF Chain!ConstantsAssumption, Agree, Whole, Contract!Faithful
  <2>3. CASE Contract!Promise!Spend(from)
    <3>1. Promise!Spend(from)
      BY <2>3, SameSight DEF Contract!Promise!Spend, Promise!Spend
    <3>2. QED
      BY <1>2, <3>1 DEF Promise!Elsewhere, Promise!VisitNext
  <2>4. CASE UNCHANGED Contract!Seen
    <3>1. UNCHANGED Promise!money
      BY <2>4, SameSight DEF Contract!Seen, Promise!money
    <3>2. QED
      BY <1>2, <3>1 DEF Promise!allVars
  <2>5. QED
    BY <2>2, <2>3, <2>4
<1>7. QED
  BY <1>3, <1>4, <1>5, <1>6 DEF Ledger, Chain!Network

----------------------------------------------------------------------------
(***************************************************************************)
(* Every step of the whole.                                                *)
(***************************************************************************)
\* What leaves contract, ledger, bookings and codes alone is not seen.
LEMMA UnseenByPromise ==
    ASSUME UNCHANGED <<contractVars, txs, now, row, challenges>>
    PROVE  UNCHANGED Promise!allVars
<1>1. UNCHANGED <<Promise!money, Bookings, Coded, Recorded>>
  BY MoneyStays, SightNext DEF Bookings, Coded, Recorded
<1>2. Outcomes' = Outcomes
  BY OutcomesStay, SightNext DEF Outcomes, contractVars
<1>3. QED
  BY <1>1, <1>2 DEF Promise!allVars

\* Each step is one of the promise, or is not seen.
LEMMA StepKeepsVisit ==
    Agree /\ HostsHost /\ [Next]_vars => Promise!VisitNext \/ UNCHANGED Promise!allVars
<1> SUFFICES ASSUME Agree, HostsHost, [Next]_vars
             PROVE  Promise!VisitNext \/ UNCHANGED Promise!allVars
  OBVIOUS
<1>1. /\ Moved /\ Workflow!Kept /\ Contract!Faithful'
      /\ [Workflow!Next]_(Workflow!vars)
  BY NextMoves, StepsOfParts, PartsKept DEF Agree
<1>2. DOMAIN Bookings = DOMAIN row /\ DOMAIN row \subseteq BookingRef
  BY DEF Bookings, Agree, Whole, TermsOffered
<1>3. CASE Apart
  BY <1>3, UnseenByPromise DEF Apart, apiVars
<1>4. ASSUME NEW a \in Account, NEW w \in Worker, NEW id \in BookingRef, NEW slot \in Slot,
             NEW deposit \in OfferedDeposit, Book(a, w, id, slot, deposit)
      PROVE  UNCHANGED Promise!allVars
  BY <1>4, UnseenByPromise DEF Book, Api!Create, Api!database, Api!ledgerVars
<1>5. ASSUME NEW a \in Account, NEW id \in BookingRef, NEW nonce \in Nonce,
             ShowCode(a, id, nonce)
      PROVE  Promise!VisitNext
  BY <1>5, ShowCodeKeepsVisit DEF Promise!VisitNext
<1>6. ASSUME NEW w \in Worker, NEW kind, NEW id, NEW actor, NEW arg,
             Api!Submit(w, kind, id, actor, arg), UNCHANGED contractVars
      PROVE  UNCHANGED Promise!allVars
  BY <1>6, UnseenByPromise DEF Api!Submit, Api!database, Api!ledgerVars
<1>7. ASSUME NEW call \in DOMAIN sent, Include(call)
      PROVE  Promise!VisitNext
  <2>1. CallFits(call) /\ Invoke(call) /\ UNCHANGED <<row, challenges>>
    BY <1>7 DEF Include, apiVars, Agree, Whole, PagesFit
  <2>2. QED
    BY <1>1, <1>2, <2>1, CallKeepsVisit DEF Promise!VisitNext
<1>8. CASE (\E w \in Worker : Serve(w) \/ Fails(w)) \/ Restart \/ RpcCatchesUp
  <2>1. UNCHANGED <<contractVars, txs, now>>
    BY <1>8 DEF Serve, Fails, Restart, RpcCatchesUp, Api!Serve, Api!FundVerify,
       Api!FundCheck, Api!FundCommit, Api!CancelVerify, Api!RefundCheck, Api!RefundCommit,
       Api!FindChallenge, Api!SpendChallenge, Api!CheckInCheck, Api!CheckInUpdate,
       Api!CheckInHistory, Api!ConfirmVerify, Api!ConfirmCheck, Api!ConfirmUpdate,
       Api!ConfirmHistory, Api!Verify, Api!Check, Api!FindSlot, Api!InsertBooking, Api!Fails,
       Api!Restart, Api!RpcCatchesUp, Api!ledgerVars
  <2>2. Coded' = Coded
    BY <1>1, <1>8, CodesStay DEF Agree
  <2>3. QED
    BY <1>1, <2>1, <2>2, ApiKeepsVisit
<1>9. QED
  BY <1>1, <1>3, <1>4, <1>5, <1>6, <1>7, <1>8, LedgerKeepsVisit DEF Moved, EnterCode, Report

\* The system keeps its promise to renter and host, for any number of bookings, accounts,
\* pages and requests, whatever is closed, lost, repeated, delayed or restarted: deposits
\* move only for bookings and on their terms, one goes back at the host's word only after a
\* check-in that a code preceded, and what is recorded of it has happened.
THEOREM VisitPromiseKept == Spec => KeepsTheVisitPromise
<1>1. Init => Promise!VisitInit /\ HostsHost
  <2> SUFFICES ASSUME Init  PROVE Promise!VisitInit /\ HostsHost
    OBVIOUS
  <2>1. /\ DOMAIN row = {} /\ DOMAIN challenges = {} /\ DOMAIN bookings = {}
        /\ now = 0 /\ asset = NoAsset
    BY DEF Init, Api!Init, Chain!Init
  <2>2. Chain!Wallets \in [Asset -> [Account -> Nat]]
    BY CompositionAssumption DEF Chain!ConstantsAssumption, Init, Chain!Init, Chain!Wallets,
       Chain!Holder
  <2>3. Bookings = <<>> /\ Coded = {} /\ Outcomes = <<>> /\ Recorded = <<>>
    BY <2>1 DEF Bookings, Coded, Outcomes, Recorded
  <2>4. Chain!Agreed = <<>> /\ Chain!Stages = <<>> /\ Chain!Chosen = {}
    BY <2>1 DEF Chain!Agreed, Chain!Stages, Chain!Chosen
  <2>5. QED
    BY <2>1, <2>2, <2>3, <2>4 DEF Promise!VisitInit, Promise!Init, HostsHost
<1>2. Agree /\ HostsHost /\ [Next]_vars => HostsHost'
  BY HostsStay DEF Agree
<1>3. QED
  BY <1>1, <1>2, Agreement, StepKeepsVisit, PTL DEF Spec, KeepsTheVisitPromise, Promise!VisitSpec

----------------------------------------------------------------------------
(***************************************************************************)
(* What is proved of a part holds in the whole.                            *)
(***************************************************************************)
\* In the whole, the contract does what it does by itself.
LEMMA ContractRuns == Spec => Contract!Spec
<1>1. Init => Contract!Init
  BY DEF Init, Chain!Init, Contract!Init, Chain!Holder, Contract!Holder, Chain!BookingId,
     Contract!BookingId
<1>2. Whole /\ [Next]_vars => [Contract!Next]_(Contract!vars)
  BY NextMoves, StepsOfParts
<1>3. QED
  BY <1>1, <1>2, WholeInvariant, PTL DEF Spec, Contract!Spec

\* And the API does.
LEMMA ApiRuns == Spec => Workflow!Spec
<1>1. Init => Workflow!Init
  BY DEF Init, Chain!Init, View, Api!Init, Workflow!Init
<1>2. Whole /\ [Next]_vars => [Workflow!Next]_(Workflow!vars)
  BY NextMoves, StepsOfParts
<1>3. QED
  BY <1>1, <1>2, WholeInvariant, PTL DEF Spec, Workflow!Spec

\* With pages that repeat, give up and are closed, and an API that fails, the contract
\* is never short of a deposit it holds.
THEOREM WholeSolvent == Spec => []Chain!Solvent
<1>1. Contract!ConstantsAssumption
  BY CompositionAssumption DEF Chain!ConstantsAssumption, Contract!ConstantsAssumption
<1>2. Contract!Solvent => Chain!Solvent
  BY DEF Contract!Solvent, Chain!Solvent, Contract!OwedUpTo, Chain!OwedUpTo, Contract!Owed,
     Chain!Owed
<1>3. QED
  BY <1>1, <1>2, ContractRuns, Contract!AlwaysSolvent, PTL

\* A deposit that was released rests on a code of its booking that was spent: the pages
\* of the host, who releases, never learn of codes, the contract knows of none, and the
\* API does not see who releases.
ReleaseRestsOnACode ==
    \A id \in DOMAIN row : HasState(id, {"Released"}) =>
        \E n \in DOMAIN challenges : challenges[n].booking = id /\ challenges[n].consumed

\* No deposit is ever released without one, whatever pages are open and whatever fails.
THEOREM ReleasesAreEarned == Spec => []ReleaseRestsOnACode
<1>1. Workflow!WorkflowAssumption
  BY CompositionAssumption DEF Api!WorkflowAssumption, Workflow!WorkflowAssumption
<1>2. ReleaseFollowsCheckIn /\ Workflow!Presence => ReleaseRestsOnACode
  BY DEF ReleaseFollowsCheckIn, ReleaseRestsOnACode, Workflow!Presence, Workflow!Present,
     Workflow!Proven
<1>3. QED
  BY <1>1, <1>2, ApiRuns, Workflow!PresenceInvariant, ReleaseFollows, PTL

\* What the promise keeps between a booking and its deposit: no deposit is of two bookings
\* or of none, and it is held while it counts as deposited.
Tables ==
    /\ DOMAIN Outcomes = DOMAIN Bookings /\ DOMAIN Recorded = DOMAIN Bookings
    /\ DOMAIN Chain!Stages = DOMAIN Chain!Agreed
    /\ \A b, c \in DOMAIN Bookings : OnChain[b] = OnChain[c] => b = c
    /\ \A i \in DOMAIN Chain!Agreed : \E b \in DOMAIN Bookings : OnChain[b] = i
Counts(what, s) ==
    \/ what = "nothing" /\ s \in {"agreed", "over"}
    \/ what = "deposited" /\ s = "held"
    \/ what \in {"refunded", "released"} /\ s = "over"
Follows(b) ==
    IF OnChain[b] \in DOMAIN Chain!Agreed
    THEN /\ Chain!Agreed[OnChain[b]] = Promise!TermsOf(b)
         /\ Counts(Outcomes[b], Chain!Stages[OnChain[b]])
    ELSE Outcomes[b] = "nothing"
Promised ==
    Tables /\ Promise!RecordedIsSo /\ \A b \in DOMAIN Bookings : Follows(b)

\* A new booking has no deposit and no record.
LEMMA BookPromised ==
    ASSUME Promised, NEW b, Promise!Book(b)
    PROVE  Promised'
<1>1. /\ b \notin DOMAIN Bookings
      /\ \A c \in DOMAIN Bookings : OnChain[c] # OnChain[b]
      /\ DOMAIN Bookings' = DOMAIN Bookings \cup {b}
      /\ \A c \in DOMAIN Bookings : Bookings'[c] = Bookings[c]
      /\ Outcomes' = Promise!With(Outcomes, b, "nothing")
      /\ Recorded' = Promise!With(Recorded, b, "PENDING_FUNDING")
      /\ Coded' = Coded /\ Chain!Agreed' = Chain!Agreed /\ Chain!Stages' = Chain!Stages
  BY DEF Promise!Book, Promise!With, Promise!money
<1>2. /\ DOMAIN Outcomes' = DOMAIN Bookings' /\ DOMAIN Recorded' = DOMAIN Bookings'
      /\ Outcomes'[b] = "nothing" /\ Recorded'[b] = "PENDING_FUNDING"
      /\ \A c \in DOMAIN Bookings : Outcomes'[c] = Outcomes[c] /\ Recorded'[c] = Recorded[c]
  BY <1>1 DEF Promised, Tables, Promise!With
<1>3. Tables'
  BY <1>1, <1>2 DEF Promised, Tables
<1>4. Promise!RecordedIsSo'
  BY <1>1, <1>2 DEF Promised, Promise!RecordedIsSo
<1>5. ASSUME NEW c \in DOMAIN Bookings  PROVE Follows(c)'
  BY <1>1, <1>2, <1>5 DEF Promised, Follows, Promise!TermsOf
<1>6. OnChain[b] \notin DOMAIN Chain!Agreed
  BY <1>1 DEF Promised, Tables
<1>7. Follows(b)'
  BY <1>1, <1>2, <1>6 DEF Follows
<1>8. QED
  BY <1>1, <1>3, <1>4, <1>5, <1>7 DEF Promised

\* A deposit is agreed on the terms of its booking.
LEMMA AgreePromised ==
    ASSUME Promised, NEW b \in DOMAIN Bookings, Promise!AgreeDeposit(b)
    PROVE  Promised'
<1>1. /\ UNCHANGED <<Bookings, Coded, Outcomes, Recorded>>
      /\ OnChain[b] \notin DOMAIN Chain!Agreed
      /\ DOMAIN Chain!Agreed' = DOMAIN Chain!Agreed \cup {OnChain[b]}
      /\ \A i \in DOMAIN Chain!Agreed : Chain!Agreed'[i] = Chain!Agreed[i]
      /\ Chain!Agreed'[OnChain[b]] = Promise!TermsOf(b)
      /\ Chain!Stages' = Promise!With(Chain!Stages, OnChain[b], "agreed")
  BY DEF Promise!AgreeDeposit, Promise!Agree, Promise!With
<1>2. /\ DOMAIN Chain!Stages' = DOMAIN Chain!Agreed'
      /\ Chain!Stages'[OnChain[b]] = "agreed"
      /\ \A i \in DOMAIN Chain!Agreed : Chain!Stages'[i] = Chain!Stages[i]
  BY <1>1 DEF Promised, Tables, Promise!With
<1>3. Tables'
  BY <1>1, <1>2 DEF Promised, Tables
<1>4. Promise!RecordedIsSo'
  BY <1>1 DEF Promised, Promise!RecordedIsSo
<1>5. ASSUME NEW c \in DOMAIN Bookings  PROVE Follows(c)'
  <2>1. Follows(c) /\ (OnChain[c] = OnChain[b] => c = b)
    BY DEF Promised, Tables
  <2>2. CASE c = b
    BY <1>1, <1>2, <2>1, <2>2 DEF Follows, Counts, Promise!TermsOf
  <2>3. CASE c # b
    BY <1>1, <1>2, <2>1, <2>3 DEF Follows, Promise!TermsOf
  <2>4. QED
    BY <2>2, <2>3
<1>6. QED
  BY <1>1, <1>3, <1>4, <1>5 DEF Promised

\* A deposit moves as it counts.
LEMMA MovePromised ==
    ASSUME Promised, NEW b \in DOMAIN Bookings, Promise!MoveDeposit(b)
    PROVE  Promised'
<1> DEFINE i == OnChain[b]
<1>1. PICK what, s :
         /\ Outcomes' = Promise!With(Outcomes, b, what)
         /\ Chain!Stages' = Promise!With(Chain!Stages, i, s)
         /\ Counts(what, s)
         /\ \/ what = "deposited" /\ Chain!Stages[i] = "agreed"
            \/ what = "nothing" /\ Chain!Stages[i] = "agreed"
            \/ what = "refunded" /\ Chain!Stages[i] = "held"
            \/ what = "released" /\ Recorded[b] = "CHECKED_IN"
  BY DEF Promise!MoveDeposit, Promise!Deposit, Promise!CallOff, Promise!TakeBack,
     Promise!GiveBack, Promise!Becomes, Counts
<1>2. /\ UNCHANGED <<Bookings, Coded, Recorded, Chain!Agreed>>
      /\ i \in DOMAIN Chain!Agreed
  BY DEF Promise!MoveDeposit, Promise!Deposit, Promise!CallOff, Promise!TakeBack,
     Promise!GiveBack, Promise!Becomes
<1>3. /\ DOMAIN Outcomes' = DOMAIN Outcomes /\ DOMAIN Chain!Stages' = DOMAIN Chain!Stages
      /\ Outcomes'[b] = what /\ Chain!Stages'[i] = s
      /\ \A c \in DOMAIN Bookings : c # b => Outcomes'[c] = Outcomes[c]
      /\ \A j \in DOMAIN Chain!Agreed : j # i => Chain!Stages'[j] = Chain!Stages[j]
  BY <1>1, <1>2 DEF Promised, Tables, Promise!With
<1>4. Tables'
  BY <1>2, <1>3 DEF Promised, Tables
<1>5. ASSUME NEW c \in DOMAIN Bookings  PROVE Follows(c)'
  <2>1. Follows(c) /\ (OnChain[c] = i => c = b)
    BY DEF Promised, Tables
  <2>2. CASE c = b
    BY <1>1, <1>2, <1>3, <2>1, <2>2 DEF Follows, Promise!TermsOf
  <2>3. CASE c # b
    BY <1>2, <1>3, <2>1, <2>3 DEF Follows, Promise!TermsOf
  <2>4. QED
    BY <2>2, <2>3
<1>6. Promise!RecordedIsSo'
  <2>1. Chain!Stages[i] = "agreed" => Outcomes[b] = "nothing"
    BY <1>2 DEF Promised, Follows, Counts
  <2>2. Chain!Stages[i] = "held" => Outcomes[b] = "deposited"
    BY <1>2 DEF Promised, Follows, Counts
  <2>3. QED
    BY <1>1, <1>2, <1>3, <2>1, <2>2 DEF Promised, Promise!RecordedIsSo
<1>7. QED
  BY <1>2, <1>4, <1>5, <1>6 DEF Promised

\* A record follows what has happened.
LEMMA RecordPromised ==
    ASSUME Promised, NEW b \in DOMAIN Bookings,
           \/ Promise!ShowCode(b) \/ Promise!RecordDeposit(b) \/ Promise!RecordRefund(b)
           \/ Promise!CheckIn(b) \/ Promise!RecordRelease(b)
    PROVE  Promised'
<1>1. UNCHANGED <<Bookings, Outcomes, Chain!Agreed, Chain!Stages>>
  BY DEF Promise!ShowCode, Promise!RecordDeposit, Promise!RecordRefund, Promise!CheckIn,
     Promise!RecordRelease, Promise!Record, Promise!money
<1>2. DOMAIN Recorded' = DOMAIN Recorded
  BY DEF Promised, Tables, Promise!ShowCode, Promise!RecordDeposit, Promise!RecordRefund,
     Promise!CheckIn, Promise!RecordRelease, Promise!Record, Promise!With
<1>3. Tables'
  BY <1>1, <1>2 DEF Promised, Tables
<1>4. ASSUME NEW c \in DOMAIN Bookings  PROVE Follows(c)'
  BY <1>1 DEF Promised, Follows, Promise!TermsOf
<1>5. Promise!RecordedIsSo'
  BY <1>1 DEF Promised, Tables, Promise!RecordedIsSo, Promise!ShowCode,
     Promise!RecordDeposit, Promise!RecordRefund, Promise!CheckIn, Promise!RecordRelease,
     Promise!Record, Promise!With
<1>6. QED
  BY <1>1, <1>3, <1>4, <1>5 DEF Promised

\* Whoever keeps the promise has told nobody what is not so: in the promise itself, with no
\* pages, API and contract to look at, records are never ahead of deposits, deposits count
\* as what the money did, and a release has a check-in and a code before it.
THEOREM PromiseMeans == KeepsTheVisitPromise => [](Promise!PaidIsSo /\ Promise!RecordedIsSo)
<1>1. Promise!VisitInit => Promised
  BY DEF Promise!VisitInit, Promise!Init, Promised, Tables, Promise!RecordedIsSo
<1>2. ASSUME Promised, [Promise!VisitNext]_(Promise!allVars)  PROVE Promised'
  <2>1. CASE Promise!Elsewhere \/ UNCHANGED Promise!allVars
    <3>1. UNCHANGED <<Bookings, Coded, Outcomes, Recorded, Chain!Agreed, Chain!Stages>>
      BY <2>1 DEF Promise!Elsewhere, Promise!ChooseCurrency, Promise!Tick, Promise!Spend,
         Promise!allVars, Promise!money
    <3>2. QED
      BY <1>2, <3>1 DEF Promised, Tables, Follows, Promise!TermsOf, Promise!RecordedIsSo
  <2>2. QED
    BY <1>2, <2>1, BookPromised, AgreePromised, MovePromised, RecordPromised
       DEF Promise!VisitNext
<1>3. Promised => Promise!PaidIsSo /\ Promise!RecordedIsSo
  BY DEF Promised, Tables, Follows, Counts, Promise!PaidIsSo
<1>4. QED
  BY <1>1, <1>2, <1>3, PTL DEF KeepsTheVisitPromise, Promise!VisitSpec
==============================================================================
