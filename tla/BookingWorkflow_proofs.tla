----------------------- MODULE BookingWorkflow_proofs -----------------------
(***************************************************************************)
(* Theorems about BookingWorkflow, for any number of bookings, requests,   *)
(* accounts, slots and check-in codes.                                     *)
(***************************************************************************)
EXTENDS BookingWorkflow, FiniteSetTheorems, TLAPS

LedgerEvent == {"BookingCreated", "BookingFunded", "DepositRefunded", "VisitConfirmed"}
LedgerTyped == txs \in Seq([event : LedgerEvent, booking_id : ChainId])

EventOf(kind) == IF kind = "fund" THEN "BookingFunded"
                 ELSE IF kind = "cancel" THEN "DepositRefunded" ELSE "VisitConfirmed"

\* What a request has seen of booking, ledger and challenge stays true while it waits.
Good(r) ==
    /\ r.stage \in {"checked", "updated"} => r.id \in DOMAIN row
    /\ r.kind \in {"fund", "cancel", "confirm"} =>
          /\ r.arg \in DOMAIN txs
          /\ r.stage # "received" =>
                /\ txs[r.arg].event = EventOf(r.kind)
                /\ txs[r.arg].booking_id = OnChain[r.id]
    /\ r.kind = "check-in" =>
          /\ r.arg \in DOMAIN challenges
          /\ r.stage # "received" => challenges[r.arg].booking = r.id
          /\ r.stage \notin {"received", "found"} => challenges[r.arg].consumed
    /\ r.kind = "create" =>
          /\ r.actor # r.arg.host
          /\ r.stage = "found" => SlotHost[r.arg.slot] = r.arg.host
    /\ r.stage = "updated" =>
          \/ r.kind = "check-in" /\ row[r.id].status \in {"CHECKED_IN", "COMPLETED"}
          \/ r.kind = "confirm" /\ row[r.id].status = "COMPLETED"
Served == \A w \in Worker : requests[w] # Idle => Good(requests[w])

\* Only a booking checked in has the nonce of its code.
ProofFits ==
    \A id \in DOMAIN row :
        row[id].status \in {"CHECKED_IN", "COMPLETED"} \/ row[id].proof = NoProof

\* What every theorem below rests on.
Base == TypeOK /\ LedgerTyped /\ Served /\ ProofFits

----------------------------------------------------------------------------
(***************************************************************************)
(* What steps do to the tables, and that nothing seen of them is lost.     *)
(***************************************************************************)
\* Bookings move along their path, challenges stay and are spent once and for all,
\* and the ledger only grows.
Grows ==
    /\ MovesAlongThePath
    /\ \A n \in DOMAIN challenges :
          /\ n \in DOMAIN challenges'
          /\ challenges'[n].booking = challenges[n].booking
          /\ challenges[n].consumed => challenges'[n].consumed
    /\ \A i \in DOMAIN txs : i \in DOMAIN txs' /\ txs'[i] = txs[i]

\* A request that waits is as good after any such step.
LEMMA GoodStays ==
    ASSUME Grows, NEW r, Good(r)
    PROVE  Good(r)'
<1>1. r.stage \in {"checked", "updated"} => r.id \in DOMAIN row'
  BY DEF Grows, Good, MovesAlongThePath
<1>2. r.stage = "updated" =>
         \/ r.kind = "check-in" /\ row'[r.id].status \in {"CHECKED_IN", "COMPLETED"}
         \/ r.kind = "confirm" /\ row'[r.id].status = "COMPLETED"
  <2> SUFFICES ASSUME r.stage = "updated"
               PROVE  \/ r.kind = "check-in" /\ row'[r.id].status \in {"CHECKED_IN", "COMPLETED"}
                      \/ r.kind = "confirm" /\ row'[r.id].status = "COMPLETED"
    OBVIOUS
  <2>1. r.id \in DOMAIN row
    BY DEF Good
  <2>2. \/ row'[r.id].status = row[r.id].status
        \/ <<row[r.id].status, row'[r.id].status>> \in Edge
    BY <2>1 DEF Grows, MovesAlongThePath
  <2>3. QED
    BY <2>2 DEF Good, Edge
<1>3. r.kind \in {"fund", "cancel", "confirm"} =>
         /\ r.arg \in DOMAIN txs'
         /\ r.stage # "received" =>
               /\ txs'[r.arg].event = EventOf(r.kind)
               /\ txs'[r.arg].booking_id = OnChain[r.id]
  BY DEF Grows, Good
<1>4. r.kind = "check-in" =>
         /\ r.arg \in DOMAIN challenges'
         /\ r.stage # "received" => challenges'[r.arg].booking = r.id
         /\ r.stage \notin {"received", "found"} => challenges'[r.arg].consumed
  BY DEF Grows, Good
<1>5. QED
  BY <1>1, <1>2, <1>3, <1>4 DEF Good

\* One request changes, into one that is good, or ends.
LEMMA OneServed ==
    ASSUME Served, Grows, requests' \in [Worker -> Request \cup Creation \cup {Idle}],
           NEW w \in Worker, \A v \in Worker : v # w => requests'[v] = requests[v],
           NEW n, requests'[w] = n, n = Idle \/ Good(n)'
    PROVE  Served'
<1> SUFFICES ASSUME NEW v \in Worker, requests'[v] # Idle
             PROVE  Good(requests[v])'
  BY DEF Served
<1>1. CASE v = w
  BY <1>1 DEF Good
<1>2. CASE v # w
  <2>1. PICK r : r = requests[v]
    OBVIOUS
  <2>2. Good(r)
    BY <1>2, <2>1 DEF Served, Good
  <2>3. Good(r)'
    BY <2>2, GoodStays
  <2>4. requests'[v] = r
    BY <1>2, <2>1
  <2>5. QED
    BY <2>3, <2>4 DEF Good
<1>3. QED
  BY <1>1, <1>2

\* No request changes.
LEMMA NoneServed ==
    ASSUME Served, Grows, UNCHANGED requests
    PROVE  Served'
<1> SUFFICES ASSUME NEW v \in Worker, requests'[v] # Idle
             PROVE  Good(requests[v])'
  BY DEF Served
<1>1. PICK r : r = requests[v]
  OBVIOUS
<1>2. Good(r)
  BY <1>1 DEF Served, Good
<1>3. Good(r)'
  BY <1>2, GoodStays
<1>4. QED
  BY <1>1, <1>3 DEF Good

\* A request that is served has its type, and the others stay when it changes.
LEMMA ServedType ==
    ASSUME Base, NEW w \in Worker, NEW kind, NEW stage, Serves(w, kind, stage),
           kind # "create"
    PROVE  /\ requests[w] \in Request /\ Good(requests[w])
           /\ requests[w].kind = kind /\ requests[w].stage = stage
<1>1. requests[w] \notin Creation
  BY DEF Serves, Creation
<1>2. QED
  BY <1>1 DEF Base, TypeOK, Serves, Served

\* So has a request to book.
LEMMA CreationType ==
    ASSUME Base, NEW w \in Worker, NEW stage, Serves(w, "create", stage)
    PROVE  /\ requests[w] \in Creation
           /\ requests[w].kind = "create" /\ requests[w].stage = stage /\ Good(requests[w])
<1>1. requests[w] \notin Request
  BY DEF Serves, Request, Kind
<1>2. QED
  BY <1>1 DEF Base, TypeOK, Serves, Served

\* Nothing in the tables or on the ledger changes, so nothing is lost.
LEMMA QuietGrows ==
    ASSUME UNCHANGED <<row, challenges, txs>>
    PROVE  Grows
BY DEF Grows, MovesAlongThePath

\* A status that is set, and nothing else.
LEMMA StatusSet ==
    ASSUME TypeOK, NEW id \in DOMAIN row, NEW to \in Status,
           row' = [row EXCEPT ![id].status = to]
    PROVE  /\ DOMAIN row' = DOMAIN row
           /\ row' \in [DOMAIN row' -> Row]
           /\ \A other \in DOMAIN row : other # id => row'[other] = row[other]
           /\ row'[id].status = to /\ row'[id].proof = row[id].proof
           /\ row'[id].slot = row[id].slot /\ row'[id].deposit = row[id].deposit
           /\ row'[id].renter = row[id].renter /\ row'[id].host = row[id].host
<1>1. row[id] \in Row /\ row \in [DOMAIN row -> Row]
  BY DEF TypeOK
<1>2. row' = [row EXCEPT ![id] = [row[id] EXCEPT !.status = to]]
  OBVIOUS
<1>3. [row[id] EXCEPT !.status = to] \in Row
  BY <1>1 DEF Row
<1>4. /\ DOMAIN row' = DOMAIN row
      /\ row' \in [DOMAIN row' -> Row]
      /\ \A other \in DOMAIN row : other # id => row'[other] = row[other]
  BY <1>1, <1>2, <1>3
<1>5. row'[id] = [row[id] EXCEPT !.status = to]
  BY <1>2
<1>6. QED
  BY <1>1, <1>4, <1>5 DEF Row

\* The status and the proof of a check-in, set together.
LEMMA CheckedInSet ==
    ASSUME TypeOK, NEW id \in DOMAIN row, NEW n \in Nonce \cup {NoProof},
           row' = [row EXCEPT ![id].status = "CHECKED_IN", ![id].proof = n]
    PROVE  /\ DOMAIN row' = DOMAIN row
           /\ row' \in [DOMAIN row' -> Row]
           /\ \A other \in DOMAIN row : other # id => row'[other] = row[other]
           /\ row'[id].status = "CHECKED_IN" /\ row'[id].proof = n
           /\ row'[id].slot = row[id].slot /\ row'[id].deposit = row[id].deposit
           /\ row'[id].renter = row[id].renter /\ row'[id].host = row[id].host
<1>1. row[id] \in Row /\ row \in [DOMAIN row -> Row]
  BY DEF TypeOK
<1>2. row' = [row EXCEPT ![id] = [row[id] EXCEPT !.status = "CHECKED_IN", !.proof = n]]
  OBVIOUS
<1>3. [row[id] EXCEPT !.status = "CHECKED_IN", !.proof = n] \in Row
  BY <1>1 DEF Row, Status
<1>4. /\ DOMAIN row' = DOMAIN row
      /\ row' \in [DOMAIN row' -> Row]
      /\ \A other \in DOMAIN row : other # id => row'[other] = row[other]
  BY <1>1, <1>2, <1>3
<1>5. row'[id] = [row[id] EXCEPT !.status = "CHECKED_IN", !.proof = n]
  BY <1>2
<1>6. QED
  BY <1>1, <1>4, <1>5 DEF Row

\* A status that moves along an edge is all the path asks for.
LEMMA EdgeMoves ==
    ASSUME NEW id \in DOMAIN row, DOMAIN row' = DOMAIN row,
           \A other \in DOMAIN row : other # id => row'[other] = row[other],
           <<row[id].status, row'[id].status>> \in Edge,
           row[id].proof # NoProof => row'[id].proof = row[id].proof,
           row'[id].slot = row[id].slot, row'[id].deposit = row[id].deposit,
           row'[id].renter = row[id].renter, row'[id].host = row[id].host
    PROVE  MovesAlongThePath
<1> SUFFICES ASSUME NEW other \in DOMAIN row
             PROVE  /\ other \in DOMAIN row'
                    /\ \/ row'[other].status = row[other].status
                       \/ <<row[other].status, row'[other].status>> \in Edge
                    /\ \A field \in {"slot", "renter", "host", "deposit"} :
                          row'[other][field] = row[other][field]
                    /\ row[other].proof # NoProof => row'[other].proof = row[other].proof
  BY DEF MovesAlongThePath
<1>1. CASE other = id
  BY <1>1
<1>2. CASE other # id
  BY <1>2
<1>3. QED
  BY <1>1, <1>2

----------------------------------------------------------------------------
(***************************************************************************)
(* Every step keeps Base, and loses nothing that was seen.                 *)
(***************************************************************************)
Kept == Base' /\ Grows

\* A step that changes one request only.
LEMMA RequestStep ==
    ASSUME Base, NEW w \in Worker, UNCHANGED <<database, ledgerVars>>,
           NEW n, n = Idle \/ (n \in Request \cup Creation /\ Good(n)),
           requests' = [requests EXCEPT ![w] = n]
    PROVE  Kept
<1>1. UNCHANGED <<row, payments, history, challenges, txs, rpcSeen, now>>
  BY DEF database, ledgerVars
<1>2. Grows
  BY <1>1, QuietGrows
<1>3. /\ requests' \in [Worker -> Request \cup Creation \cup {Idle}] /\ requests'[w] = n
      /\ \A v \in Worker : v # w => requests'[v] = requests[v]
  BY DEF Base, TypeOK
<1>4. n = Idle \/ Good(n)'
  BY <1>2, GoodStays
<1>5. Served'
  BY <1>2, <1>3, <1>4, OneServed DEF Base
<1>6. TypeOK' /\ LedgerTyped' /\ ProofFits'
  BY <1>1, <1>3 DEF Base, TypeOK, LedgerTyped, ProofFits
<1>7. QED
  BY <1>2, <1>5, <1>6 DEF Kept, Base

\* A request that goes on, or is answered.
LEMMA ProceedStep ==
    ASSUME Base, NEW w \in Worker, UNCHANGED <<database, ledgerVars>>,
           NEW stage \in {"received", "found", "verified", "checked", "updated"},
           \/ requests' = [requests EXCEPT ![w] = Idle]
           \/ /\ requests[w] \in Request
              /\ requests' = [requests EXCEPT ![w].stage = stage]
              /\ Good([requests[w] EXCEPT !.stage = stage])
    PROVE  Kept
<1>1. CASE requests' = [requests EXCEPT ![w] = Idle]
  BY <1>1, RequestStep
<1>2. CASE /\ requests[w] \in Request
           /\ requests' = [requests EXCEPT ![w].stage = stage]
           /\ Good([requests[w] EXCEPT !.stage = stage])
  <2>1. PICK n : n = [requests[w] EXCEPT !.stage = stage]
    OBVIOUS
  <2>2. n \in Request
    BY <1>2, <2>1 DEF Request
  <2>3. Good(n)
    BY <1>2, <2>1 DEF Good
  <2>4. requests' = [requests EXCEPT ![w] = n]
    BY <1>2, <2>1 DEF Base, TypeOK
  <2>5. QED
    BY <2>2, <2>3, <2>4, RequestStep
<1>3. QED
  BY <1>1, <1>2

\* A request posted is good: its hash is one of the ledger, its code was issued.
LEMMA SubmitStep ==
    ASSUME Base, NEW w \in Worker, NEW kind \in Kind, NEW id \in BookingRef,
           NEW actor \in Account, NEW arg \in DOMAIN txs \cup DOMAIN challenges,
           Submit(w, kind, id, actor, arg)
    PROVE  Kept
<1> DEFINE n == [kind |-> kind, id |-> id, actor |-> actor, arg |-> arg, stage |-> "received"]
<1>1. arg \in Nat
  BY WorkflowAssumption DEF Base, TypeOK, LedgerTyped
<1>2. /\ n \in Request
      /\ n.kind = kind /\ n.arg = arg /\ n.stage = "received"
  BY <1>1 DEF Request
<1>3. /\ arg \in IF kind = "check-in" THEN DOMAIN challenges ELSE DOMAIN txs
      /\ requests' = [requests EXCEPT ![w] = n]
      /\ UNCHANGED <<database, ledgerVars>>
  BY DEF Submit
<1> HIDE DEF n
<1>4. PICK m : m = n
  OBVIOUS
<1>5. Good(m)
  BY <1>2, <1>3, <1>4 DEF Good, Kind
<1>6. QED
  BY <1>2, <1>3, <1>4, <1>5, RequestStep

\* Verification goes on with an event of this very booking only.
LEMMA VerifyStep ==
    ASSUME Base, NEW w \in Worker, NEW kind \in {"fund", "cancel", "confirm"},
           Verify(w, kind, EventOf(kind))
    PROVE  Kept
<1> DEFINE r == requests[w]
<1>1. r \in Request /\ Good(r) /\ r.kind = kind /\ r.stage = "received"
  BY ServedType DEF Verify
<1>2. UNCHANGED <<database, ledgerVars>>
  BY DEF Verify
<1>3. CASE r.id \in DOMAIN row /\ verifyEvent(r.arg, r.id, EventOf(kind))
  <2>1. requests' = [requests EXCEPT ![w].stage = "verified"]
    BY <1>3 DEF Verify, Proceed
  <2>2. txs[r.arg].event = EventOf(kind) /\ txs[r.arg].booking_id = OnChain[r.id]
    BY <1>3 DEF verifyEvent
  <2>3. PICK n : n = [r EXCEPT !.stage = "verified"]
    OBVIOUS
  <2>4. n.kind = kind /\ n.arg = r.arg /\ n.id = r.id /\ n.stage = "verified"
    BY <1>1, <2>3 DEF Request
  <2>5. Good(n)
    BY <1>1, <2>2, <2>4 DEF Good
  <2>6. Good([r EXCEPT !.stage = "verified"])
    BY <2>3, <2>5 DEF Good
  <2>7. QED
    BY <1>1, <1>2, <2>1, <2>6, ProceedStep
<1>4. CASE ~ (r.id \in DOMAIN row /\ verifyEvent(r.arg, r.id, EventOf(kind)))
  <2>1. requests' = [requests EXCEPT ![w] = Idle]
    BY <1>4 DEF Verify, Proceed, Answer
  <2>2. QED
    BY <1>2, <2>1, ProceedStep
<1>5. QED
  BY <1>3, <1>4

\* The check finds the booking.
LEMMA CheckStep ==
    ASSUME Base, NEW w \in Worker, NEW kind \in Kind, NEW from, NEW role,
           Check(w, kind, from, role)
    PROVE  Kept
<1> DEFINE r == requests[w]
           ok == /\ r.id \in DOMAIN row
                 /\ row[r.id].status = from
                 /\ role # "" => row[r.id][role] = r.actor
<1>1. r \in Request /\ Good(r) /\ r.kind = kind /\ r.stage = "verified"
  BY ServedType DEF Check, Kind
<1>2. /\ UNCHANGED <<database, ledgerVars>>
      /\ requests' = IF ok THEN [requests EXCEPT ![w].stage = "checked"]
                     ELSE [requests EXCEPT ![w] = Idle]
  BY DEF Check, Proceed, Answer
<1>3. CASE ok
  <2>1. PICK n : n = [r EXCEPT !.stage = "checked"]
    OBVIOUS
  <2>2. n.kind = kind /\ n.arg = r.arg /\ n.id = r.id /\ n.stage = "checked"
    BY <1>1, <2>1 DEF Request
  <2>3. Good(n)
    BY <1>1, <1>3, <2>2 DEF Good, Kind
  <2>4. Good([r EXCEPT !.stage = "checked"])
    BY <2>1, <2>3 DEF Good
  <2>5. QED
    BY <1>1, <1>2, <1>3, <2>4, ProceedStep
<1>4. CASE ~ ok
  BY <1>2, <1>4, ProceedStep
<1>5. QED
  BY <1>3, <1>4

\* A code is found for its own booking.
LEMMA FindStep ==
    ASSUME Base, NEW w \in Worker, FindChallenge(w)
    PROVE  Kept
<1> DEFINE r == requests[w]
           ok == /\ challenges[r.arg].booking = r.id
                 /\ row[r.id].renter = r.actor
                 /\ challenges[r.arg].expiresAt > now
                 /\ ~ challenges[r.arg].consumed
<1>1. r \in Request /\ Good(r) /\ r.kind = "check-in" /\ r.stage = "received"
  BY ServedType DEF FindChallenge
<1>2. /\ UNCHANGED <<database, ledgerVars>>
      /\ requests' = IF ok THEN [requests EXCEPT ![w].stage = "found"]
                     ELSE [requests EXCEPT ![w] = Idle]
  BY DEF FindChallenge, Proceed, Answer
<1>3. CASE ok
  <2>1. PICK n : n = [r EXCEPT !.stage = "found"]
    OBVIOUS
  <2>2. n.kind = "check-in" /\ n.arg = r.arg /\ n.id = r.id /\ n.stage = "found"
    BY <1>1, <2>1 DEF Request
  <2>3. Good(n)
    BY <1>1, <1>3, <2>2 DEF Good
  <2>4. Good([r EXCEPT !.stage = "found"])
    BY <2>1, <2>3 DEF Good
  <2>5. QED
    BY <1>1, <1>2, <1>3, <2>4, ProceedStep
<1>4. CASE ~ ok
  BY <1>2, <1>4, ProceedStep
<1>5. QED
  BY <1>3, <1>4

\* A request that ends, whether answered or failed.
LEMMA FailsStep ==
    ASSUME Base, NEW w \in Worker, Fails(w)
    PROVE  Kept
<1>1. requests' = [requests EXCEPT ![w] = Idle] /\ UNCHANGED <<database, ledgerVars>>
  BY DEF Fails, Answer
<1>2. QED
  BY <1>1, ProceedStep

\* A restart loses requests only.
LEMMA RestartStep ==
    ASSUME Base, Restart
    PROVE  Kept
<1>1. /\ UNCHANGED <<row, payments, history, challenges, txs, rpcSeen, now>>
      /\ requests' = [w \in Worker |-> Idle]
  BY DEF Restart, database, ledgerVars
<1>2. Grows
  BY <1>1, QuietGrows
<1>3. Served'
  BY <1>1 DEF Served
<1>4. TypeOK' /\ LedgerTyped' /\ ProofFits'
  BY <1>1 DEF Base, TypeOK, LedgerTyped, ProofFits
<1>5. QED
  BY <1>2, <1>3, <1>4 DEF Kept, Base

\* A step that writes bookings, payments or history, and one request.
LEMMA WriteStep ==
    ASSUME Base, NEW w \in Worker, NEW n, n = Idle \/ (n \in Request \cup Creation /\ Good(n)'),
           requests' = [requests EXCEPT ![w] = n],
           UNCHANGED <<challenges, txs, rpcSeen, now>>,
           MovesAlongThePath, DOMAIN row' \subseteq BookingRef, row' \in [DOMAIN row' -> Row],
           payments' \subseteq Payment, history' \in [BookingRef -> Seq(Entry)], ProofFits'
    PROVE  Kept
<1>1. Grows
  BY DEF Grows
<1>2. /\ requests' \in [Worker -> Request \cup Creation \cup {Idle}] /\ requests'[w] = n
      /\ \A v \in Worker : v # w => requests'[v] = requests[v]
  BY DEF Base, TypeOK
<1>3. Served'
  BY <1>1, <1>2, OneServed DEF Base
<1>4. TypeOK' /\ LedgerTyped'
  BY <1>2 DEF Base, TypeOK, LedgerTyped
<1>5. QED
  BY <1>1, <1>3, <1>4 DEF Kept, Base

\* What an entry of the history and a payment are made of.
LEMMA RecordType ==
    ASSUME TypeOK, NEW id \in BookingRef, NEW from \in Status, NEW to \in Status,
           NEW actor \in Account, NEW hash \in Nat, Record(id, from, to, actor, hash)
    PROVE  history' \in [BookingRef -> Seq(Entry)]
<1> DEFINE e == [from |-> from, to |-> to, actor |-> actor, hash |-> hash]
<1>1. e \in Entry
  BY DEF Entry
<1>2. history' = [history EXCEPT ![id] = Append(@, e)]
  BY DEF Record
<1> HIDE DEF e
<1>3. Append(history[id], e) \in Seq(Entry)
  BY <1>1 DEF TypeOK
<1>4. QED
  BY <1>2, <1>3 DEF TypeOK

\* A payment has its type.
LEMMA PaidType ==
    ASSUME TypeOK, NEW id \in DOMAIN row, NEW hash \in Nat, NEW kind \in {"FUND", "REFUND"},
           Paid(id, hash, kind)
    PROVE  payments' \subseteq Payment
<1>1. row[id].deposit \in Nat /\ id \in BookingRef
  BY WorkflowAssumption DEF TypeOK, Row, AskedDeposit
<1>2. QED
  BY <1>1 DEF TypeOK, Paid, Payment

\* A status set along an edge, other than that of a check-in.
LEMMA StatusMoves ==
    ASSUME Base, NEW id \in DOMAIN row, NEW to \in Status \ {"CHECKED_IN"},
           <<row[id].status, to>> \in Edge, SetStatus(id, to)
    PROVE  /\ MovesAlongThePath /\ ProofFits'
           /\ DOMAIN row' \subseteq BookingRef /\ row' \in [DOMAIN row' -> Row]
           /\ row'[id].status = to
<1>1. /\ DOMAIN row' = DOMAIN row
      /\ row' \in [DOMAIN row' -> Row]
      /\ \A other \in DOMAIN row : other # id => row'[other] = row[other]
      /\ row'[id].status = to /\ row'[id].proof = row[id].proof
      /\ row'[id].slot = row[id].slot /\ row'[id].deposit = row[id].deposit
      /\ row'[id].renter = row[id].renter /\ row'[id].host = row[id].host
  BY StatusSet DEF Base, SetStatus
<1>2. MovesAlongThePath
  BY <1>1, EdgeMoves
<1>3. ProofFits'
  <2> SUFFICES ASSUME NEW other \in DOMAIN row
               PROVE  \/ row'[other].status \in {"CHECKED_IN", "COMPLETED"}
                      \/ row'[other].proof = NoProof
    BY <1>1 DEF ProofFits
  <2>1. row[other].status \in {"CHECKED_IN", "COMPLETED"} \/ row[other].proof = NoProof
    BY DEF Base, ProofFits
  <2>2. CASE other = id
    BY <1>1, <2>1, <2>2 DEF Edge
  <2>3. CASE other # id
    BY <1>1, <2>1, <2>3
  <2>4. QED
    BY <2>2, <2>3
<1>4. QED
  BY <1>1, <1>2, <1>3 DEF Base, TypeOK

\* Fund and cancel: status, payment and history at once, or nothing.
LEMMA SettleStep ==
    ASSUME Base, NEW w \in Worker, FundCommit(w) \/ RefundCommit(w)
    PROVE  Kept
<1> DEFINE r == requests[w]
<1>1. /\ r \in Request /\ Good(r) /\ r.kind \in {"fund", "cancel"} /\ r.stage = "checked"
  BY ServedType DEF FundCommit, RefundCommit
<1>2. r.id \in DOMAIN row /\ r.arg \in Nat /\ r.id \in BookingRef /\ r.actor \in Account
  BY <1>1 DEF Good, Request
<1>3. /\ requests' = [requests EXCEPT ![w] = Idle]
      /\ UNCHANGED <<challenges, txs, rpcSeen, now>>
  BY DEF FundCommit, RefundCommit, Answer, ledgerVars
<1>4. ASSUME UNCHANGED <<row, payments, history>>
      PROVE  Kept
  BY <1>3, <1>4, ProceedStep DEF database, ledgerVars
<1>5. ASSUME NEW from \in Status, NEW to \in {"FUNDED", "REFUNDED"},
             NEW kind \in {"FUND", "REFUND"}, NEW actor \in Account,
             <<from, to>> \in Edge, row[r.id].status = from,
             SetStatus(r.id, to), Paid(r.id, r.arg, kind), Record(r.id, from, to, actor, r.arg)
      PROVE  Kept
  <2>1. to \in Status \ {"CHECKED_IN"}
    BY DEF Status
  <2>2. /\ MovesAlongThePath /\ ProofFits'
        /\ DOMAIN row' \subseteq BookingRef /\ row' \in [DOMAIN row' -> Row]
    BY <1>2, <1>5, <2>1, StatusMoves
  <2>3. payments' \subseteq Payment
    BY <1>2, <1>5, PaidType DEF Base
  <2>4. history' \in [BookingRef -> Seq(Entry)]
    BY <1>2, <1>5, <2>1, RecordType DEF Base
  <2>5. QED
    BY <1>3, <2>2, <2>3, <2>4, WriteStep
<1>6. CASE FundCommit(w)
  <2>1. row[r.id].renter \in Account
    BY <1>2 DEF Base, TypeOK, Row
  <2>2. <<"PENDING_FUNDING", "FUNDED">> \in Edge /\ "PENDING_FUNDING" \in Status
    BY DEF Edge, Status
  <2>3. CASE StillIn(r.id, "PENDING_FUNDING") /\ HashIsNew(r.arg)
    BY <1>5, <1>6, <2>1, <2>2, <2>3 DEF FundCommit, StillIn
  <2>4. CASE ~ (StillIn(r.id, "PENDING_FUNDING") /\ HashIsNew(r.arg))
    BY <1>4, <1>6, <2>4 DEF FundCommit
  <2>5. QED
    BY <2>3, <2>4
<1>7. CASE RefundCommit(w)
  <2>1. <<"FUNDED", "REFUNDED">> \in Edge /\ "FUNDED" \in Status
    BY DEF Edge, Status
  <2>2. CASE StillIn(r.id, "FUNDED") /\ HashIsNew(r.arg)
    BY <1>2, <1>5, <1>7, <2>1, <2>2 DEF RefundCommit, StillIn
  <2>3. CASE ~ (StillIn(r.id, "FUNDED") /\ HashIsNew(r.arg))
    BY <1>4, <1>7, <2>3 DEF RefundCommit
  <2>4. QED
    BY <2>2, <2>3
<1>8. QED
  BY <1>6, <1>7

\* The status of a check-in, with the code that proves it.
LEMMA CheckInUpdateStep ==
    ASSUME Base, NEW w \in Worker, CheckInUpdate(w)
    PROVE  Kept
<1> DEFINE r == requests[w]
<1>1. r \in Request /\ Good(r) /\ r.kind = "check-in" /\ r.stage = "checked"
  BY ServedType DEF CheckInUpdate
<1>2. /\ r.id \in DOMAIN row /\ r.arg \in DOMAIN challenges
      /\ challenges[r.arg].booking = r.id /\ challenges[r.arg].consumed
  BY <1>1 DEF Good
<1>3. UNCHANGED <<payments, history, challenges, txs, rpcSeen, now>>
  BY DEF CheckInUpdate, ledgerVars
<1>4. CASE StillIn(r.id, "FUNDED")
  <2>1. /\ row' = [row EXCEPT ![r.id].status = "CHECKED_IN", ![r.id].proof = r.arg]
        /\ requests' = [requests EXCEPT ![w].stage = "updated"]
        /\ row[r.id].status = "FUNDED"
    BY <1>4 DEF CheckInUpdate, Proceed, StillIn
  <2>2. r.arg \in Nonce \cup {NoProof}
    BY <1>2 DEF Base, TypeOK
  <2>3. /\ DOMAIN row' = DOMAIN row
        /\ row' \in [DOMAIN row' -> Row]
        /\ \A other \in DOMAIN row : other # r.id => row'[other] = row[other]
        /\ row'[r.id].status = "CHECKED_IN" /\ row'[r.id].proof = r.arg
        /\ row'[r.id].slot = row[r.id].slot /\ row'[r.id].deposit = row[r.id].deposit
        /\ row'[r.id].renter = row[r.id].renter /\ row'[r.id].host = row[r.id].host
    <3>1. TypeOK
      BY DEF Base
    <3>2. r.id \in DOMAIN row
      BY <1>2
    <3>3. row' = [row EXCEPT ![r.id].status = "CHECKED_IN", ![r.id].proof = r.arg]
      BY <2>1
    <3> HIDE DEF r
    <3>4. QED
      BY <2>2, <3>1, <3>2, <3>3, CheckedInSet
  <2>4. row[r.id].proof = NoProof
    BY <1>2, <2>1 DEF Base, ProofFits
  <2>5. <<row[r.id].status, row'[r.id].status>> \in Edge
    BY <2>1, <2>3 DEF Edge
  <2>6. MovesAlongThePath
    BY <1>2, <2>3, <2>4, <2>5, EdgeMoves
  <2>7. ProofFits'
    BY <2>3 DEF Base, ProofFits
  <2>8. PICK n : n = [r EXCEPT !.stage = "updated"]
    OBVIOUS
  <2>9. n \in Request /\ n.kind = r.kind /\ n.arg = r.arg /\ n.id = r.id /\ n.stage = "updated"
    BY <1>1, <2>8 DEF Request
  <2>10. Good(n)'
    BY <1>1, <1>2, <1>3, <2>3, <2>9 DEF Good
  <2>11. requests' = [requests EXCEPT ![w] = n]
    BY <2>1, <2>8 DEF Base, TypeOK
  <2>12. DOMAIN row' \subseteq BookingRef /\ payments' \subseteq Payment
         /\ history' \in [BookingRef -> Seq(Entry)]
    BY <1>3, <2>3 DEF Base, TypeOK
  <2>13. QED
    BY <1>3, <2>3, <2>6, <2>7, <2>9, <2>10, <2>11, <2>12, WriteStep
<1>5. CASE ~ StillIn(r.id, "FUNDED")
  <2>1. UNCHANGED row /\ requests' = [requests EXCEPT ![w] = Idle]
    BY <1>5 DEF CheckInUpdate, Answer
  <2>2. QED
    BY <1>3, <2>1, ProceedStep DEF database, ledgerVars
<1>6. QED
  BY <1>4, <1>5

\* The status of a confirmed visit.
LEMMA ConfirmUpdateStep ==
    ASSUME Base, NEW w \in Worker, ConfirmUpdate(w)
    PROVE  Kept
<1> DEFINE r == requests[w]
<1>1. r \in Request /\ Good(r) /\ r.kind = "confirm" /\ r.stage = "checked"
  BY ServedType DEF ConfirmUpdate
<1>2. /\ r.id \in DOMAIN row /\ r.arg \in DOMAIN txs
      /\ txs[r.arg].event = EventOf(r.kind) /\ txs[r.arg].booking_id = OnChain[r.id]
  BY <1>1 DEF Good
<1>3. UNCHANGED <<payments, history, challenges, txs, rpcSeen, now>>
  BY DEF ConfirmUpdate, ledgerVars
<1>4. CASE StillIn(r.id, "CHECKED_IN")
  <2>1. /\ SetStatus(r.id, "COMPLETED")
        /\ requests' = [requests EXCEPT ![w].stage = "updated"]
        /\ row[r.id].status = "CHECKED_IN"
    BY <1>4 DEF ConfirmUpdate, Proceed, StillIn
  <2>2. "COMPLETED" \in Status \ {"CHECKED_IN"} /\ <<row[r.id].status, "COMPLETED">> \in Edge
    BY <2>1 DEF Status, Edge
  <2>3. /\ MovesAlongThePath /\ ProofFits'
        /\ DOMAIN row' \subseteq BookingRef /\ row' \in [DOMAIN row' -> Row]
        /\ row'[r.id].status = "COMPLETED"
    BY <1>2, <2>1, <2>2, StatusMoves
  <2>4. PICK n : n = [r EXCEPT !.stage = "updated"]
    OBVIOUS
  <2>5. n \in Request /\ n.kind = r.kind /\ n.arg = r.arg /\ n.id = r.id /\ n.stage = "updated"
    BY <1>1, <2>4 DEF Request
  <2>6. r.id \in DOMAIN row'
    BY <1>2, <2>3 DEF MovesAlongThePath
  <2>7. Good(n)'
    BY <1>1, <1>2, <1>3, <2>3, <2>5, <2>6 DEF Good
  <2>8. requests' = [requests EXCEPT ![w] = n]
    BY <2>1, <2>4 DEF Base, TypeOK
  <2>9. payments' \subseteq Payment /\ history' \in [BookingRef -> Seq(Entry)]
    BY <1>3 DEF Base, TypeOK
  <2>10. QED
    BY <1>3, <2>3, <2>5, <2>7, <2>8, <2>9, WriteStep
<1>5. CASE ~ StillIn(r.id, "CHECKED_IN")
  <2>1. UNCHANGED row /\ requests' = [requests EXCEPT ![w] = Idle]
    BY <1>5 DEF ConfirmUpdate, Answer
  <2>2. QED
    BY <1>3, <2>1, ProceedStep DEF database, ledgerVars
<1>6. QED
  BY <1>4, <1>5

\* The history written late.
LEMMA HistoryStep ==
    ASSUME Base, NEW w \in Worker, CheckInHistory(w) \/ ConfirmHistory(w)
    PROVE  Kept
<1> DEFINE r == requests[w]
<1>1. r \in Request /\ Good(r)
  BY ServedType DEF CheckInHistory, ConfirmHistory
<1>2. /\ requests' = [requests EXCEPT ![w] = Idle]
      /\ UNCHANGED <<row, payments, challenges, txs, rpcSeen, now>>
  BY DEF CheckInHistory, ConfirmHistory, Answer, ledgerVars
<1>3. r.id \in BookingRef /\ r.actor \in Account /\ r.arg \in Nat /\ NoHash \in Nat
  BY <1>1 DEF Request, NoHash
<1>4. history' \in [BookingRef -> Seq(Entry)]
  <2>1. CASE CheckInHistory(w)
    BY <1>3, <2>1, RecordType DEF CheckInHistory, Status, Base
  <2>2. CASE ConfirmHistory(w)
    BY <1>3, <2>2, RecordType DEF ConfirmHistory, Status, Base
  <2>3. QED
    BY <2>1, <2>2
<1>5. MovesAlongThePath /\ ProofFits'
  BY <1>2 DEF MovesAlongThePath, Base, ProofFits
<1>6. DOMAIN row' \subseteq BookingRef /\ row' \in [DOMAIN row' -> Row] /\ payments' \subseteq Payment
  BY <1>2 DEF Base, TypeOK
<1>7. QED
  BY <1>2, <1>4, <1>5, <1>6, WriteStep

\* A request to book that is accepted has terms that can be stored.
LEMMA CreateStep ==
    ASSUME Base, NEW w \in Worker, NEW id \in BookingRef, NEW slot \in Slot,
           NEW renter \in Account, NEW host \in Account, NEW deposit \in OfferedDeposit,
           Create(w, id, slot, renter, host, deposit)
    PROVE  Kept
<1> DEFINE terms == [slot |-> slot, host |-> host, deposit |-> deposit]
           n == [kind |-> "create", id |-> id, actor |-> renter, stage |-> "accepted",
                 arg |-> terms]
<1>1. requests' = [requests EXCEPT ![w] = n] /\ UNCHANGED <<database, ledgerVars>>
  BY DEF Create
<1>2. terms \in Terms
  <2>1. deposit > 0 /\ deposit <= MaxApiDeposit
    BY DEF Create, DepositAccepted
  <2>2. deposit \in Int /\ MaxApiDeposit \in Nat
    BY WorkflowAssumption
  <2>3. deposit \in AskedDeposit
    BY <2>1, <2>2 DEF AskedDeposit
  <2>4. QED
    BY <2>3 DEF Terms
<1> HIDE DEF terms
<1>3. n \in Creation /\ n.kind = "create" /\ n.stage = "accepted" /\ n.actor # n.arg.host
  <2>1. n.actor = renter /\ n.arg.host = host
    BY DEF terms
  <2>2. QED
    BY <1>2, <2>1 DEF Creation, Create
<1> HIDE DEF n
<1>4. PICK m : m = n
  OBVIOUS
<1>5. Good(m)
  BY <1>3, <1>4 DEF Good
<1>6. QED
  BY <1>1, <1>3, <1>4, <1>5, RequestStep

\* The slot is found, or it is not: nothing is written.
LEMMA FindSlotStep ==
    ASSUME Base, NEW w \in Worker, FindSlot(w)
    PROVE  Kept
<1>1. /\ requests[w] \in Creation /\ requests[w].actor # requests[w].arg.host
      /\ UNCHANGED <<database, ledgerVars>>
  BY CreationType DEF FindSlot, Good
<1>2. \/ requests' = [requests EXCEPT ![w] = Idle]
      \/ /\ requests' = [requests EXCEPT ![w].stage = "found"]
         /\ SlotHost[requests[w].arg.slot] = requests[w].arg.host
  BY DEF FindSlot, Proceed, Answer
<1>3. CASE requests' = [requests EXCEPT ![w] = Idle]
  BY <1>1, <1>3, RequestStep
<1>4. CASE /\ requests' = [requests EXCEPT ![w].stage = "found"]
           /\ SlotHost[requests[w].arg.slot] = requests[w].arg.host
  <2>1. PICK n : n = [requests[w] EXCEPT !.stage = "found"]
    OBVIOUS
  <2>2. /\ n \in Creation /\ n.kind = "create" /\ n.stage = "found"
        /\ n.actor # n.arg.host /\ SlotHost[n.arg.slot] = n.arg.host
    BY <1>1, <1>4, <2>1 DEF Creation
  <2>3. Good(n)
    BY <2>2 DEF Good
  <2>4. requests' = [requests EXCEPT ![w] = n]
    BY <1>4, <2>1 DEF Base, TypeOK
  <2>5. QED
    BY <1>1, <2>2, <2>3, <2>4, RequestStep
<1>5. QED
  BY <1>2, <1>3, <1>4

\* Worker w inserts a booking on these terms, and answers.
Inserts(w, id, slot, renter, host, deposit) ==
    /\ Serves(w, "create", "found")
    /\ requests[w].id = id /\ requests[w].actor = renter
    /\ requests[w].arg = [slot |-> slot, host |-> host, deposit |-> deposit]
    /\ renter # host /\ SlotHost[slot] = host /\ Insertable(id, slot)
    /\ row' = Put(row, id, [slot |-> slot, renter |-> renter, host |-> host,
                            deposit |-> deposit, status |-> "PENDING_FUNDING",
                            proof |-> NoProof])
    /\ history' = [history EXCEPT ![id] =
                      <<[from |-> "", to |-> "PENDING_FUNDING", actor |-> renter,
                         hash |-> NoHash]>>]
    /\ requests' = [requests EXCEPT ![w] = Idle]
    /\ UNCHANGED <<payments, challenges, txs, rpcSeen, now>>

\* Either a booking is inserted, on the terms the request was accepted with, or the
\* request is answered and nothing else happens.
LEMMA InsertKind ==
    ASSUME Base, NEW w \in Worker, InsertBooking(w)
    PROVE  \/ /\ UNCHANGED <<database, ledgerVars>>
              /\ requests' = [requests EXCEPT ![w] = Idle]
           \/ \E id \in BookingRef, slot \in Slot, renter, host \in Account,
                 deposit \in AskedDeposit : Inserts(w, id, slot, renter, host, deposit)
<1>1. Serves(w, "create", "found") /\ requests[w] \in Creation
  BY CreationType DEF InsertBooking
<1>2. PICK id \in BookingRef, renter \in Account, terms \in Terms :
         requests[w].id = id /\ requests[w].actor = renter /\ requests[w].arg = terms
  BY <1>1 DEF Creation
<1>3. PICK slot \in Slot, host \in Account, deposit \in AskedDeposit :
         terms = [slot |-> slot, host |-> host, deposit |-> deposit]
  BY DEF Terms
<1>4. terms.slot = slot /\ terms.host = host /\ terms.deposit = deposit
  BY <1>3
<1>5. /\ requests' = [requests EXCEPT ![w] = Idle]
      /\ UNCHANGED <<payments, challenges, txs, rpcSeen, now>>
  BY DEF InsertBooking, Answer, ledgerVars
<1>6. CASE ~ Insertable(id, slot)
  BY <1>2, <1>4, <1>5, <1>6 DEF InsertBooking, database, ledgerVars
<1>7. CASE Insertable(id, slot)
  <2>1. Good(requests[w]) /\ requests[w].kind = "create" /\ requests[w].stage = "found"
    BY CreationType DEF InsertBooking
  <2>2. renter # host /\ SlotHost[slot] = host
    BY <1>2, <1>4, <2>1 DEF Good
  <2>3. Inserts(w, id, slot, renter, host, deposit)
    BY <1>1, <1>2, <1>3, <1>4, <1>5, <1>7, <2>2 DEF InsertBooking, Inserts
  <2>4. QED
    BY <2>3
<1>8. QED
  BY <1>6, <1>7

\* A new booking, in the state it begins in.
LEMMA InsertStep ==
    ASSUME Base, NEW w \in Worker, NEW id \in BookingRef, NEW slot \in Slot,
           NEW renter \in Account, NEW host \in Account, NEW deposit \in AskedDeposit,
           Inserts(w, id, slot, renter, host, deposit)
    PROVE  Kept
<1> DEFINE new == [slot |-> slot, renter |-> renter, host |-> host, deposit |-> deposit,
                   status |-> "PENDING_FUNDING", proof |-> NoProof]
           first == [from |-> "", to |-> "PENDING_FUNDING", actor |-> renter, hash |-> NoHash]
<1>1. /\ id \notin DOMAIN row
      /\ row' = [x \in DOMAIN row \cup {id} |-> IF x = id THEN new ELSE row[x]]
      /\ history' = [history EXCEPT ![id] = <<first>>]
      /\ requests' = [requests EXCEPT ![w] = Idle]
      /\ UNCHANGED <<payments, challenges, txs, rpcSeen, now>>
  BY DEF Inserts, Insertable, Put
<1>2. new \in Row
  BY DEF Row, Status
<1>3. first \in Entry
  BY DEF Entry, Status, NoHash
<1>4. new.proof = NoProof
  OBVIOUS
<1> HIDE DEF new, first
<1>5. /\ DOMAIN row' = DOMAIN row \cup {id} /\ row'[id] = new
      /\ \A x \in DOMAIN row : row'[x] = row[x]
      /\ row' \in [DOMAIN row' -> Row] /\ DOMAIN row' \subseteq BookingRef
  BY <1>1, <1>2 DEF Base, TypeOK
<1>6. history' \in [BookingRef -> Seq(Entry)]
  <2>1. <<first>> \in Seq(Entry)
    BY <1>3
  <2>2. QED
    BY <1>1, <2>1 DEF Base, TypeOK
<1>7. ProofFits'
  BY <1>4, <1>5 DEF Base, ProofFits
<1>8. MovesAlongThePath
  BY <1>5 DEF MovesAlongThePath
<1>9. payments' \subseteq Payment
  BY <1>1 DEF Base, TypeOK
<1>10. QED
  BY <1>1, <1>5, <1>6, <1>7, <1>8, <1>9, WriteStep

\* A new challenge, under a nonce of its own.
LEMMA IssueChallengeStep ==
    ASSUME Base, NEW id \in BookingRef, NEW actor \in Account, NEW nonce \in Nonce,
           IssueChallenge(id, actor, nonce)
    PROVE  Kept
<1> DEFINE c == [booking |-> id, expiresAt |-> now + ChallengeLife, consumed |-> FALSE]
<1>1. /\ nonce \notin DOMAIN challenges
      /\ challenges' = [x \in DOMAIN challenges \cup {nonce} |->
                           IF x = nonce THEN c ELSE challenges[x]]
      /\ UNCHANGED <<row, payments, history, requests, txs, rpcSeen, now>>
  BY DEF IssueChallenge, Put, ledgerVars
<1>2. c \in Challenge
  BY WorkflowAssumption DEF Base, TypeOK, Challenge
<1> HIDE DEF c
<1>3. /\ DOMAIN challenges' = DOMAIN challenges \cup {nonce}
      /\ \A x \in DOMAIN challenges : challenges'[x] = challenges[x]
      /\ challenges' \in [DOMAIN challenges' -> Challenge]
  BY <1>1, <1>2 DEF Base, TypeOK
<1>4. TypeOK' /\ LedgerTyped' /\ ProofFits'
  BY <1>1, <1>3 DEF Base, TypeOK, LedgerTyped, ProofFits
<1>5. Grows
  BY <1>1, <1>3 DEF Grows, MovesAlongThePath
<1>6. Served'
  BY <1>1, <1>5, NoneServed DEF Base
<1>7. QED
  BY <1>4, <1>5, <1>6 DEF Kept, Base

\* A challenge spent, by the one request that goes on with it.
LEMMA SpendStep ==
    ASSUME Base, NEW w \in Worker, SpendChallenge(w)
    PROVE  Kept
<1> DEFINE r == requests[w]
<1>1. r \in Request /\ Good(r) /\ r.kind = "check-in" /\ r.stage = "found"
  BY ServedType DEF SpendChallenge
<1>2. r.arg \in DOMAIN challenges /\ challenges[r.arg].booking = r.id
  BY <1>1 DEF Good
<1>3. UNCHANGED <<row, payments, history, txs, rpcSeen, now>>
  BY DEF SpendChallenge, ledgerVars
<1>4. CASE challenges[r.arg].consumed
  <2>1. UNCHANGED challenges /\ requests' = [requests EXCEPT ![w] = Idle]
    BY <1>4 DEF SpendChallenge, Answer
  <2>2. QED
    BY <1>3, <2>1, ProceedStep DEF database, ledgerVars
<1>5. CASE ~ challenges[r.arg].consumed
  <2>1. /\ challenges' = [challenges EXCEPT ![r.arg].consumed = TRUE]
        /\ requests' = [requests EXCEPT ![w].stage = "verified"]
    BY <1>5 DEF SpendChallenge, Proceed
  <2>2. challenges[r.arg] \in Challenge /\ challenges \in [DOMAIN challenges -> Challenge]
    BY <1>2 DEF Base, TypeOK
  <2>3. PICK c : c = [challenges[r.arg] EXCEPT !.consumed = TRUE]
    OBVIOUS
  <2>4. c \in Challenge /\ c.booking = r.id /\ c.consumed = TRUE
    BY <1>2, <2>2, <2>3 DEF Challenge
  <2>5. challenges' = [challenges EXCEPT ![r.arg] = c]
    BY <2>1, <2>3
  <2>6. /\ DOMAIN challenges' = DOMAIN challenges /\ challenges'[r.arg] = c
        /\ \A x \in DOMAIN challenges : x # r.arg => challenges'[x] = challenges[x]
        /\ challenges' \in [DOMAIN challenges' -> Challenge]
    BY <1>2, <2>2, <2>4, <2>5
  <2>7. Grows
    BY <1>2, <1>3, <2>4, <2>6 DEF Grows, MovesAlongThePath
  <2>8. PICK n : n = [r EXCEPT !.stage = "verified"]
    OBVIOUS
  <2>9. n \in Request /\ n.kind = r.kind /\ n.arg = r.arg /\ n.id = r.id /\ n.stage = "verified"
    BY <1>1, <2>8 DEF Request
  <2>10. Good(n)'
    BY <1>1, <1>2, <2>4, <2>6, <2>9 DEF Good
  <2>11. /\ requests' \in [Worker -> Request \cup Creation \cup {Idle}] /\ requests'[w] = n
         /\ \A v \in Worker : v # w => requests'[v] = requests[v]
    BY <2>1, <2>8, <2>9 DEF Base, TypeOK
  <2>12. Served'
    BY <2>7, <2>10, <2>11, OneServed DEF Base
  <2>13. TypeOK' /\ LedgerTyped' /\ ProofFits'
    BY <1>3, <2>6, <2>11 DEF Base, TypeOK, LedgerTyped, ProofFits
  <2>14. QED
    BY <2>7, <2>12, <2>13 DEF Kept, Base
<1>6. QED
  BY <1>4, <1>5

\* An event more leaves those before it.
LEMMA LedgerStep ==
    ASSUME Base, NEW c \in ChainId, NEW event \in LedgerEvent, LedgerPublishes(c, event)
    PROVE  Kept
<1> DEFINE tx == [event |-> event, booking_id |-> c]
           Rec == [event : LedgerEvent, booking_id : ChainId]
<1>1. tx \in Rec
  OBVIOUS
<1>2. txs' = Append(txs, tx) /\ UNCHANGED <<row, payments, history, challenges, requests, rpcSeen, now>>
  BY DEF LedgerPublishes, apiVars
<1>3. txs \in Seq(Rec)
  BY DEF Base, LedgerTyped
<1> HIDE DEF tx, Rec
<1>4. /\ txs' \in Seq(Rec) /\ Len(txs') = Len(txs) + 1 /\ Len(txs) \in Nat
      /\ \A i \in 1 .. Len(txs) : txs'[i] = txs[i]
      /\ DOMAIN txs = 1 .. Len(txs) /\ DOMAIN txs' = 1 .. Len(txs')
  BY <1>1, <1>2, <1>3
<1>5. LedgerTyped'
  BY <1>4 DEF LedgerTyped, Rec
<1>6. TypeOK' /\ ProofFits'
  BY <1>2, <1>4 DEF Base, TypeOK, ProofFits
<1>7. Grows
  BY <1>2, <1>4 DEF Grows, MovesAlongThePath
<1>8. Served'
  BY <1>2, <1>7, NoneServed DEF Base
<1>9. QED
  BY <1>5, <1>6, <1>7, <1>8 DEF Kept, Base

\* The clock and the RPC node are all that changes.
LEMMA ClockStep ==
    ASSUME Base, RpcCatchesUp \/ Tick
    PROVE  Kept
<1>1. UNCHANGED <<row, payments, history, challenges, requests, txs>>
  BY DEF RpcCatchesUp, Tick, apiVars
<1>2. rpcSeen' \in 0 .. Len(txs) /\ now' \in 0 .. MaxTime
  BY WorkflowAssumption DEF Base, TypeOK, LedgerTyped, RpcCatchesUp, Tick
<1>3. TypeOK' /\ LedgerTyped' /\ ProofFits'
  BY <1>1, <1>2 DEF Base, TypeOK, LedgerTyped, ProofFits
<1>4. Grows
  BY <1>1, QuietGrows
<1>5. Served'
  BY <1>1, <1>4, NoneServed DEF Base
<1>6. QED
  BY <1>3, <1>4, <1>5 DEF Kept, Base

\* Whatever requests, restarts and failures do.
LEMMA NextKept == Base /\ [Next]_vars => Kept
<1> SUFFICES ASSUME Base, [Next]_vars  PROVE Kept
  OBVIOUS
<1>1. ASSUME NEW w \in Worker, Serve(w)  PROVE Kept
  <2>1. /\ EventOf("fund") = "BookingFunded" /\ EventOf("cancel") = "DepositRefunded"
        /\ EventOf("confirm") = "VisitConfirmed"
    BY DEF EventOf
  <2>2. CASE FundVerify(w) \/ CancelVerify(w) \/ ConfirmVerify(w)
    <3>1. \E kind \in {"fund", "cancel", "confirm"} : Verify(w, kind, EventOf(kind))
      BY <2>1, <2>2 DEF FundVerify, CancelVerify, ConfirmVerify
    <3>2. QED
      BY <3>1, VerifyStep
  <2>3. CASE FundCheck(w) \/ RefundCheck(w) \/ CheckInCheck(w) \/ ConfirmCheck(w)
    BY <2>3, CheckStep DEF FundCheck, RefundCheck, CheckInCheck, ConfirmCheck, Kind
  <2>4. CASE InsertBooking(w)
    <3>1. CASE UNCHANGED <<database, ledgerVars>> /\ requests' = [requests EXCEPT ![w] = Idle]
      BY <3>1, RequestStep
    <3>2. QED
      BY <2>4, <3>1, InsertKind, InsertStep
  <2>5. QED
    BY <1>1, <2>2, <2>3, <2>4, FindSlotStep, SettleStep, FindStep, SpendStep,
       CheckInUpdateStep, HistoryStep, ConfirmUpdateStep DEF Serve
<1>2. CASE Post
  BY <1>2, CreateStep, IssueChallengeStep, SubmitStep DEF Post
<1>3. ASSUME NEW c \in ChainId, NEW event \in LedgerEvent, LedgerPublishes(c, event)
      PROVE  Kept
  BY <1>3, LedgerStep
<1>4. CASE RpcCatchesUp \/ Tick
  BY <1>4, ClockStep
<1>5. CASE Restart
  BY <1>5, RestartStep
<1>6. ASSUME NEW w \in Worker, Fails(w)  PROVE Kept
  BY <1>6, FailsStep
<1>7. CASE UNCHANGED vars
  <2>1. Grows
    BY <1>7, QuietGrows DEF vars
  <2>2. Served'
    BY <1>7, <2>1, NoneServed DEF Base, vars
  <2>3. TypeOK' /\ LedgerTyped' /\ ProofFits'
    BY <1>7 DEF vars, Base, TypeOK, LedgerTyped, ProofFits
  <2>4. QED
    BY <2>1, <2>2, <2>3 DEF Kept, Base
<1>8. QED
  BY <1>1, <1>2, <1>3, <1>4, <1>5, <1>6, <1>7 DEF Next, Up, LedgerEvent

\* At the start nothing is stored and nobody is served.
LEMMA InitBase == Init => Base
<1> SUFFICES ASSUME Init  PROVE Base
  OBVIOUS
<1>1. TypeOK
  BY WorkflowAssumption DEF Init, TypeOK
<1>2. Served
  BY DEF Init, Served
<1>3. LedgerTyped /\ ProofFits
  BY DEF Init, LedgerTyped, ProofFits
<1>4. QED
  BY <1>1, <1>2, <1>3 DEF Base

\* Base holds, and every step grows.
LEMMA Invariant == Spec => []Base /\ [][Kept]_vars
<1>1. Base /\ [Next]_vars => Base'
  BY NextKept DEF Kept
<1>2. Base /\ [Next]_vars => [Kept]_vars
  BY NextKept
<1>3. QED
  BY InitBase, <1>1, <1>2, PTL DEF Spec

\* Tables and requests keep their types.
THEOREM TypeCorrect == Spec => []TypeOK
<1>1. Base => TypeOK
  BY DEF Base
<1>2. QED
  BY <1>1, Invariant, PTL

\* No interleaving of requests, retries, failures and restarts takes a status off its
\* path, or back, or changes what was booked.
THEOREM PathKept == Spec => StatusMovesAlongThePath
<1>1. [Kept]_vars => [MovesAlongThePath]_vars
  BY DEF Kept, Grows
<1>2. QED
  BY <1>1, Invariant, PTL DEF StatusMovesAlongThePath

----------------------------------------------------------------------------
(***************************************************************************)
(* The kinds of steps that write bookings, payments or history.            *)
(***************************************************************************)
Quiet == UNCHANGED <<row, payments, history>>

Creates == \E w \in Worker, id \in BookingRef, slot \in Slot, renter, host \in Account,
              deposit \in AskedDeposit : Inserts(w, id, slot, renter, host, deposit)

\* A payment is recorded, with its status and its entry of the history.
Pays(id, hash, from, to, kind, event) ==
    /\ id \in DOMAIN row /\ row[id].status = from /\ HashIsNew(hash)
    /\ hash \in DOMAIN txs /\ txs[hash].event = event /\ txs[hash].booking_id = OnChain[id]
    /\ SetStatus(id, to)
    /\ Paid(id, hash, kind)
    /\ \E actor \in Account : Record(id, from, to, actor, hash)

Settles ==
    \E id \in BookingRef, hash \in Nat :
        \/ Pays(id, hash, "PENDING_FUNDING", "FUNDED", "FUND", "BookingFunded")
        \/ Pays(id, hash, "FUNDED", "REFUNDED", "REFUND", "DepositRefunded")

\* The two updates that leave the history for later.
Moves(id, from, to) ==
    /\ id \in DOMAIN row /\ row[id].status = from
    /\ DOMAIN row' = DOMAIN row
    /\ \A other \in DOMAIN row : other # id => row'[other] = row[other]
    /\ row'[id].status = to
    /\ UNCHANGED <<payments, history>>

ChecksIn ==
    \E w \in Worker, id \in BookingRef :
        /\ Serves(w, "check-in", "checked") /\ requests[w].id = id
        /\ Moves(id, "FUNDED", "CHECKED_IN")
        /\ row'[id].proof = requests[w].arg
        /\ requests' = [requests EXCEPT ![w].stage = "updated"]
        /\ UNCHANGED challenges
Completes ==
    \E w \in Worker, id \in BookingRef :
        /\ Serves(w, "confirm", "checked") /\ requests[w].id = id
        /\ Moves(id, "CHECKED_IN", "COMPLETED")
        /\ Published(OnChain[id], "VisitConfirmed")
        /\ requests' = [requests EXCEPT ![w].stage = "updated"]

\* Fund and cancel settle a booking, or change nothing.
LEMMA SettleKind ==
    ASSUME Base, NEW w \in Worker, FundCommit(w) \/ RefundCommit(w)
    PROVE  Quiet \/ Settles
<1>1. /\ requests[w] \in Request /\ Good(requests[w]) /\ requests[w].stage = "checked"
      /\ FundCommit(w) => requests[w].kind = "fund"
      /\ RefundCommit(w) => requests[w].kind = "cancel"
  BY ServedType DEF FundCommit, RefundCommit
<1>2. PICK id \in BookingRef, hash \in Nat, actor \in Account :
        id = requests[w].id /\ hash = requests[w].arg /\ actor = requests[w].actor
  BY <1>1 DEF Request
<1>3. /\ id \in DOMAIN row /\ hash \in DOMAIN txs /\ txs[hash].booking_id = OnChain[id]
      /\ FundCommit(w) => txs[hash].event = "BookingFunded"
      /\ RefundCommit(w) => txs[hash].event = "DepositRefunded"
  BY <1>1, <1>2 DEF Good, EventOf
<1>4. PICK renter \in Account : renter = row[id].renter
  BY <1>3 DEF Base, TypeOK, Row
<1>5. CASE FundCommit(w)
  <2>1. CASE StillIn(id, "PENDING_FUNDING") /\ HashIsNew(hash)
    <3>1. /\ SetStatus(id, "FUNDED") /\ Paid(id, hash, "FUND")
          /\ Record(id, "PENDING_FUNDING", "FUNDED", renter, hash)
      BY <1>2, <1>4, <1>5, <2>1
         DEF FundCommit, StillIn, HashIsNew, SetStatus, Paid, Record
    <3>2. Pays(id, hash, "PENDING_FUNDING", "FUNDED", "FUND", "BookingFunded")
      BY <1>3, <1>5, <2>1, <3>1 DEF Pays, StillIn
    <3>3. QED
      BY <3>2 DEF Settles
  <2>2. CASE ~ (StillIn(id, "PENDING_FUNDING") /\ HashIsNew(hash))
    BY <1>2, <1>5, <2>2 DEF FundCommit, StillIn, HashIsNew, Quiet
  <2>3. QED
    BY <2>1, <2>2
<1>6. CASE RefundCommit(w)
  <2>1. CASE StillIn(id, "FUNDED") /\ HashIsNew(hash)
    <3>1. /\ SetStatus(id, "REFUNDED") /\ Paid(id, hash, "REFUND")
          /\ Record(id, "FUNDED", "REFUNDED", actor, hash)
      BY <1>2, <1>6, <2>1
         DEF RefundCommit, StillIn, HashIsNew, SetStatus, Paid, Record
    <3>2. Pays(id, hash, "FUNDED", "REFUNDED", "REFUND", "DepositRefunded")
      BY <1>3, <1>6, <2>1, <3>1 DEF Pays, StillIn
    <3>3. QED
      BY <3>2 DEF Settles
  <2>2. CASE ~ (StillIn(id, "FUNDED") /\ HashIsNew(hash))
    BY <1>2, <1>6, <2>2 DEF RefundCommit, StillIn, HashIsNew, Quiet
  <2>3. QED
    BY <2>1, <2>2
<1>7. QED
  BY <1>5, <1>6

\* Check-in and confirmation move a booking, or change nothing.
LEMMA UpdateKind ==
    ASSUME Base, NEW w \in Worker, CheckInUpdate(w) \/ ConfirmUpdate(w)
    PROVE  Quiet \/ ChecksIn \/ Completes
<1>1. /\ requests[w] \in Request /\ Good(requests[w]) /\ requests[w].stage = "checked"
      /\ CheckInUpdate(w) => requests[w].kind = "check-in"
      /\ ConfirmUpdate(w) => requests[w].kind = "confirm"
  BY ServedType DEF CheckInUpdate, ConfirmUpdate, Serves
<1>2. PICK id \in BookingRef, arg \in Nat : id = requests[w].id /\ arg = requests[w].arg
  BY <1>1 DEF Request
<1>3. id \in DOMAIN row
  BY <1>1, <1>2 DEF Good
<1>4. UNCHANGED <<payments, history>>
  BY DEF CheckInUpdate, ConfirmUpdate
<1>5. CASE CheckInUpdate(w)
  <2>1. CASE StillIn(id, "FUNDED")
    <3>1. row' = [row EXCEPT ![id].status = "CHECKED_IN", ![id].proof = arg]
      BY <1>2, <1>5, <2>1 DEF CheckInUpdate, StillIn
    <3>2. arg \in Nonce \cup {NoProof}
      BY <1>1, <1>2, <1>5 DEF Good, Base, TypeOK
    <3>3. Moves(id, "FUNDED", "CHECKED_IN") /\ row'[id].proof = arg
      BY <1>3, <1>4, <2>1, <3>1, <3>2, CheckedInSet DEF Moves, StillIn, Base
    <3>4. /\ Serves(w, "check-in", "checked") /\ UNCHANGED challenges
          /\ requests' = [requests EXCEPT ![w].stage = "updated"]
      BY <1>2, <1>5, <2>1 DEF CheckInUpdate, StillIn, Proceed
    <3>5. QED
      BY <1>2, <3>3, <3>4 DEF ChecksIn
  <2>2. CASE ~ StillIn(id, "FUNDED")
    BY <1>2, <1>4, <1>5, <2>2 DEF CheckInUpdate, StillIn, Quiet
  <2>3. QED
    BY <2>1, <2>2
<1>6. CASE ConfirmUpdate(w)
  <2>1. CASE StillIn(id, "CHECKED_IN")
    <3>1. row' = [row EXCEPT ![id].status = "COMPLETED"]
      BY <1>2, <1>6, <2>1 DEF ConfirmUpdate, StillIn, SetStatus
    <3>2. "COMPLETED" \in Status
      BY DEF Status
    <3>3. Moves(id, "CHECKED_IN", "COMPLETED")
      BY <1>3, <1>4, <2>1, <3>1, <3>2, StatusSet DEF Moves, StillIn, Base
    <3>4. Published(OnChain[id], "VisitConfirmed")
      BY <1>1, <1>2, <1>6 DEF Good, EventOf, Published
    <3>5. /\ Serves(w, "confirm", "checked")
          /\ requests' = [requests EXCEPT ![w].stage = "updated"]
      BY <1>2, <1>6, <2>1 DEF ConfirmUpdate, StillIn, Proceed
    <3>6. QED
      BY <1>2, <3>3, <3>4, <3>5 DEF Completes
  <2>2. CASE ~ StillIn(id, "CHECKED_IN")
    BY <1>2, <1>4, <1>6, <2>2 DEF ConfirmUpdate, StillIn, Quiet
  <2>3. QED
    BY <2>1, <2>2
<1>7. QED
  BY <1>5, <1>6

\* Every step is of one of these kinds, or writes only the history.
LEMMA StepKinds ==
    ASSUME Base, [Next]_vars
    PROVE  \/ Quiet \/ Creates \/ Settles \/ ChecksIn \/ Completes
           \/ \E w \in Worker : CheckInHistory(w) \/ ConfirmHistory(w)
<1>1. ASSUME NEW w \in Worker, Serve(w)
      PROVE  \/ Quiet \/ Creates \/ Settles \/ ChecksIn \/ Completes
             \/ CheckInHistory(w) \/ ConfirmHistory(w)
  <2>1. ASSUME \/ FundVerify(w) \/ CancelVerify(w) \/ ConfirmVerify(w)
               \/ FundCheck(w) \/ RefundCheck(w) \/ CheckInCheck(w) \/ ConfirmCheck(w)
               \/ FindChallenge(w) \/ SpendChallenge(w) \/ FindSlot(w)
        PROVE  Quiet
    BY <2>1 DEF FundVerify, CancelVerify, ConfirmVerify, Verify, FundCheck, RefundCheck,
       CheckInCheck, ConfirmCheck, Check, FindChallenge, SpendChallenge, FindSlot, database,
       Quiet
  <2>2. CASE InsertBooking(w)
    BY <2>2, InsertKind DEF Creates, database, Quiet
  <2>3. QED
    BY <1>1, <2>1, <2>2, SettleKind, UpdateKind DEF Serve
<1>2. CASE Post
  <2>1. ASSUME NEW id \in BookingRef, NEW actor \in Account, NEW nonce \in Nonce,
               IssueChallenge(id, actor, nonce)
        PROVE  Quiet
    BY <2>1 DEF IssueChallenge, Quiet
  <2>2. ASSUME NEW w \in Worker, NEW kind \in Kind, NEW id \in BookingRef,
               NEW actor \in Account, NEW arg, Submit(w, kind, id, actor, arg)
        PROVE  Quiet
    BY <2>2 DEF Submit, database, Quiet
  <2>3. ASSUME NEW w \in Worker, NEW id, NEW slot, NEW renter, NEW host, NEW deposit,
               Create(w, id, slot, renter, host, deposit)
        PROVE  Quiet
    BY <2>3 DEF Create, database, Quiet
  <2>4. QED
    BY <1>2, <2>1, <2>2, <2>3 DEF Post
<1>3. ASSUME NEW c, NEW event, LedgerPublishes(c, event)
      PROVE  Quiet
  BY <1>3 DEF LedgerPublishes, apiVars, Quiet
<1>4. CASE RpcCatchesUp \/ Tick \/ Restart \/ UNCHANGED vars
  BY <1>4 DEF RpcCatchesUp, Tick, Restart, vars, apiVars, database, Quiet
<1>5. ASSUME NEW w \in Worker, Fails(w)  PROVE Quiet
  BY <1>5 DEF Fails, database, Quiet
<1>6. QED
  BY <1>1, <1>2, <1>3, <1>4, <1>5 DEF Next, Up

\* No step but an insertion adds a booking.
LEMMA SameBookings ==
    ASSUME Base, Quiet \/ Settles \/ ChecksIn \/ Completes
                 \/ \E w \in Worker : CheckInHistory(w) \/ ConfirmHistory(w)
    PROVE  DOMAIN row' = DOMAIN row
<1>1. ASSUME NEW id, NEW to, SetStatus(id, to)  PROVE DOMAIN row' = DOMAIN row
  BY <1>1 DEF SetStatus
<1>2. QED
  BY <1>1 DEF Quiet, Settles, Pays, ChecksIn, Completes, Moves, CheckInHistory, ConfirmHistory

----------------------------------------------------------------------------
(***************************************************************************)
(* No two bookings share a slot or an escrow.                              *)
(***************************************************************************)
\* Only an insertion adds one, and looks at the others again as it does.
LEMMA StepDistinct ==
    ASSUME Base, Kept, [Next]_vars, BookingsAreDistinct
    PROVE  BookingsAreDistinct'
<1>1. \A id \in DOMAIN row : id \in DOMAIN row' /\ row'[id].slot = row[id].slot
  BY DEF Kept, Grows, MovesAlongThePath
<1>2. CASE Creates
  <2>1. PICK w \in Worker, id \in BookingRef, slot \in Slot, renter \in Account,
             host \in Account, deposit \in AskedDeposit :
                Inserts(w, id, slot, renter, host, deposit)
    BY <1>2 DEF Creates
  <2>2. /\ DOMAIN row' = DOMAIN row \cup {id} /\ row'[id].slot = slot
        /\ \A other \in DOMAIN row : row[other].slot # slot /\ OnChain[other] # OnChain[id]
    BY <2>1 DEF Inserts, Insertable, SlotIsFree, Put
  <2>3. QED
    BY <1>1, <2>2 DEF BookingsAreDistinct
<1>3. CASE DOMAIN row' = DOMAIN row
  BY <1>1, <1>3 DEF BookingsAreDistinct
<1>4. QED
  BY <1>2, <1>3, StepKinds, SameBookings

\* Of any number of clients that book at once, one gets the slot, and no two bookings
\* are paid into one escrow.
THEOREM BookingsDistinct == Spec => []BookingsAreDistinct
<1>1. Init => BookingsAreDistinct
  BY DEF Init, BookingsAreDistinct
<1>2. Base /\ BookingsAreDistinct /\ [Next]_vars => BookingsAreDistinct'
  BY NextKept, StepDistinct
<1>3. QED
  BY <1>1, <1>2, Invariant, PTL DEF Spec

----------------------------------------------------------------------------
(***************************************************************************)
(* Payments, statuses and the ledger agree.                                *)
(***************************************************************************)
EventPaid(kind) == IF kind = "FUND" THEN "BookingFunded" ELSE "DepositRefunded"
HasPaid(id, kind) == \E p \in payments : p.booking = id /\ p.kind = kind

\* The payments are true, and one for each status that needs one.
Books ==
    /\ \A p \in payments :
          /\ p.booking \in DOMAIN row
          /\ p.hash \in DOMAIN txs
          /\ txs[p.hash].event = EventPaid(p.kind)
          /\ txs[p.hash].booking_id = OnChain[p.booking]
    /\ \A id \in DOMAIN row :
          /\ HasPaid(id, "FUND") <=> row[id].status # "PENDING_FUNDING"
          /\ HasPaid(id, "REFUND") <=> row[id].status = "REFUNDED"
          /\ row[id].status = "COMPLETED" => Published(OnChain[id], "VisitConfirmed")
    /\ \A p, q \in payments :
          (p.booking = q.booking /\ p.kind = q.kind) \/ p.hash = q.hash => p = q

\* What was published stays published.
LEMMA PublishedStays ==
    ASSUME Grows, NEW c, NEW event, Published(c, event)
    PROVE  Published(c, event)'
BY DEF Grows, Published

\* A step that moves no status but one that needs no payment.
LEMMA PaymentsKept ==
    ASSUME Base, Grows, Books, UNCHANGED payments, DOMAIN row \subseteq DOMAIN row',
           \A id \in DOMAIN row' \ DOMAIN row : row'[id].status = "PENDING_FUNDING",
           \A id \in DOMAIN row :
              \/ row'[id].status = row[id].status
              \/ row[id].status = "FUNDED" /\ row'[id].status = "CHECKED_IN"
              \/ /\ row[id].status = "CHECKED_IN" /\ row'[id].status = "COMPLETED"
                 /\ Published(OnChain[id], "VisitConfirmed")
    PROVE  Books'
<1>1. \A p \in payments' :
         /\ p.booking \in DOMAIN row'
         /\ p.hash \in DOMAIN txs'
         /\ txs'[p.hash].event = EventPaid(p.kind)
         /\ txs'[p.hash].booking_id = OnChain[p.booking]
  BY DEF Books, Grows
<1>2. ASSUME NEW id \in DOMAIN row'
      PROVE  /\ HasPaid(id, "FUND")' <=> row'[id].status # "PENDING_FUNDING"
             /\ HasPaid(id, "REFUND")' <=> row'[id].status = "REFUNDED"
             /\ row'[id].status = "COMPLETED" => Published(OnChain[id], "VisitConfirmed")'
  <2>1. HasPaid(id, "FUND")' = HasPaid(id, "FUND") /\ HasPaid(id, "REFUND")' = HasPaid(id, "REFUND")
    BY DEF HasPaid
  <2>2. CASE id \notin DOMAIN row
    <3>1. ~ HasPaid(id, "FUND") /\ ~ HasPaid(id, "REFUND")
      BY <2>2 DEF HasPaid, Books
    <3>2. QED
      BY <1>2, <2>1, <2>2, <3>1
  <2>3. CASE id \in DOMAIN row
    <3>1. /\ HasPaid(id, "FUND") <=> row[id].status # "PENDING_FUNDING"
          /\ HasPaid(id, "REFUND") <=> row[id].status = "REFUNDED"
          /\ row[id].status = "COMPLETED" => Published(OnChain[id], "VisitConfirmed")
      BY <2>3 DEF Books
    <3>2. PICK c : c = OnChain[id]
      OBVIOUS
    <3>3. Published(c, "VisitConfirmed") => Published(c, "VisitConfirmed")'
      BY PublishedStays
    <3>4. row'[id].status = "COMPLETED" => Published(OnChain[id], "VisitConfirmed")
      BY <2>3, <3>1
    <3>5. row'[id].status = "COMPLETED" => Published(OnChain[id], "VisitConfirmed")'
      BY <3>2, <3>3, <3>4 DEF Published
    <3>6. QED
      BY <2>1, <2>3, <3>1, <3>5
  <2>4. QED
    BY <2>2, <2>3
<1>3. \A p, q \in payments' :
         (p.booking = q.booking /\ p.kind = q.kind) \/ p.hash = q.hash => p = q
  BY DEF Books
<1>4. QED
  BY <1>1, <1>2, <1>3 DEF Books

\* A payment recorded with its status.
LEMMA PaysBooks ==
    ASSUME Base, Grows, Books, NEW id \in BookingRef, NEW hash \in Nat,
           NEW from \in Status, NEW to \in Status, NEW kind \in {"FUND", "REFUND"},
           Pays(id, hash, from, to, kind, EventPaid(kind)),
           \/ kind = "FUND" /\ from = "PENDING_FUNDING" /\ to = "FUNDED"
           \/ kind = "REFUND" /\ from = "FUNDED" /\ to = "REFUNDED"
    PROVE  Books'
<1> DEFINE new == [booking |-> id, hash |-> hash, kind |-> kind, amount |-> row[id].deposit]
<1>1. /\ id \in DOMAIN row /\ row[id].status = from /\ HashIsNew(hash)
      /\ hash \in DOMAIN txs /\ txs[hash].event = EventPaid(kind)
      /\ txs[hash].booking_id = OnChain[id]
      /\ SetStatus(id, to)
      /\ payments' = payments \cup {new}
  BY DEF Pays, Paid
<1>2. new.booking = id /\ new.hash = hash /\ new.kind = kind
  OBVIOUS
<1> HIDE DEF new
<1>3. /\ DOMAIN row' = DOMAIN row /\ row'[id].status = to
      /\ \A other \in DOMAIN row : other # id => row'[other] = row[other]
  BY <1>1, StatusSet DEF SetStatus, Base
<1>4. \A p \in payments' :
         /\ p.booking \in DOMAIN row'
         /\ p.hash \in DOMAIN txs'
         /\ txs'[p.hash].event = EventPaid(p.kind)
         /\ txs'[p.hash].booking_id = OnChain[p.booking]
  <2> SUFFICES ASSUME NEW p \in payments'
               PROVE  /\ p.booking \in DOMAIN row'
                      /\ p.hash \in DOMAIN txs'
                      /\ txs'[p.hash].event = EventPaid(p.kind)
                      /\ txs'[p.hash].booking_id = OnChain[p.booking]
    OBVIOUS
  <2>1. CASE p \in payments
    BY <1>3, <2>1 DEF Books, Grows
  <2>2. CASE p = new
    BY <1>1, <1>2, <1>3, <2>2 DEF Grows, EventPaid
  <2>3. QED
    BY <1>1, <2>1, <2>2
<1>5. \A other \in BookingRef, k \in {"FUND", "REFUND"} :
         HasPaid(other, k)' <=> HasPaid(other, k) \/ (other = id /\ k = kind)
  BY <1>1, <1>2 DEF HasPaid
<1>6. ASSUME NEW other \in DOMAIN row'
      PROVE  /\ HasPaid(other, "FUND")' <=> row'[other].status # "PENDING_FUNDING"
             /\ HasPaid(other, "REFUND")' <=> row'[other].status = "REFUNDED"
             /\ row'[other].status = "COMPLETED" => Published(OnChain[other], "VisitConfirmed")'
  <2>1. other \in DOMAIN row /\ other \in BookingRef
    BY <1>3 DEF Base, TypeOK
  <2>2. /\ HasPaid(other, "FUND") <=> row[other].status # "PENDING_FUNDING"
        /\ HasPaid(other, "REFUND") <=> row[other].status = "REFUNDED"
        /\ row[other].status = "COMPLETED" => Published(OnChain[other], "VisitConfirmed")
    BY <2>1 DEF Books
  <2>3. CASE other = id
    BY <1>1, <1>3, <1>5, <2>1, <2>2, <2>3
  <2>4. CASE other # id
    <3>1. row'[other].status = row[other].status
      BY <1>3, <2>1, <2>4
    <3>2. PICK c : c = OnChain[other]
      OBVIOUS
    <3>3. Published(c, "VisitConfirmed") => Published(c, "VisitConfirmed")'
      BY PublishedStays
    <3>4. row'[other].status = "COMPLETED" => Published(OnChain[other], "VisitConfirmed")'
      BY <2>2, <3>1, <3>2, <3>3 DEF Published
    <3>5. QED
      BY <1>5, <2>1, <2>2, <2>4, <3>1, <3>4
  <2>5. QED
    BY <2>3, <2>4
<1>7. \A p \in payments : p.hash # hash /\ ~ (p.booking = id /\ p.kind = kind)
  <2>1. ~ HasPaid(id, kind)
    BY <1>1 DEF Books
  <2>2. QED
    BY <1>1, <2>1 DEF HashIsNew, HasPaid
<1>8. \A p, q \in payments' :
         (p.booking = q.booking /\ p.kind = q.kind) \/ p.hash = q.hash => p = q
  BY <1>1, <1>2, <1>7 DEF Books
<1>9. QED
  BY <1>4, <1>6, <1>8 DEF Books

\* Every step leaves the books in order.
LEMMA StepBooks ==
    ASSUME Base, Kept, [Next]_vars, Books
    PROVE  Books'
<1> USE DEF Kept
<1>1. CASE Settles
  <2>1. PICK id \in BookingRef, hash \in Nat :
          \/ Pays(id, hash, "PENDING_FUNDING", "FUNDED", "FUND", "BookingFunded")
          \/ Pays(id, hash, "FUNDED", "REFUNDED", "REFUND", "DepositRefunded")
    BY <1>1 DEF Settles
  <2>2. /\ EventPaid("FUND") = "BookingFunded" /\ EventPaid("REFUND") = "DepositRefunded"
        /\ {"PENDING_FUNDING", "FUNDED", "REFUNDED"} \subseteq Status
    BY DEF EventPaid, Status
  <2>3. QED
    BY <2>1, <2>2, PaysBooks
<1>2. CASE Quiet \/ \E w \in Worker : CheckInHistory(w) \/ ConfirmHistory(w)
  <2>1. UNCHANGED <<row, payments>>
    BY <1>2 DEF Quiet, CheckInHistory, ConfirmHistory
  <2>2. QED
    BY <2>1, PaymentsKept
<1>3. CASE Creates
  <2>1. PICK w \in Worker, id \in BookingRef, slot \in Slot, renter \in Account,
             host \in Account, deposit \in AskedDeposit :
                Inserts(w, id, slot, renter, host, deposit)
    BY <1>3 DEF Creates
  <2>2. /\ id \notin DOMAIN row /\ DOMAIN row' = DOMAIN row \cup {id}
        /\ row'[id].status = "PENDING_FUNDING" /\ UNCHANGED payments
        /\ \A other \in DOMAIN row : row'[other] = row[other]
    BY <2>1 DEF Inserts, Insertable, Put
  <2>3. QED
    BY <2>2, PaymentsKept
<1>4. CASE ChecksIn
  <2>1. PICK id \in BookingRef : Moves(id, "FUNDED", "CHECKED_IN")
    BY <1>4 DEF ChecksIn
  <2>2. QED
    BY <2>1, PaymentsKept DEF Moves
<1>5. CASE Completes
  <2>1. PICK id \in BookingRef : /\ Moves(id, "CHECKED_IN", "COMPLETED")
                                 /\ Published(OnChain[id], "VisitConfirmed")
    BY <1>5 DEF Completes
  <2>2. ASSUME NEW other \in DOMAIN row
        PROVE  \/ row'[other].status = row[other].status
               \/ /\ row[other].status = "CHECKED_IN" /\ row'[other].status = "COMPLETED"
                  /\ Published(OnChain[other], "VisitConfirmed")
    <3>1. CASE other = id
      BY <2>1, <3>1 DEF Moves
    <3>2. CASE other # id
      BY <2>1, <3>2 DEF Moves
    <3>3. QED
      BY <3>1, <3>2
  <2>3. UNCHANGED payments /\ DOMAIN row' = DOMAIN row
    BY <2>1 DEF Moves
  <2>4. QED
    BY <2>2, <2>3, PaymentsKept
<1>6. QED
  BY <1>1, <1>2, <1>3, <1>4, <1>5, StepKinds

\* The books are in order from the start.
LEMMA BooksInvariant == Spec => []Books
<1>1. Init => Books
  BY DEF Init, Books, HasPaid
<1>2. Base /\ Books /\ [Next]_vars => Books'
  BY NextKept, StepBooks
<1>3. QED
  BY <1>1, <1>2, Invariant, PTL DEF Spec

\* The books of one booking: no payment of a kind, or one.
LEMMA RecordedOnce ==
    ASSUME Books, NEW id, NEW kind
    PROVE  /\ HasPaid(id, kind) => Cardinality(Recorded(id, kind)) = 1
           /\ ~ HasPaid(id, kind) => Cardinality(Recorded(id, kind)) = 0
<1>1. CASE ~ HasPaid(id, kind)
  <2>1. Recorded(id, kind) = {}
    BY <1>1 DEF HasPaid, Recorded
  <2>2. QED
    BY <1>1, <2>1, FS_EmptySet
<1>2. CASE HasPaid(id, kind)
  <2>1. PICK p \in payments : p.booking = id /\ p.kind = kind
    BY <1>2 DEF HasPaid
  <2>2. Recorded(id, kind) = {p}
    BY <2>1 DEF Recorded, Books
  <2>3. QED
    BY <1>2, <2>2, FS_Singleton
<1>3. QED
  BY <1>1, <1>2

\* No retry and no race records a payment twice, and a status never lacks its own.
THEOREM PaymentsFit == Spec => []PaymentsFitTheStatus
<1>1. Books => PaymentsFitTheStatus
  <2> SUFFICES ASSUME Books  PROVE PaymentsFitTheStatus
    OBVIOUS
  <2>1. ASSUME NEW id \in DOMAIN row
        PROVE  /\ Cardinality(Recorded(id, "FUND")) =
                     IF row[id].status = "PENDING_FUNDING" THEN 0 ELSE 1
               /\ Cardinality(Recorded(id, "REFUND")) =
                     IF row[id].status = "REFUNDED" THEN 1 ELSE 0
    <3>1. /\ HasPaid(id, "FUND") <=> row[id].status # "PENDING_FUNDING"
          /\ HasPaid(id, "REFUND") <=> row[id].status = "REFUNDED"
      BY DEF Books
    <3>2. QED
      BY <3>1, RecordedOnce
  <2>2. \A p, q \in payments : p.hash = q.hash => p = q
    BY DEF Books
  <2>3. QED
    BY <2>1, <2>2 DEF PaymentsFitTheStatus
<1>2. QED
  BY <1>1, BooksInvariant, PTL

\* The database never says of the money what the ledger has not published for this escrow.
THEOREM LedgerBacks == Spec => []LedgerBacksTheStatus
<1>1. Books => LedgerBacksTheStatus
  <2> SUFFICES ASSUME Books  PROVE LedgerBacksTheStatus
    OBVIOUS
  <2>1. ASSUME NEW id \in DOMAIN row, NEW kind \in {"FUND", "REFUND"}, HasPaid(id, kind)
        PROVE  Published(OnChain[id], EventPaid(kind))
    <3>1. PICK p \in payments : p.booking = id /\ p.kind = kind
      BY <2>1 DEF HasPaid
    <3>2. QED
      BY <3>1 DEF Books, Published
  <2>2. ASSUME NEW id \in DOMAIN row
        PROVE  /\ row[id].status # "PENDING_FUNDING" => Published(OnChain[id], "BookingFunded")
               /\ row[id].status = "COMPLETED" => Published(OnChain[id], "VisitConfirmed")
               /\ row[id].status = "REFUNDED" => Published(OnChain[id], "DepositRefunded")
    BY <2>1 DEF Books, EventPaid
  <2>3. QED
    BY <2>2 DEF LedgerBacksTheStatus, Books
<1>2. QED
  BY <1>1, BooksInvariant, PTL

\* What is found of a booking's payments is one of them.
LEMMA FindFinds ==
    ASSUME Books, NEW id, NEW kinds
    PROVE  \/ find(id, kinds) = NoHash /\ \A p \in payments : ~ (p.booking = id /\ p.kind \in kinds)
           \/ \E p \in payments : p.booking = id /\ p.kind \in kinds /\ find(id, kinds) = p.hash
<1> DEFINE found == {p \in payments : p.booking = id /\ p.kind \in kinds}
<1>1. CASE found = {}
  BY <1>1 DEF find
<1>2. CASE found # {}
  <2>1. (CHOOSE p \in found : TRUE) \in found
    BY <1>2
  <2>2. find(id, kinds) = (CHOOSE p \in found : TRUE).hash
    BY <1>2 DEF find
  <2> HIDE DEF found
  <2>3. PICK p \in found : find(id, kinds) = p.hash
    BY <2>1, <2>2
  <2>4. QED
    BY <2>3 DEF found
<1>3. QED
  BY <1>1, <1>2

\* What booking page and recent activity link is what they say it is.
THEOREM ReceiptsTrue == Spec => []ReceiptsAreTrue
<1>1. Base /\ Books => ReceiptsAreTrue
  <2> SUFFICES ASSUME Base, Books  PROVE ReceiptsAreTrue
    OBVIOUS
  <2>1. \A p \in payments : p.hash # NoHash /\ p.kind \in {"FUND", "REFUND"}
    BY DEF Base, TypeOK, LedgerTyped, Payment, Books, NoHash
  <2>2. ASSUME NEW id \in DOMAIN row
        PROVE  /\ IF row[id].status = "PENDING_FUNDING" THEN find(id, {"FUND"}) = NoHash
                  ELSE /\ find(id, {"FUND"}) # NoHash
                       /\ Shows(find(id, {"FUND"}), id, "BookingFunded")
               /\ IF row[id].status # "REFUNDED"
                  THEN find(id, {"REFUND", "RELEASE", "SPLIT"}) = NoHash
                  ELSE /\ find(id, {"REFUND", "RELEASE", "SPLIT"}) # NoHash
                       /\ Shows(find(id, {"REFUND", "RELEASE", "SPLIT"}), id, "DepositRefunded")
               /\ (\E p \in payments : p.booking = id) <=> row[id].status # "PENDING_FUNDING"
    <3>1. /\ HasPaid(id, "FUND") <=> row[id].status # "PENDING_FUNDING"
          /\ HasPaid(id, "REFUND") <=> row[id].status = "REFUNDED"
      BY DEF Books
    <3>2. \/ find(id, {"FUND"}) = NoHash /\ ~ HasPaid(id, "FUND")
          \/ /\ HasPaid(id, "FUND") /\ find(id, {"FUND"}) # NoHash
             /\ Shows(find(id, {"FUND"}), id, "BookingFunded")
      BY <2>1, FindFinds DEF HasPaid, Shows, Books, EventPaid
    <3>3. \/ find(id, {"REFUND", "RELEASE", "SPLIT"}) = NoHash /\ ~ HasPaid(id, "REFUND")
          \/ /\ HasPaid(id, "REFUND") /\ find(id, {"REFUND", "RELEASE", "SPLIT"}) # NoHash
             /\ Shows(find(id, {"REFUND", "RELEASE", "SPLIT"}), id, "DepositRefunded")
      BY <2>1, FindFinds DEF HasPaid, Shows, Books, EventPaid
    <3>4. (\E p \in payments : p.booking = id) <=> HasPaid(id, "FUND") \/ HasPaid(id, "REFUND")
      BY <2>1 DEF HasPaid
    <3>5. QED
      BY <3>1, <3>2, <3>3, <3>4
  <2>3. ASSUME NEW id \in DOMAIN row
        PROVE  (fromDatabase(id) \in activity) = (row[id].status # "PENDING_FUNDING")
    <3>1. fromDatabase(id) \in activity <=> \E p \in payments : p.booking = id
      BY DEF activity, fromDatabase
    <3>2. QED
      BY <2>2, <3>1
  <2>4. ASSUME NEW item \in activity
        PROVE  \/ Shows(Link(item), item.id, "BookingFunded")
               \/ item.state = "REFUNDED" /\ Shows(Link(item), item.id, "DepositRefunded")
    <3>1. PICK id \in DOMAIN row : item = fromDatabase(id) /\ \E p \in payments : p.booking = id
      BY DEF activity
    <3>2. /\ item.id = id /\ item.state = row[id].status
          /\ item.fundingTransactionHash = find(id, {"FUND"})
          /\ item.settlementTransactionHash = find(id, {"REFUND", "RELEASE", "SPLIT"})
      BY <3>1 DEF fromDatabase
    <3>3. QED
      BY <2>2, <3>1, <3>2 DEF Link, Shows
  <2>5. ASSUME NEW id \in DOMAIN row
        PROVE  LET b == fromDatabase(id) IN
               /\ IF b.state = "PENDING_FUNDING" THEN b.fundingTransactionHash = NoHash
                  ELSE /\ b.fundingTransactionHash # NoHash
                       /\ Shows(b.fundingTransactionHash, id, "BookingFunded")
               /\ b.state = "REFUNDED" => b.settlementTransactionHash # NoHash
               /\ b.settlementTransactionHash # NoHash =>
                     CASE b.state = "REFUNDED" ->
                               Shows(b.settlementTransactionHash, id, "DepositRefunded")
                       [] b.state = "COMPLETED" ->
                               Shows(b.settlementTransactionHash, id, "VisitConfirmed")
                       [] OTHER -> FALSE
               /\ (b \in activity) = (b.state # "PENDING_FUNDING")
    <3>1. PICK b : b = fromDatabase(id)
      OBVIOUS
    <3>2. /\ b.state = row[id].status
          /\ b.fundingTransactionHash = find(id, {"FUND"})
          /\ b.settlementTransactionHash = find(id, {"REFUND", "RELEASE", "SPLIT"})
      BY <3>1 DEF fromDatabase
    <3>3. QED
      BY <2>2, <2>3, <3>1, <3>2 DEF Shows
  <2>6. QED
    BY <2>4, <2>5 DEF ReceiptsAreTrue
<1>2. QED
  BY <1>1, Invariant, BooksInvariant, PTL

----------------------------------------------------------------------------
(***************************************************************************)
(* What a step does to the requests.                                       *)
(***************************************************************************)
\* The request of v ends, stays, begins, or is checked; it neither spends nor updates.
Calm(v) ==
    \/ requests'[v] = Idle
    \/ requests'[v] = requests[v]
    \/ requests'[v].stage \in {"accepted", "received", "found"}
    \/ requests'[v].stage = "verified" /\ requests'[v].kind # "check-in"
    \/ /\ requests[v] # Idle /\ requests[v].stage = "verified"
       /\ requests'[v].stage = "checked"
       /\ requests'[v].kind = requests[v].kind /\ requests'[v].arg = requests[v].arg
AllCalm == \A v \in Worker : Calm(v)

Spends ==
    \E w \in Worker :
        /\ Serves(w, "check-in", "found")
        /\ ~ challenges[requests[w].arg].consumed
        /\ requests' = [requests EXCEPT ![w].stage = "verified"]
        /\ UNCHANGED <<row, payments, history>>

\* One request that changes calmly.
LEMMA OneCalm ==
    ASSUME Base, NEW w \in Worker, NEW n, requests' = [requests EXCEPT ![w] = n],
           \/ n = Idle
           \/ n.stage \in {"accepted", "received", "found"}
           \/ n.stage = "verified" /\ n.kind # "check-in"
           \/ /\ requests[w] # Idle /\ requests[w].stage = "verified"
              /\ n.stage = "checked" /\ n.kind = requests[w].kind /\ n.arg = requests[w].arg
    PROVE  AllCalm
BY DEF Base, TypeOK, AllCalm, Calm

\* Finding a challenge or a slot is calm.
LEMMA FoundCalm ==
    ASSUME Base, NEW w \in Worker, requests[w] \in Request \cup Creation,
           requests' = [requests EXCEPT ![w].stage = "found"]
    PROVE  AllCalm
<1>1. PICK n : n = [requests[w] EXCEPT !.stage = "found"]
  OBVIOUS
<1>2. requests' = [requests EXCEPT ![w] = n] /\ n.stage = "found"
  BY <1>1 DEF Base, TypeOK, Request, Creation
<1>3. QED
  BY <1>2, OneCalm

\* Verifying and checking are calm.
LEMMA ChecksCalm ==
    ASSUME Base, NEW w \in Worker, NEW kind \in Kind, NEW event, NEW from, NEW role,
           \/ kind # "check-in" /\ Verify(w, kind, event)
           \/ Check(w, kind, from, role)
    PROVE  AllCalm
<1>1. CASE requests' = [requests EXCEPT ![w] = Idle]
  BY <1>1, OneCalm
<1>2. CASE kind # "check-in" /\ Verify(w, kind, event)
           /\ requests' = [requests EXCEPT ![w].stage = "verified"]
  <2>1. requests[w] \in Request /\ requests[w].kind = kind
    BY <1>2, ServedType DEF Verify, Kind
  <2>2. requests' = [requests EXCEPT ![w].stage = "verified"]
    BY <1>2
  <2>3. PICK n : /\ requests' = [requests EXCEPT ![w] = n] /\ n.stage = "verified"
                 /\ n.kind = requests[w].kind
    <3>1. PICK n : n = [requests[w] EXCEPT !.stage = "verified"]
      OBVIOUS
    <3>2. requests' = [requests EXCEPT ![w] = n]
      BY <2>2, <3>1 DEF Base, TypeOK
    <3>3. n.stage = "verified" /\ n.kind = requests[w].kind
      BY <2>1, <3>1 DEF Request
    <3>4. QED
      BY <3>2, <3>3
  <2>4. QED
    BY <1>2, <2>1, <2>3, OneCalm
<1>3. CASE Check(w, kind, from, role) /\ requests' = [requests EXCEPT ![w].stage = "checked"]
  <2>1. requests[w] \in Request /\ requests[w].kind = kind /\ requests[w].stage = "verified"
    BY <1>3, ServedType DEF Check, Kind
  <2>2. requests[w] # Idle
    BY <1>3 DEF Check, Serves
  <2>3. requests' = [requests EXCEPT ![w].stage = "checked"]
    BY <1>3
  <2>4. PICK n : /\ requests' = [requests EXCEPT ![w] = n] /\ n.stage = "checked"
                 /\ n.kind = requests[w].kind /\ n.arg = requests[w].arg
    <3>1. PICK n : n = [requests[w] EXCEPT !.stage = "checked"]
      OBVIOUS
    <3>2. requests' = [requests EXCEPT ![w] = n]
      BY <2>3, <3>1 DEF Base, TypeOK
    <3>3. n.stage = "checked" /\ n.kind = requests[w].kind /\ n.arg = requests[w].arg
      BY <2>1, <3>1 DEF Request
    <3>4. QED
      BY <3>2, <3>3
  <2>5. QED
    BY <2>1, <2>2, <2>4, OneCalm
<1>4. QED
  BY <1>1, <1>2, <1>3 DEF Verify, Check, Proceed, Answer

\* Any step is calm, but spending a code and the two updates.
LEMMA RequestKinds ==
    ASSUME Base, [Next]_vars
    PROVE  AllCalm \/ Spends \/ ChecksIn \/ Completes
<1>1. ASSUME UNCHANGED requests  PROVE AllCalm
  BY <1>1 DEF AllCalm, Calm
<1>2. ASSUME NEW w \in Worker, Answer(w)  PROVE AllCalm
  BY <1>2, OneCalm DEF Answer
<1>3. ASSUME NEW w \in Worker, Serve(w)
      PROVE  AllCalm \/ Spends \/ ChecksIn \/ Completes
  <2>1. CASE FundVerify(w) \/ CancelVerify(w) \/ ConfirmVerify(w)
    BY <2>1, ChecksCalm DEF FundVerify, CancelVerify, ConfirmVerify, Kind
  <2>2. CASE FundCheck(w) \/ RefundCheck(w) \/ CheckInCheck(w) \/ ConfirmCheck(w)
    BY <2>2, ChecksCalm DEF FundCheck, RefundCheck, CheckInCheck, ConfirmCheck, Kind
  <2>3. CASE FindChallenge(w)
    <3>1. requests[w] \in Request
      BY <2>3, ServedType DEF FindChallenge
    <3>2. Answer(w) \/ requests' = [requests EXCEPT ![w].stage = "found"]
      BY <2>3 DEF FindChallenge, Proceed
    <3>3. QED
      BY <1>2, <3>1, <3>2, FoundCalm
  <2>4. CASE SpendChallenge(w)
    <3>1. CASE ~ challenges[requests[w].arg].consumed
      BY <2>4, <3>1 DEF SpendChallenge, Proceed, Spends
    <3>2. CASE challenges[requests[w].arg].consumed
      BY <1>2, <2>4, <3>2 DEF SpendChallenge
    <3>3. QED
      BY <3>1, <3>2
  <2>5. CASE CheckInUpdate(w)
    <3>1. CASE ~ StillIn(requests[w].id, "FUNDED")
      BY <1>2, <2>5, <3>1 DEF CheckInUpdate
    <3>2. CASE StillIn(requests[w].id, "FUNDED")
      <4>1. requests[w] \in Request /\ Good(requests[w]) /\ requests[w].stage = "checked"
        BY <2>5, ServedType DEF CheckInUpdate
      <4>2. /\ requests[w].id \in DOMAIN row /\ row[requests[w].id].status = "FUNDED"
            /\ row' = [row EXCEPT ![requests[w].id].status = "CHECKED_IN",
                                  ![requests[w].id].proof = requests[w].arg]
        BY <2>5, <3>2, <4>1 DEF CheckInUpdate, StillIn, Good
      <4>3. row # row'
        <5>1. row'[requests[w].id].status = "CHECKED_IN"
          BY <4>1, <4>2 DEF Base, TypeOK, Row
        <5>2. QED
          BY <4>2, <5>1
      <4>4. ~ Quiet
        BY <4>3 DEF Quiet
      <4>5. ChecksIn \/ Completes
        BY <2>5, <4>4, UpdateKind
      <4>6. QED
        BY <4>5
    <3>3. QED
      BY <3>1, <3>2
  <2>6. CASE ConfirmUpdate(w)
    <3>1. CASE ~ StillIn(requests[w].id, "CHECKED_IN")
      BY <1>2, <2>6, <3>1 DEF ConfirmUpdate
    <3>2. CASE StillIn(requests[w].id, "CHECKED_IN")
      <4>1. requests[w] \in Request /\ Good(requests[w]) /\ requests[w].stage = "checked"
        BY <2>6, ServedType DEF ConfirmUpdate
      <4>2. /\ requests[w].id \in DOMAIN row /\ row[requests[w].id].status = "CHECKED_IN"
            /\ row' = [row EXCEPT ![requests[w].id].status = "COMPLETED"]
        BY <2>6, <3>2, <4>1 DEF ConfirmUpdate, StillIn, SetStatus, Good
      <4>3. row # row'
        <5>1. row'[requests[w].id].status = "COMPLETED"
          BY <4>1, <4>2 DEF Base, TypeOK, Row
        <5>2. QED
          BY <4>2, <5>1
      <4>4. ~ Quiet
        BY <4>3 DEF Quiet
      <4>5. QED
        BY <2>6, <4>4, UpdateKind
    <3>3. QED
      BY <3>1, <3>2
  <2>7. CASE \/ FundCommit(w) \/ RefundCommit(w) \/ CheckInHistory(w) \/ ConfirmHistory(w)
             \/ InsertBooking(w)
    BY <1>2, <2>7 DEF FundCommit, RefundCommit, CheckInHistory, ConfirmHistory, InsertBooking
  <2>8. CASE FindSlot(w)
    <3>1. requests[w] \in Creation
      BY <2>8, CreationType DEF FindSlot
    <3>2. Answer(w) \/ requests' = [requests EXCEPT ![w].stage = "found"]
      BY <2>8 DEF FindSlot, Proceed
    <3>3. QED
      BY <1>2, <3>1, <3>2, FoundCalm
  <2>9. QED
    BY <1>3, <2>1, <2>2, <2>3, <2>4, <2>5, <2>6, <2>7, <2>8 DEF Serve
<1>4. CASE Post
  <2>1. ASSUME NEW w \in Worker, NEW kind, NEW id, NEW actor, NEW arg,
               Submit(w, kind, id, actor, arg)
        PROVE  AllCalm
    <3>1. PICK n : n = [kind |-> kind, id |-> id, actor |-> actor, arg |-> arg,
                        stage |-> "received"]
      OBVIOUS
    <3>2. requests' = [requests EXCEPT ![w] = n] /\ n.stage = "received"
      BY <2>1, <3>1 DEF Submit
    <3>3. QED
      BY <3>2, OneCalm
  <2>2. ASSUME NEW w \in Worker, NEW id, NEW slot, NEW renter, NEW host, NEW deposit,
               Create(w, id, slot, renter, host, deposit)
        PROVE  AllCalm
    <3>1. PICK n : /\ requests' = [requests EXCEPT ![w] = n]
                   /\ n.stage = "accepted"
      <4>1. PICK n : n = [kind |-> "create", id |-> id, actor |-> renter,
                          stage |-> "accepted",
                          arg |-> [slot |-> slot, host |-> host, deposit |-> deposit]]
        OBVIOUS
      <4>2. requests' = [requests EXCEPT ![w] = n] /\ n.stage = "accepted"
        BY <2>2, <4>1 DEF Create
      <4>3. QED
        BY <4>2
    <3>2. QED
      BY <3>1, OneCalm
  <2>3. QED
    BY <1>1, <1>4, <2>1, <2>2 DEF Post, IssueChallenge
<1>5. CASE Restart
  BY <1>5 DEF Restart, AllCalm, Calm
<1>6. ASSUME NEW w \in Worker, Fails(w)  PROVE AllCalm
  BY <1>2, <1>6 DEF Fails
<1>7. QED
  BY <1>1, <1>3, <1>4, <1>5, <1>6 DEF Next, Up, RpcCatchesUp, Tick, LedgerPublishes, apiVars, vars

----------------------------------------------------------------------------
(***************************************************************************)
(* A check-in stands for a code spent for it.                              *)
(***************************************************************************)
\* Worker v serves a check-in whose code is spent.
Past(v) ==
    /\ requests[v] # Idle /\ requests[v].kind = "check-in"
    /\ requests[v].stage \in {"verified", "checked", "updated"}

\* No code carries two of them.
OnePast == \A v, w \in Worker : Past(v) /\ Past(w) /\ requests[v].arg = requests[w].arg => v = w

\* A booking is checked in by a spent code of its own, which carries no other check-in.
Proven(id) ==
    /\ row[id].proof \in DOMAIN challenges
    /\ challenges[row[id].proof].consumed /\ challenges[row[id].proof].booking = id
    /\ \A v \in Worker : Past(v) /\ requests[v].arg = row[id].proof
                            => requests[v].stage = "updated"
Present == {"CHECKED_IN", "COMPLETED"}
Presence == OnePast /\ \A id \in DOMAIN row : row[id].status \in Present => Proven(id)

\* After a calm step a check-in past spending was past it before, with the same code.
LEMMA PastWas ==
    ASSUME Base, NEW v \in Worker, Calm(v), Past(v)'
    PROVE  /\ Past(v) /\ requests'[v].arg = requests[v].arg
           /\ requests[v].stage = "updated" => requests'[v].stage = "updated"
<1>1. /\ requests'[v] # Idle /\ requests'[v].kind = "check-in"
      /\ requests'[v].stage \in {"verified", "checked", "updated"}
  BY DEF Past
<1>2. \/ requests'[v] = requests[v]
      \/ /\ requests[v] # Idle /\ requests[v].stage = "verified"
         /\ requests'[v].stage = "checked"
         /\ requests'[v].kind = requests[v].kind /\ requests'[v].arg = requests[v].arg
  BY <1>1 DEF Calm
<1>3. QED
  BY <1>1, <1>2 DEF Past

\* A check-in past spending has spent its code.
LEMMA PastSpent ==
    ASSUME Base, NEW v \in Worker, Past(v)
    PROVE  /\ requests[v].arg \in DOMAIN challenges
           /\ challenges[requests[v].arg].consumed
           /\ challenges[requests[v].arg].booking = requests[v].id
BY DEF Base, Served, Good, Past

\* Only checking in and completing leave a booking in a state past the check-in.
LEMMA NoneArrives ==
    ASSUME Base, [Next]_vars, ~ ChecksIn, ~ Completes,
           NEW id \in DOMAIN row', row'[id].status \in Present
    PROVE  id \in DOMAIN row /\ row'[id] = row[id]
<1>1. CASE Quiet
  BY <1>1 DEF Quiet
<1>2. CASE Creates
  <2>1. PICK w \in Worker, new \in BookingRef, slot \in Slot, renter \in Account,
             host \in Account, deposit \in AskedDeposit :
                Inserts(w, new, slot, renter, host, deposit)
    BY <1>2 DEF Creates
  <2>2. PICK booking : booking = [slot |-> slot, renter |-> renter, host |-> host,
                                  deposit |-> deposit, status |-> "PENDING_FUNDING",
                                  proof |-> NoProof]
    OBVIOUS
  <2>3. row' = Put(row, new, booking) /\ booking.status = "PENDING_FUNDING"
    BY <2>1, <2>2 DEF Inserts
  <2>4. id # new
    BY <2>3 DEF Put, Present
  <2>5. QED
    BY <2>3, <2>4 DEF Put
<1>3. CASE Settles
  <2>1. PICK paid \in DOMAIN row, to \in {"FUNDED", "REFUNDED"} : SetStatus(paid, to)
    BY <1>3 DEF Settles, Pays
  <2>2. /\ DOMAIN row' = DOMAIN row /\ row'[paid].status = to
        /\ \A other \in DOMAIN row : other # paid => row'[other] = row[other]
    BY <2>1, StatusSet DEF SetStatus, Base, Status
  <2>3. QED
    BY <2>2 DEF Present
<1>4. CASE \E w \in Worker : CheckInHistory(w) \/ ConfirmHistory(w)
  BY <1>4 DEF CheckInHistory, ConfirmHistory
<1>5. QED
  BY <1>1, <1>2, <1>3, <1>4, StepKinds

\* A proof stays one while its code carries no check-in that did not.
LEMMA ProvenStays ==
    ASSUME Base, Kept, NEW id \in DOMAIN row, Proven(id), row[id].status \in Present,
           \A v \in Worker : Past(v)' /\ requests'[v].arg = row[id].proof
                               => requests'[v].stage = "updated"
    PROVE  Proven(id)'
<1>1. PICK n : n = row[id].proof
  OBVIOUS
<1>2. n # NoProof
  BY <1>1, WorkflowAssumption DEF Proven, Base, TypeOK, NoProof
<1>3. row'[id].proof = n
  BY <1>1, <1>2 DEF Kept, Grows, MovesAlongThePath
<1>4. /\ n \in DOMAIN challenges'
      /\ challenges'[n].consumed /\ challenges'[n].booking = id
  BY <1>1 DEF Kept, Grows, Proven
<1>5. \A v \in Worker : Past(v)' /\ requests'[v].arg = n => requests'[v].stage = "updated"
  BY <1>1
<1>6. QED
  BY <1>3, <1>4, <1>5 DEF Proven

\* A calm step lets no new check-in past spending.
LEMMA CalmPresence ==
    ASSUME Base, Kept, Presence, [Next]_vars, AllCalm, ~ ChecksIn, ~ Completes
    PROVE  Presence'
<1>1. ASSUME NEW v \in Worker, Past(v)'
      PROVE  /\ Past(v) /\ requests'[v].arg = requests[v].arg
             /\ requests[v].stage = "updated" => requests'[v].stage = "updated"
  BY <1>1, PastWas DEF AllCalm
<1>2. OnePast'
  BY <1>1 DEF Presence, OnePast
<1>3. ASSUME NEW id \in DOMAIN row', row'[id].status \in Present  PROVE Proven(id)'
  <2>1. id \in DOMAIN row /\ row[id].status \in Present
    BY <1>3, NoneArrives
  <2>2. Proven(id)
    BY <2>1 DEF Presence
  <2>3. \A v \in Worker : Past(v)' /\ requests'[v].arg = row[id].proof
                            => requests'[v].stage = "updated"
    BY <1>1, <2>2 DEF Proven
  <2>4. QED
    BY <2>1, <2>2, <2>3, ProvenStays
<1>4. QED
  BY <1>2, <1>3 DEF Presence, Present

\* A code is spent by nobody who comes after its first request.
LEMMA SpendPresence ==
    ASSUME Base, Kept, Presence, Spends
    PROVE  Presence'
<1>1. PICK w \in Worker :
         /\ Serves(w, "check-in", "found")
         /\ ~ challenges[requests[w].arg].consumed
         /\ requests' = [requests EXCEPT ![w].stage = "verified"]
         /\ UNCHANGED row
  BY DEF Spends
<1>2. /\ \A v \in Worker : v # w => requests'[v] = requests[v]
      /\ requests'[w].arg = requests[w].arg
  <2>1. requests[w] \in Request
    BY <1>1, ServedType
  <2>2. QED
    BY <1>1, <2>1 DEF Base, TypeOK, Request
<1>3. ASSUME NEW v \in Worker, v # w, Past(v)'
      PROVE  Past(v) /\ requests'[v] = requests[v] /\ requests[v].arg # requests[w].arg
  <2>1. Past(v) /\ requests'[v] = requests[v]
    BY <1>2, <1>3 DEF Past
  <2>2. QED
    BY <1>1, <2>1, PastSpent
<1>4. OnePast'
  <2> SUFFICES ASSUME NEW u \in Worker, NEW v \in Worker, Past(u)', Past(v)',
                      requests'[u].arg = requests'[v].arg
               PROVE  u = v
    BY DEF OnePast
  <2>1. CASE u = w
    BY <1>2, <1>3, <2>1
  <2>2. CASE v = w
    BY <1>2, <1>3, <2>2
  <2>3. CASE u # w /\ v # w
    BY <1>3, <2>3 DEF Presence, OnePast
  <2>4. QED
    BY <2>1, <2>2, <2>3
<1>5. ASSUME NEW id \in DOMAIN row', row'[id].status \in Present  PROVE Proven(id)'
  <2>1. id \in DOMAIN row /\ row[id].status \in Present
    BY <1>1, <1>5
  <2>2. Proven(id)
    BY <2>1 DEF Presence
  <2>3. requests[w].arg # row[id].proof
    BY <1>1, <2>2 DEF Proven
  <2>4. \A v \in Worker : Past(v)' /\ requests'[v].arg = row[id].proof
                            => requests'[v].stage = "updated"
    BY <1>2, <1>3, <2>2, <2>3 DEF Proven
  <2>5. QED
    BY <2>1, <2>2, <2>4, ProvenStays
<1>6. QED
  BY <1>4, <1>5 DEF Presence, Present

\* A check-in is proved by the code of its request, the only one that is past spending it.
LEMMA CheckInPresence ==
    ASSUME Base, Kept, Presence, ChecksIn
    PROVE  Presence'
<1>1. PICK w \in Worker, id \in BookingRef :
         /\ Serves(w, "check-in", "checked") /\ requests[w].id = id
         /\ Moves(id, "FUNDED", "CHECKED_IN")
         /\ row'[id].proof = requests[w].arg
         /\ requests' = [requests EXCEPT ![w].stage = "updated"]
         /\ UNCHANGED challenges
  BY DEF ChecksIn
<1>2. /\ requests[w] \in Request /\ requests[w] # Idle
      /\ requests[w].kind = "check-in" /\ requests[w].stage = "checked"
  BY <1>1, ServedType DEF Serves
<1>3. /\ \A v \in Worker : v # w => requests'[v] = requests[v]
      /\ requests'[w].arg = requests[w].arg /\ requests'[w].stage = "updated"
  BY <1>1, <1>2 DEF Base, TypeOK, Request
<1>4. Past(w)
  BY <1>2 DEF Past
<1>5. ASSUME NEW v \in Worker, Past(v)'
      PROVE  /\ Past(v) /\ requests'[v].arg = requests[v].arg
             /\ requests[v].stage = "updated" => requests'[v].stage = "updated"
  BY <1>3, <1>4, <1>5 DEF Past
<1>6. OnePast'
  BY <1>5 DEF Presence, OnePast
<1>7. ASSUME NEW other \in DOMAIN row', row'[other].status \in Present  PROVE Proven(other)'
  <2>1. CASE other = id
    <3>1. PICK n : n = requests[w].arg
      OBVIOUS
    <3>2. /\ n \in DOMAIN challenges /\ challenges[n].consumed /\ challenges[n].booking = id
      BY <1>1, <1>4, <3>1, PastSpent
    <3>3. row'[id].proof = n /\ challenges' = challenges
      BY <1>1, <3>1
    <3>4. \A v \in Worker : Past(v)' /\ requests'[v].arg = n => requests'[v].stage = "updated"
      BY <1>3, <1>4, <1>5, <3>1 DEF Presence, OnePast
    <3>5. QED
      BY <2>1, <3>2, <3>3, <3>4 DEF Proven
  <2>2. CASE other # id
    <3>1. other \in DOMAIN row /\ row[other].status \in Present
      BY <1>1, <1>7, <2>2 DEF Moves
    <3>2. Proven(other)
      BY <3>1 DEF Presence
    <3>3. \A v \in Worker : Past(v)' /\ requests'[v].arg = row[other].proof
                              => requests'[v].stage = "updated"
      BY <1>5, <3>2 DEF Proven
    <3>4. QED
      BY <3>1, <3>2, <3>3, ProvenStays
  <2>3. QED
    BY <2>1, <2>2
<1>8. QED
  BY <1>6, <1>7 DEF Presence, Present

\* A confirmation touches no code.
LEMMA CompletePresence ==
    ASSUME Base, Kept, Presence, Completes
    PROVE  Presence'
<1>1. PICK w \in Worker, id \in BookingRef :
         /\ Serves(w, "confirm", "checked")
         /\ Moves(id, "CHECKED_IN", "COMPLETED")
         /\ requests' = [requests EXCEPT ![w].stage = "updated"]
  BY DEF Completes
<1>2. requests[w] \in Request /\ requests[w].kind = "confirm"
  BY <1>1, ServedType
<1>3. /\ \A v \in Worker : v # w => requests'[v] = requests[v]
      /\ requests'[w].kind = "confirm"
  BY <1>1, <1>2 DEF Base, TypeOK, Request
<1>4. ASSUME NEW v \in Worker, Past(v)'  PROVE Past(v) /\ requests'[v] = requests[v]
  BY <1>3, <1>4 DEF Past
<1>5. OnePast'
  BY <1>4 DEF Presence, OnePast
<1>6. ASSUME NEW other \in DOMAIN row', row'[other].status \in Present  PROVE Proven(other)'
  <2>1. other \in DOMAIN row /\ row[other].status \in Present
    BY <1>1, <1>6 DEF Moves, Present
  <2>2. Proven(other)
    BY <2>1 DEF Presence
  <2>3. \A v \in Worker : Past(v)' /\ requests'[v].arg = row[other].proof
                            => requests'[v].stage = "updated"
    BY <1>4, <2>2 DEF Proven
  <2>4. QED
    BY <2>1, <2>2, <2>3, ProvenStays
<1>7. QED
  BY <1>5, <1>6 DEF Presence, Present

\* Presence holds of every state.
LEMMA PresenceInvariant == Spec => []Presence
<1>1. Init => Presence
  BY DEF Init, Presence, OnePast, Past
<1>2. Base /\ Presence /\ [Next]_vars => Presence'
  BY NextKept, RequestKinds, CalmPresence, SpendPresence, CheckInPresence, CompletePresence
<1>3. QED
  BY <1>1, <1>2, Invariant, PTL DEF Spec

\* Recorded presence rests on one code of the booking, spent once.
THEOREM PresenceProved == Spec => []PresenceIsProved
<1>1. Base /\ Presence => PresenceIsProved
  <2> SUFFICES ASSUME Base, Presence  PROVE PresenceIsProved
    OBVIOUS
  <2>1. ASSUME NEW n, NEW v \in Holders(n)
        PROVE  v \in Worker /\ Past(v) /\ requests[v].arg = n
    BY <2>1 DEF Holders, Past
  <2>2. ASSUME NEW id \in DOMAIN row, row[id].status \in Present
        PROVE  /\ row[id].proof \in DOMAIN challenges
               /\ challenges[row[id].proof].consumed /\ challenges[row[id].proof].booking = id
               /\ \A w \in Holders(row[id].proof) : requests[w].stage = "updated"
    BY <2>1, <2>2 DEF Presence, Proven
  <2>3. ASSUME NEW id \in DOMAIN row, row[id].status \notin Present
        PROVE  row[id].proof = NoProof
    BY <2>3 DEF Base, ProofFits, Present
  <2>4. ASSUME NEW n \in DOMAIN challenges
        PROVE  /\ Cardinality(Holders(n)) <= 1
               /\ Holders(n) # {} => challenges[n].consumed
    <3>1. CASE Holders(n) = {}
      BY <3>1, FS_EmptySet
    <3>2. CASE Holders(n) # {}
      <4>1. PICK v : v \in Holders(n)
        BY <3>2
      <4>2. Holders(n) = {v}
        BY <2>1, <4>1 DEF Presence, OnePast
      <4>3. Cardinality(Holders(n)) = 1
        BY <4>2, FS_Singleton
      <4>4. challenges[n].consumed
        BY <2>1, <4>1, PastSpent
      <4>5. QED
        BY <4>3, <4>4
    <3>3. QED
      BY <3>1, <3>2
  <2>5. QED
    BY <2>2, <2>3, <2>4 DEF PresenceIsProved, Present
<1>2. QED
  BY <1>1, Invariant, PresenceInvariant, PTL

----------------------------------------------------------------------------
(***************************************************************************)
(* The history tells no step that did not happen, and none twice.          *)
(***************************************************************************)
\* The history of id says that its booking reached this status.
Tells(id, to) == \E i \in DOMAIN history[id] : i > 1 /\ history[id][i].to = to

\* It says nothing but the path taken, once, and the payments.
Tale(id) ==
    /\ \A i \in DOMAIN history[id] : i > 1 =>
          /\ <<history[id][i].from, history[id][i].to>> \in Edge
          /\ history[id][i].to \in Passed(row[id].status)
          /\ history[id][i].to \in {"FUNDED", "REFUNDED"} =>
                \E p \in payments : p.booking = id /\ p.hash = history[id][i].hash
    /\ \A i, j \in DOMAIN history[id] :
          i > 1 /\ j > 1 /\ history[id][i].to = history[id][j].to => i = j

\* Worker v has moved the status of id and has yet to write so.
Waits(v, kind, id) ==
    /\ requests[v] # Idle /\ requests[v].kind = kind /\ requests[v].id = id
    /\ requests[v].stage = "updated"

\* No two wait to tell the same, and it has not been told.
Untold ==
    \A v \in Worker, id \in BookingRef :
        /\ \A w \in Worker, kind \in {"check-in", "confirm"} :
              Waits(v, kind, id) /\ Waits(w, kind, id) => v = w
        /\ Waits(v, "check-in", id) => ~ Tells(id, "CHECKED_IN")
        /\ Waits(v, "confirm", id) => ~ Tells(id, "COMPLETED")

Told == Untold /\ \A id \in DOMAIN row : Tale(id)

\* What a booking passed it has passed for good.
LEMMA PassedStays ==
    ASSUME NEW s \in Status, NEW t \in Status, s = t \/ <<s, t>> \in Edge
    PROVE  Passed(s) \subseteq Passed(t)
BY DEF Status, Edge, Passed

\* Bookings pass on, and payments stay.
Onward ==
    /\ \A id \in DOMAIN row :
          id \in DOMAIN row' /\ Passed(row[id].status) \subseteq Passed(row'[id].status)
    /\ payments \subseteq payments'

\* Every step goes onward.
LEMMA StepOnward ==
    ASSUME Base, Kept, [Next]_vars
    PROVE  Onward
<1>1. ASSUME NEW id \in DOMAIN row
      PROVE  id \in DOMAIN row' /\ Passed(row[id].status) \subseteq Passed(row'[id].status)
  <2>1. /\ id \in DOMAIN row'
        /\ row'[id].status = row[id].status \/ <<row[id].status, row'[id].status>> \in Edge
    BY DEF Kept, Grows, MovesAlongThePath
  <2>2. row[id].status \in Status /\ row'[id].status \in Status
    BY <2>1 DEF Base, Kept, TypeOK, Row
  <2>3. QED
    BY <2>1, <2>2, PassedStays
<1>2. payments \subseteq payments'
  <2>1. ASSUME Creates  PROVE UNCHANGED payments
    <3>1. PICK w \in Worker, id \in BookingRef, slot \in Slot, renter \in Account,
               host \in Account, deposit \in AskedDeposit :
                  Inserts(w, id, slot, renter, host, deposit)
      BY <2>1 DEF Creates
    <3>2. QED
      BY <3>1 DEF Inserts
  <2>2. Settles => payments \subseteq payments'
    BY DEF Settles, Pays, Paid
  <2>3. ChecksIn \/ Completes => UNCHANGED payments
    BY DEF ChecksIn, Completes, Moves
  <2>4. (\E w \in Worker : CheckInHistory(w) \/ ConfirmHistory(w)) => UNCHANGED payments
    BY DEF CheckInHistory, ConfirmHistory
  <2>5. QED
    BY <2>1, <2>2, <2>3, <2>4, StepKinds DEF Quiet
<1>3. QED
  BY <1>1, <1>2 DEF Onward

\* A history that is not written to stays as good as it is.
LEMMA TaleStays ==
    ASSUME Onward, NEW id \in DOMAIN row, Tale(id), history'[id] = history[id]
    PROVE  Tale(id)'
BY DEF Onward, Tale

\* An entry added to the history of id.
Adds(id, e) ==
    /\ e \in Entry
    /\ history'[id] = Append(history[id], e)
    /\ \A other \in BookingRef : other # id => history'[other] = history[other]

\* Record adds an entry.
LEMMA RecordAdds ==
    ASSUME Base, NEW id \in BookingRef, NEW from \in Status, NEW to \in Status,
           NEW actor \in Account, NEW hash \in Nat, Record(id, from, to, actor, hash)
    PROVE  \E e : Adds(id, e) /\ e.from = from /\ e.to = to /\ e.hash = hash
<1>1. PICK e : e = [from |-> from, to |-> to, actor |-> actor, hash |-> hash]
  OBVIOUS
<1>2. e \in Entry /\ e.from = from /\ e.to = to /\ e.hash = hash
  BY <1>1 DEF Entry
<1>3. history' = [history EXCEPT ![id] = Append(history[id], e)]
  BY <1>1 DEF Record
<1>4. Adds(id, e)
  BY <1>2, <1>3 DEF Adds, Base, TypeOK
<1>5. QED
  BY <1>2, <1>4

\* Such an entry is told from then on, and nothing else is.
LEMMA AddsTells ==
    ASSUME Base, NEW id \in BookingRef, NEW e, Adds(id, e),
           NEW other \in BookingRef, NEW to, Tells(other, to)'
    PROVE  Tells(other, to) \/ (other = id /\ e.to = to)
<1>1. CASE other # id
  BY <1>1 DEF Adds, Tells
<1>2. CASE other = id
  <2>1. PICK s \in Seq(Entry) : s = history[id]
    BY DEF Base, TypeOK
  <2>2. PICK i \in DOMAIN Append(s, e) : i > 1 /\ Append(s, e)[i].to = to
    BY <1>2, <2>1 DEF Adds, Tells
  <2>3. (i \in DOMAIN s /\ Append(s, e)[i] = s[i]) \/ Append(s, e)[i] = e
    BY <2>2 DEF Adds
  <2>4. QED
    BY <1>2, <2>1, <2>2, <2>3 DEF Tells
<1>3. QED
  BY <1>1, <1>2

\* A true entry that was not there keeps the history true.
LEMMA TaleGrows ==
    ASSUME Base, Onward, NEW id \in DOMAIN row, NEW e, Tale(id), Adds(id, e),
           <<e.from, e.to>> \in Edge, e.to \in Passed(row'[id].status), ~ Tells(id, e.to),
           e.to \in {"FUNDED", "REFUNDED"} =>
              \E p \in payments' : p.booking = id /\ p.hash = e.hash
    PROVE  Tale(id)'
<1>1. PICK s \in Seq(Entry) : s = history[id]
  BY DEF Base, TypeOK
<1>2. PICK t : t = Append(s, e)
  OBVIOUS
<1>3. history'[id] = t
  BY <1>1, <1>2 DEF Adds
<1>4. \A i \in DOMAIN t : (i \in DOMAIN s /\ t[i] = s[i]) \/ (i = Len(s) + 1 /\ t[i] = e)
  <2>1. e \in Entry
    BY DEF Adds
  <2>2. /\ t \in Seq(Entry) /\ Len(t) = Len(s) + 1
        /\ DOMAIN t = 1 .. Len(s) + 1 /\ DOMAIN s = 1 .. Len(s)
    BY <1>2, <2>1
  <2>3. \A i \in 1 .. Len(s) : t[i] = s[i]
    BY <1>2, <2>1
  <2>4. t[Len(s) + 1] = e
    BY <1>2, <2>1
  <2>5. QED
    BY <2>2, <2>3, <2>4
<1>5. ASSUME NEW i \in DOMAIN t, i > 1
      PROVE  /\ <<t[i].from, t[i].to>> \in Edge
             /\ t[i].to \in Passed(row'[id].status)
             /\ t[i].to \in {"FUNDED", "REFUNDED"} =>
                   \E p \in payments' : p.booking = id /\ p.hash = t[i].hash
  <2>1. CASE t[i] = e
    BY <2>1
  <2>2. CASE i \in DOMAIN s /\ t[i] = s[i]
    BY <1>1, <1>5, <2>2 DEF Tale, Onward
  <2>3. QED
    BY <1>4, <2>1, <2>2
<1>6. ASSUME NEW i \in DOMAIN t, NEW j \in DOMAIN t, i > 1, j > 1, t[i].to = t[j].to
      PROVE  i = j
  <2>1. \A k \in DOMAIN s : k > 1 => s[k].to # e.to
    BY <1>1 DEF Tells
  <2>2. \A k, l \in DOMAIN s : k > 1 /\ l > 1 /\ s[k].to = s[l].to => k = l
    BY <1>1 DEF Tale
  <2>3. QED
    BY <1>4, <1>6, <2>1, <2>2
<1>7. QED
  BY <1>3, <1>5, <1>6 DEF Tale

\* A calm step, and one that spends a code, leave nobody with more to tell.
LEMMA WaitedBefore ==
    ASSUME Base, AllCalm \/ Spends, NEW v \in Worker, NEW kind, NEW id, Waits(v, kind, id)'
    PROVE  Waits(v, kind, id)
<1>1. CASE AllCalm
  <2>1. Calm(v)
    BY <1>1 DEF AllCalm
  <2>2. requests'[v] # Idle /\ requests'[v].stage = "updated"
    BY DEF Waits
  <2>3. requests'[v] = requests[v]
    BY <2>1, <2>2 DEF Calm
  <2>4. QED
    BY <2>3 DEF Waits
<1>2. CASE Spends
  <2>1. PICK w \in Worker : /\ Serves(w, "check-in", "found")
                            /\ requests' = [requests EXCEPT ![w].stage = "verified"]
    BY <1>2 DEF Spends
  <2>2. requests[w] \in Request
    BY <2>1, ServedType
  <2>3. requests'[w].stage = "verified" /\ \A u \in Worker : u # w => requests'[u] = requests[u]
    BY <2>1, <2>2 DEF Base, TypeOK, Request
  <2>4. QED
    BY <2>3 DEF Waits
<1>3. QED
  BY <1>1, <1>2

\* What is told of none that still waits, while nobody new waits.
LEMMA UntoldStays ==
    ASSUME Untold,
           \A v \in Worker, id \in BookingRef, kind \in {"check-in", "confirm"} :
              Waits(v, kind, id)' => Waits(v, kind, id),
           \A v \in Worker, id \in BookingRef :
              /\ Waits(v, "check-in", id)' /\ Tells(id, "CHECKED_IN")' => Tells(id, "CHECKED_IN")
              /\ Waits(v, "confirm", id)' /\ Tells(id, "COMPLETED")' => Tells(id, "COMPLETED")
    PROVE  Untold'
<1>1. ASSUME NEW v \in Worker, NEW id \in BookingRef
      PROVE  /\ \A w \in Worker, kind \in {"check-in", "confirm"} :
                   Waits(v, kind, id)' /\ Waits(w, kind, id)' => v = w
             /\ Waits(v, "check-in", id)' => ~ Tells(id, "CHECKED_IN")'
             /\ Waits(v, "confirm", id)' => ~ Tells(id, "COMPLETED")'
  BY DEF Untold
<1>2. QED
  BY <1>1 DEF Untold

\* Steps that write nothing.
LEMMA QuietTold ==
    ASSUME Base, Onward, Told, Quiet, AllCalm \/ Spends
    PROVE  Told'
<1>1. UNCHANGED <<row, payments, history>>
  BY DEF Quiet
<1>2. \A id \in BookingRef, to \in Status : Tells(id, to)' => Tells(id, to)
  BY <1>1 DEF Tells
<1>3. Untold'
  BY <1>2, WaitedBefore, UntoldStays DEF Told, Status
<1>4. \A id \in DOMAIN row' : Tale(id)'
  BY <1>1, TaleStays DEF Told
<1>5. QED
  BY <1>3, <1>4 DEF Told

\* A new booking has one entry.
LEMMA CreateTold ==
    ASSUME Base, Onward, Told, Creates, AllCalm
    PROVE  Told'
<1>1. PICK w \in Worker, new \in BookingRef, slot \in Slot, renter \in Account,
           host \in Account, deposit \in AskedDeposit :
              Inserts(w, new, slot, renter, host, deposit)
  BY DEF Creates
<1>2. PICK e : history' = [history EXCEPT ![new] = <<e>>]
  BY <1>1 DEF Inserts
<1>3. /\ history'[new] = <<e>>
      /\ \A other \in BookingRef : other # new => history'[other] = history[other]
  BY <1>2 DEF Base, TypeOK
<1>4. \A i \in DOMAIN history'[new] : ~ (i > 1)
  BY <1>3
<1>5. \A id \in BookingRef, to \in Status : Tells(id, to)' => Tells(id, to)
  BY <1>3, <1>4 DEF Tells
<1>6. Untold'
  BY <1>5, WaitedBefore, UntoldStays DEF Told, Status
<1>7. ASSUME NEW id \in DOMAIN row'  PROVE Tale(id)'
  <2>1. CASE id = new
    BY <1>4, <2>1 DEF Tale
  <2>2. CASE id # new
    <3>1. id \in DOMAIN row /\ id \in BookingRef
      BY <1>1, <1>7, <2>2 DEF Inserts, Put, Base, TypeOK
    <3>2. QED
      BY <1>3, <2>2, <3>1, TaleStays DEF Told
  <2>3. QED
    BY <2>1, <2>2
<1>8. QED
  BY <1>6, <1>7 DEF Told

\* A true entry about id, which nobody waits to tell once it is written.
LEMMA AddsTold ==
    ASSUME Base, Onward, Told, NEW id \in DOMAIN row, NEW e, Adds(id, e),
           <<e.from, e.to>> \in Edge, e.to \in Passed(row'[id].status), ~ Tells(id, e.to),
           e.to \in {"FUNDED", "REFUNDED"} =>
              \E p \in payments' : p.booking = id /\ p.hash = e.hash,
           DOMAIN row' = DOMAIN row,
           \A v \in Worker, other \in BookingRef, kind \in {"check-in", "confirm"} :
              Waits(v, kind, other)' => Waits(v, kind, other),
           \A v \in Worker : e.to = "CHECKED_IN" => ~ Waits(v, "check-in", id)',
           \A v \in Worker : e.to = "COMPLETED" => ~ Waits(v, "confirm", id)'
    PROVE  Told'
<1>1. id \in BookingRef
  BY DEF Base, TypeOK
<1>2. ASSUME NEW v \in Worker, NEW other \in BookingRef
      PROVE  /\ Waits(v, "check-in", other)' /\ Tells(other, "CHECKED_IN")'
                   => Tells(other, "CHECKED_IN")
             /\ Waits(v, "confirm", other)' /\ Tells(other, "COMPLETED")'
                   => Tells(other, "COMPLETED")
  <2>1. \A to \in Status : Tells(other, to)' => Tells(other, to) \/ (other = id /\ e.to = to)
    BY <1>1, AddsTells
  <2>2. Tells(other, "CHECKED_IN")' =>
           Tells(other, "CHECKED_IN") \/ (other = id /\ e.to = "CHECKED_IN")
    BY <2>1 DEF Status
  <2>3. Tells(other, "COMPLETED")' =>
           Tells(other, "COMPLETED") \/ (other = id /\ e.to = "COMPLETED")
    BY <2>1 DEF Status
  <2>4. other = id => (Waits(v, "check-in", other)' <=> Waits(v, "check-in", id)')
    BY DEF Waits
  <2>5. other = id => (Waits(v, "confirm", other)' <=> Waits(v, "confirm", id)')
    BY DEF Waits
  <2>6. QED
    BY <2>2, <2>3, <2>4, <2>5
<1>3. Untold'
  BY <1>2, UntoldStays DEF Told
<1>4. ASSUME NEW other \in DOMAIN row'  PROVE Tale(other)'
  <2>1. CASE other = id
    <3>1. Tale(id)'
      BY TaleGrows DEF Told
    <3>2. QED
      BY <2>1, <3>1 DEF Tale
  <2>2. CASE other # id
    BY <1>4, <2>2, TaleStays DEF Told, Adds, Base, TypeOK
  <2>3. QED
    BY <2>1, <2>2
<1>5. QED
  BY <1>3, <1>4 DEF Told

\* The status a payment makes was not told before.
LEMMA PaysTold ==
    ASSUME Base, Onward, Told, AllCalm, NEW id \in BookingRef, NEW hash \in Nat,
           NEW from, NEW to, NEW kind, NEW event, Pays(id, hash, from, to, kind, event),
           \/ from = "PENDING_FUNDING" /\ to = "FUNDED"
           \/ from = "FUNDED" /\ to = "REFUNDED"
    PROVE  Told'
<1>1. /\ id \in DOMAIN row /\ row[id].status = from
      /\ SetStatus(id, to) /\ Paid(id, hash, kind)
  BY DEF Pays
<1>2. from \in Status /\ to \in Status /\ <<from, to>> \in Edge
  BY DEF Status, Edge
<1>3. PICK actor \in Account : Record(id, from, to, actor, hash)
  BY DEF Pays
<1>4. PICK e : Adds(id, e) /\ e.from = from /\ e.to = to /\ e.hash = hash
  BY <1>2, <1>3, RecordAdds
<1>5. DOMAIN row' = DOMAIN row /\ row'[id].status = to
  BY <1>1, <1>2, StatusSet DEF SetStatus, Base
<1>6. e.to \in Passed(row'[id].status)
  <2>1. to \in Passed(to)
    BY DEF Passed
  <2>2. QED
    BY <1>4, <1>5, <2>1
<1>7. ~ Tells(id, e.to)
  <2>1. to \notin Passed(from)
    BY DEF Passed
  <2>2. \A i \in DOMAIN history[id] : i > 1 => history[id][i].to \in Passed(from)
    BY <1>1 DEF Told, Tale
  <2>3. QED
    BY <1>4, <2>1, <2>2 DEF Tells
<1>8. \E p \in payments' : p.booking = id /\ p.hash = e.hash
  <2>1. PICK p : p = [booking |-> id, hash |-> hash, kind |-> kind, amount |-> row[id].deposit]
    OBVIOUS
  <2>2. p \in payments'
    BY <1>1, <2>1 DEF Paid
  <2>3. p.booking = id /\ p.hash = hash
    BY <2>1
  <2>4. QED
    BY <1>4, <2>2, <2>3
<1>9. \A v \in Worker, other \in BookingRef, kind1 \in {"check-in", "confirm"} :
         Waits(v, kind1, other)' => Waits(v, kind1, other)
  BY WaitedBefore
<1>10. e.to # "CHECKED_IN" /\ e.to # "COMPLETED"
  BY <1>4
<1>11. QED
  BY <1>1, <1>2, <1>4, <1>5, <1>6, <1>7, <1>8, <1>9, <1>10, AddsTold

\* An update that waits to be told, of a status no one has told or waits to tell.
LEMMA MovesTold ==
    ASSUME Base, Onward, Told, NEW w \in Worker, NEW kind, NEW id \in BookingRef,
           \/ kind = "check-in" /\ Moves(id, "FUNDED", "CHECKED_IN")
           \/ kind = "confirm" /\ Moves(id, "CHECKED_IN", "COMPLETED"),
           Serves(w, kind, "checked"), requests[w].id = id,
           requests' = [requests EXCEPT ![w].stage = "updated"]
    PROVE  Told'
<1>1. /\ id \in DOMAIN row /\ DOMAIN row' = DOMAIN row /\ history' = history
  BY DEF Moves
<1>2. requests[w] \in Request /\ requests[w].kind = kind
  BY ServedType
<1>3. /\ \A v \in Worker : v # w => requests'[v] = requests[v]
      /\ requests'[w].id = id /\ requests'[w].kind = kind
  BY <1>2 DEF Base, TypeOK, Request
<1>4. ASSUME NEW v \in Worker, NEW other \in BookingRef, NEW kind1, Waits(v, kind1, other)'
      PROVE  (v = w /\ kind1 = kind /\ other = id) \/ (v # w /\ Waits(v, kind1, other))
  BY <1>3, <1>4 DEF Waits
<1>5. \A v \in Worker : ~ Waits(v, kind, id)
  <2> SUFFICES ASSUME NEW v \in Worker, Waits(v, kind, id)  PROVE FALSE
    OBVIOUS
  <2>1. Good(requests[v]) /\ requests[v].kind = kind /\ requests[v].id = id
        /\ requests[v].stage = "updated"
    BY DEF Waits, Base, Served
  <2>2. \/ kind = "check-in" /\ row[id].status \in {"CHECKED_IN", "COMPLETED"}
        \/ kind = "confirm" /\ row[id].status = "COMPLETED"
    BY <2>1 DEF Good
  <2>3. QED
    BY <2>2 DEF Moves
<1>6. /\ kind = "check-in" => ~ Tells(id, "CHECKED_IN")
      /\ kind = "confirm" => ~ Tells(id, "COMPLETED")
  <2>1. \A i \in DOMAIN history[id] : i > 1 => history[id][i].to \in Passed(row[id].status)
    BY <1>1 DEF Told, Tale
  <2>2. /\ kind = "check-in" => "CHECKED_IN" \notin Passed(row[id].status)
        /\ kind = "confirm" => "COMPLETED" \notin Passed(row[id].status)
    BY DEF Moves, Passed
  <2>3. QED
    BY <2>1, <2>2 DEF Tells
<1>7. \A other \in BookingRef, to \in Status : Tells(other, to)' => Tells(other, to)
  BY <1>1 DEF Tells
<1>8. Untold'
  <2>1. ASSUME NEW v \in Worker, NEW other \in BookingRef
        PROVE  /\ \A u \in Worker, kind1 \in {"check-in", "confirm"} :
                     Waits(v, kind1, other)' /\ Waits(u, kind1, other)' => v = u
               /\ Waits(v, "check-in", other)' => ~ Tells(other, "CHECKED_IN")'
               /\ Waits(v, "confirm", other)' => ~ Tells(other, "COMPLETED")'
    <3>1. ASSUME NEW u \in Worker, NEW kind1 \in {"check-in", "confirm"},
                 Waits(v, kind1, other)', Waits(u, kind1, other)'
          PROVE  v = u
      <4>1. (v = w /\ kind1 = kind /\ other = id) \/ (v # w /\ Waits(v, kind1, other))
        BY <1>4, <3>1
      <4>2. (u = w /\ kind1 = kind /\ other = id) \/ (u # w /\ Waits(u, kind1, other))
        BY <1>4, <3>1
      <4>3. CASE v = w \/ u = w
        BY <1>5, <4>1, <4>2, <4>3
      <4>4. CASE v # w /\ u # w
        BY <4>1, <4>2, <4>4 DEF Told, Untold
      <4>5. QED
        BY <4>3, <4>4
    <3>2. Waits(v, "check-in", other)' => ~ Tells(other, "CHECKED_IN")'
      <4>1. Tells(other, "CHECKED_IN")' => Tells(other, "CHECKED_IN")
        BY <1>7 DEF Status
      <4>2. CASE v = w
        BY <1>4, <1>6, <4>1, <4>2
      <4>3. CASE v # w
        BY <1>4, <4>1, <4>3 DEF Told, Untold
      <4>4. QED
        BY <4>2, <4>3
    <3>3. Waits(v, "confirm", other)' => ~ Tells(other, "COMPLETED")'
      <4>1. Tells(other, "COMPLETED")' => Tells(other, "COMPLETED")
        BY <1>7 DEF Status
      <4>2. CASE v = w
        BY <1>4, <1>6, <4>1, <4>2
      <4>3. CASE v # w
        BY <1>4, <4>1, <4>3 DEF Told, Untold
      <4>4. QED
        BY <4>2, <4>3
    <3>4. QED
      BY <3>1, <3>2, <3>3
  <2>2. QED
    BY <2>1 DEF Untold
<1>9. \A other \in DOMAIN row' : Tale(other)'
  BY <1>1, TaleStays DEF Told
<1>10. QED
  BY <1>8, <1>9 DEF Told

\* What was waiting to be told is told, by the one who waited.
LEMMA HistoryTold ==
    ASSUME Base, Onward, Told, NEW w \in Worker, CheckInHistory(w) \/ ConfirmHistory(w)
    PROVE  Told'
<1>1. PICK r : r = requests[w]
  OBVIOUS
<1>2. /\ r \in Request /\ Good(r) /\ r.stage = "updated" /\ r # Idle
      /\ \/ r.kind = "check-in" /\ CheckInHistory(w)
         \/ r.kind = "confirm" /\ ConfirmHistory(w)
  BY <1>1, ServedType DEF CheckInHistory, ConfirmHistory, Serves
<1>3. PICK id \in BookingRef : id = r.id
  BY <1>2 DEF Request
<1>4. id \in DOMAIN row /\ row' = row
  BY <1>2, <1>3 DEF Good, CheckInHistory, ConfirmHistory
<1>5. r.actor \in Account /\ r.arg \in Nat
  BY <1>2 DEF Request
<1>6. /\ requests'[w] = Idle
      /\ \A v \in Worker : v # w => requests'[v] = requests[v]
  BY <1>2 DEF CheckInHistory, ConfirmHistory, Answer, Base, TypeOK
<1>7. \A v \in Worker, other \in BookingRef, kind \in {"check-in", "confirm"} :
         Waits(v, kind, other)' => Waits(v, kind, other) /\ v # w
  BY <1>6 DEF Waits
<1>8. \A v \in Worker : ~ Waits(v, r.kind, id)'
  <2>1. Waits(w, r.kind, id)
    BY <1>1, <1>2, <1>3 DEF Waits
  <2>2. r.kind \in {"check-in", "confirm"}
    BY <1>2
  <2>3. \A v \in Worker : Waits(v, r.kind, id) => v = w
    BY <2>1, <2>2 DEF Told, Untold
  <2>4. QED
    BY <1>7, <2>2, <2>3
<1>9. CASE r.kind = "check-in"
  <2>1. Record(id, "FUNDED", "CHECKED_IN", r.actor, NoHash)
    BY <1>1, <1>2, <1>3, <1>9 DEF CheckInHistory
  <2>2. PICK e : Adds(id, e) /\ e.from = "FUNDED" /\ e.to = "CHECKED_IN"
    BY <1>5, <2>1, RecordAdds DEF Status, NoHash
  <2>3. ~ Tells(id, "CHECKED_IN")
    BY <1>1, <1>2, <1>3, <1>9 DEF Told, Untold, Waits
  <2>4. "CHECKED_IN" \in Passed(row'[id].status)
    BY <1>2, <1>3, <1>4, <1>9 DEF Good, Passed
  <2>5. <<e.from, e.to>> \in Edge /\ e.to \notin {"FUNDED", "REFUNDED"} /\ e.to # "COMPLETED"
    BY <2>2 DEF Edge
  <2>6. \A v \in Worker : ~ Waits(v, "check-in", id)'
    BY <1>8, <1>9
  <2>7. ~ Tells(id, e.to) /\ e.to \in Passed(row'[id].status)
    BY <2>2, <2>3, <2>4
  <2>8. QED
    BY <1>4, <1>7, <2>2, <2>5, <2>6, <2>7, AddsTold
<1>10. CASE r.kind = "confirm"
  <2>1. Record(id, "CHECKED_IN", "COMPLETED", r.actor, r.arg)
    BY <1>1, <1>2, <1>3, <1>10 DEF ConfirmHistory
  <2>2. PICK e : Adds(id, e) /\ e.from = "CHECKED_IN" /\ e.to = "COMPLETED"
    BY <1>5, <2>1, RecordAdds DEF Status
  <2>3. ~ Tells(id, "COMPLETED")
    BY <1>1, <1>2, <1>3, <1>10 DEF Told, Untold, Waits
  <2>4. "COMPLETED" \in Passed(row'[id].status)
    BY <1>2, <1>3, <1>4, <1>10 DEF Good, Passed
  <2>5. <<e.from, e.to>> \in Edge /\ e.to \notin {"FUNDED", "REFUNDED"} /\ e.to # "CHECKED_IN"
    BY <2>2 DEF Edge
  <2>6. \A v \in Worker : ~ Waits(v, "confirm", id)'
    BY <1>8, <1>10
  <2>7. ~ Tells(id, e.to) /\ e.to \in Passed(row'[id].status)
    BY <2>2, <2>3, <2>4
  <2>8. QED
    BY <1>4, <1>7, <2>2, <2>5, <2>6, <2>7, AddsTold
<1>11. QED
  BY <1>2, <1>9, <1>10

\* Every step keeps what is told true.
LEMMA StepTold ==
    ASSUME Base, Told, [Next]_vars
    PROVE  Told'
<1>1. Onward
  BY NextKept, StepOnward
<1>2. CASE ChecksIn
  BY <1>1, <1>2, MovesTold DEF ChecksIn
<1>3. CASE Completes
  BY <1>1, <1>3, MovesTold DEF Completes
<1>4. CASE Spends
  BY <1>1, <1>4, QuietTold DEF Spends, Quiet
<1>5. CASE AllCalm /\ Settles
  BY <1>1, <1>5, PaysTold DEF Settles
<1>6. CASE AllCalm /\ \E w \in Worker : CheckInHistory(w) \/ ConfirmHistory(w)
  BY <1>1, <1>6, HistoryTold
<1>7. CASE AllCalm /\ (Quiet \/ Creates)
  BY <1>1, <1>7, QuietTold, CreateTold
<1>8. QED
  BY <1>2, <1>3, <1>4, <1>5, <1>6, <1>7, StepKinds, RequestKinds

\* The history of a booking never tells a step it did not take, nor one twice, and the
\* entry of a funding or a refund carries the hash of a payment kept for that booking.
THEOREM HistoryTrue == Spec => []HistoryNeverLies
<1>1. Init => Told
  BY DEF Init, Told, Untold, Waits
<1>2. Base /\ Told /\ [Next]_vars => Told'
  BY StepTold
<1>3. Told => HistoryNeverLies
  BY DEF Told, Tale, HistoryNeverLies
<1>4. QED
  BY <1>1, <1>2, <1>3, Invariant, PTL DEF Spec
=============================================================================
