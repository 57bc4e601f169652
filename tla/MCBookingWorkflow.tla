------------------------- MODULE MCBookingWorkflow -------------------------
(***************************************************************************)
(* BookingWorkflow for TLC.  Booking ids are numbers; two of them may share*)
(* the half the on-chain id is made of.                                    *)
(***************************************************************************)
EXTENDS BookingWorkflow, TLC

CONSTANTS MCRenter, MCHost    \* the two accounts

\* One booking, one escrow.
OneRef == {1}
OneOnChain == [id \in OneRef |-> 1]

\* Three ids, of which 1 and 3 collide on the chain.
ThreeRefs == 1 .. 3
TwoChainIds == 1 .. 2
TwoOnChain == [id \in ThreeRefs |-> IF id = 2 THEN 2 ELSE 1]

\* All slots belong to MCHost and start at time 1.
Starts == [s \in Slot |-> 1]
Hosts == [s \in Slot |-> MCHost]

Deposits == 0 .. 2

\* Bound: requests to book meet in a rush for the slots, before anything is paid for;
\* from then on the API serves one request at a time.
Quiet == \A w \in Worker : requests[w] = Idle
RushThenOneByOne ==
    \/ (txs = <<>> \/ Quiet) /\ Post
    \/ \E w \in Worker : Serve(w) \/ Fails(w)
    \/ RpcCatchesUp
    \/ Restart
    \/ /\ txs # <<>> \/ Quiet
       /\ \E c \in ChainId,
             event \in {"BookingCreated", "BookingFunded", "DepositRefunded", "VisitConfirmed"} :
             LedgerPublishes(c, event)
RushSpec == Init /\ [][RushThenOneByOne]_vars

\* Workers and slots are only ever compared.
Symmetry == Permutations(Worker) \cup Permutations(Slot)
=============================================================================
