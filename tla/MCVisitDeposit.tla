--------------------------- MODULE MCVisitDeposit ---------------------------
(***************************************************************************)
(* VisitDeposit for TLC: one viewing slot of MCHost, one and a half units  *)
(* of the clock from its start, which the contract takes for 1.            *)
(***************************************************************************)
EXTENDS VisitDeposit, TLC

CONSTANTS MCRenter, MCHost    \* the two accounts

Refs == {1}
OneEscrow == [id \in Refs |-> 1]
Starts == [s \in Slot |-> 3]
Hosts == [s \in Slot |-> MCHost]
Visits == {1}

\* Deposits the API takes: of these the contract takes only the one in the middle.
Deposits == 1 .. 3

\* Workers are only ever compared.
Symmetry == Permutations(Worker)
=============================================================================
