-------------------------- MODULE MCEscrowContract --------------------------
(***************************************************************************)
(* EscrowContract for TLC.  Deposits are offered on both sides of both     *)
(* bounds, visit times up to the last ledger.                              *)
(***************************************************************************)
EXTENDS EscrowContract, TLC

MCOfferedDeposit == MinDeposit - 1 .. MaxDeposit + 1
MCOfferedVisit == 1 .. MaxTime

\* Addresses and tokens are only ever compared.
Symmetry == Permutations(Account) \cup Permutations(Asset)
=============================================================================
