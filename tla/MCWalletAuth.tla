---------------------------- MODULE MCWalletAuth ----------------------------
(***************************************************************************)
(* WalletAuth for TLC.                                                     *)
(***************************************************************************)
EXTENDS WalletAuth, TLC

\* Processes, workers, ids and wallets are only ever compared.
Symmetry ==
    Permutations(Process) \cup Permutations(Worker)
        \cup Permutations(ChallengeId) \cup Permutations(Wallet)
=============================================================================
