--------------------------- MODULE MCWalletPages ---------------------------
(***************************************************************************)
(* WalletPages for TLC.                                                    *)
(***************************************************************************)
EXTENDS WalletPages, TLC

\* Wallets, ids and connections are only ever compared, and so are the tabs but for
\* the one whose pages are used.
Symmetry == Permutations(Try) \cup Permutations(Wallet) \cup Permutations(ChallengeId)
=============================================================================
