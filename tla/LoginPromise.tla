---------------------------- MODULE LoginPromise ----------------------------
(***************************************************************************)
(* What logging in with a wallet promises, with no processes, no tables and*)
(* no clock in it: a challenge is issued to one wallet, and it opens one   *)
(* session, for that wallet, and only if that wallet has signed it.        *)
(* WalletAuth implements this specification; WalletPages relies on it.     *)
(***************************************************************************)
EXTENDS Sequences

CONSTANTS ChallengeId, Wallet

VARIABLES issued,   \* the wallet of each challenge issued
          signed,   \* who has signed which challenge
          opened    \* the sessions opened, in order

Init ==
    /\ issued = <<>>
    /\ signed = {}
    /\ opened = <<>>

Issue(id, a) ==
    /\ id \notin DOMAIN issued
    /\ issued' = [x \in DOMAIN issued \cup {id} |-> IF x = id THEN a ELSE issued[x]]
    /\ UNCHANGED <<signed, opened>>

\* Anybody may sign anything.
Sign(a, id) ==
    /\ id \in DOMAIN issued
    /\ signed' = signed \cup {[by |-> a, id |-> id]}
    /\ UNCHANGED <<issued, opened>>

Open(id) ==
    /\ id \in DOMAIN issued
    /\ \A i \in DOMAIN opened : opened[i].challenge # id
    /\ [by |-> issued[id], id |-> id] \in signed
    /\ opened' = Append(opened, [address |-> issued[id], challenge |-> id])
    /\ UNCHANGED <<issued, signed>>

Next ==
    \E id \in ChallengeId :
        \/ \E a \in Wallet : Issue(id, a) \/ Sign(a, id)
        \/ Open(id)

Spec == Init /\ [][Next]_<<issued, signed, opened>>
=============================================================================
