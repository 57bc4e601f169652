--------------------------- MODULE DepositPromise ---------------------------
(***************************************************************************)
(* What the visit-deposit escrow promises its users, with no contract in   *)
(* it: no storage, no archival, and no escrow account that might run short.*)
(* A deposit leaves its renter's wallet at most once, for the amount the   *)
(* renter agreed to, and the only wallet it ever goes to is that renter's: *)
(* at the renter's wish before the visit, at the host's word from the      *)
(* visit on.  EscrowContract implements this specification.                *)
(***************************************************************************)
EXTENDS Integers

CONSTANTS Id,           \* the bookings that can be agreed
          Party,        \* renters and hosts
          Currency,     \* the currencies a wallet holds
          Amount,       \* the deposits that can be agreed
          Time          \* the visit times that can be agreed

VARIABLES clock,        \* the time everybody goes by
          currency,     \* the set of the currency deposits are made in, {} until it is chosen
          agreement,    \* what was agreed, a function on the bookings agreed so far
          stage,        \* how far each of them is
          wallet        \* what each party holds of each currency

vars == <<clock, currency, agreement, stage, wallet>>

Agreement == [renter : Party, host : Party, amount : Amount, visit : Time]

Init ==
    /\ clock = 0
    /\ currency = {}
    /\ agreement = <<>>
    /\ stage = <<>>
    /\ wallet \in [Currency -> [Party -> Nat]]

----------------------------------------------------------------------------
With(f, i, x) == [j \in DOMAIN f \cup {i} |-> IF j = i THEN x ELSE f[j]]

ChooseCurrency ==
    /\ currency = {}
    /\ currency' \in {{c} : c \in Currency}
    /\ UNCHANGED <<clock, agreement, stage, wallet>>

Agree(i) ==
    /\ currency # {}
    /\ i \notin DOMAIN agreement
    /\ \E terms \in Agreement :
          /\ terms.renter # terms.host
          /\ terms.visit > clock
          /\ agreement' = With(agreement, i, terms)
    /\ stage' = With(stage, i, "agreed")
    /\ UNCHANGED <<clock, currency, wallet>>

\* The renter's wallet changes by the agreed amount, out (-1) or back in (1).
Pay(i, sign) ==
    \E c \in currency :
        wallet' = [wallet EXCEPT ![c][agreement[i].renter] =
                                    @ + sign * agreement[i].amount]

Deposit(i) ==
    /\ stage[i] = "agreed"
    /\ Pay(i, -1)
    /\ stage' = With(stage, i, "held")
    /\ UNCHANGED <<clock, currency, agreement>>

\* Cancelled before any deposit was made: nothing to give back.
CallOff(i) ==
    /\ stage[i] = "agreed"
    /\ clock < agreement[i].visit
    /\ stage' = With(stage, i, "over")
    /\ UNCHANGED <<clock, currency, agreement, wallet>>

\* Before the visit the renter takes the deposit back ...
TakeBack(i) ==
    /\ stage[i] = "held"
    /\ clock < agreement[i].visit
    /\ Pay(i, 1)
    /\ stage' = With(stage, i, "over")
    /\ UNCHANGED <<clock, currency, agreement>>

\* ... and from the visit on the host gives it back.
GiveBack(i) ==
    /\ stage[i] = "held"
    /\ clock >= agreement[i].visit
    /\ Pay(i, 1)
    /\ stage' = With(stage, i, "over")
    /\ UNCHANGED <<clock, currency, agreement>>

\* What a party does with its own money is its own affair: p pays, others may gain.
Spend(p) ==
    /\ \E c \in Currency :
          /\ \A d \in Currency \ {c} : wallet'[d] = wallet[d]
          /\ wallet'[c][p] < wallet[c][p]
          /\ \A q \in Party \ {p} : wallet'[c][q] >= wallet[c][q]
    /\ UNCHANGED <<clock, currency, agreement, stage>>

Tick ==
    /\ clock' = clock + 1
    /\ UNCHANGED <<currency, agreement, stage, wallet>>

Next ==
    \/ ChooseCurrency
    \/ Tick
    \/ \E p \in Party : Spend(p)
    \/ \E i \in Id : Agree(i)
    \/ \E i \in DOMAIN agreement : Deposit(i) \/ CallOff(i) \/ TakeBack(i) \/ GiveBack(i)

Spec == Init /\ [][Next]_vars
=============================================================================
