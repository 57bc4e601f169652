------------------------ MODULE EscrowPromise_proofs ------------------------
(***************************************************************************)
(* The escrow contract implements DepositPromise, for any number of        *)
(* bookings, accounts and tokens.                                          *)
(***************************************************************************)
EXTENDS EscrowContract_proofs

----------------------------------------------------------------------------
(***************************************************************************)
(* What the promise sees of the contract.                                  *)
(***************************************************************************)
Seen == <<now, Chosen, Agreed, Stages, Wallets>>

\* The promise's variables after a step are those of the state after it.
LEMMA SeenNext ==
    /\ Agreed' = [b \in DOMAIN bookings' |-> Terms(bookings'[b])]
    /\ Stages' = [b \in DOMAIN bookings' |-> stageOf(bookings'[b].state)]
    /\ Wallets' = [a \in Asset |-> [p \in Account |-> balance'[a][p]]]
    /\ Chosen' = {asset'} \ {NoAsset}
BY DEF Agreed, Stages, Wallets, Chosen

\* A booking that moves on keeps what was agreed, and its stage alone changes.
LEMMA StageMoves ==
    ASSUME Typed, NEW b \in DOMAIN bookings, NEW state \in BookingState, SetState(b, state)
    PROVE  /\ Agreed' = Agreed
           /\ Stages' = [c \in DOMAIN Stages \cup {b} |->
                            IF c = b THEN stageOf(state) ELSE Stages[c]]
<1>1. /\ DOMAIN bookings' = DOMAIN bookings
      /\ \A c \in DOMAIN bookings : c # b => bookings'[c] = bookings[c]
      /\ bookings'[b] = [bookings[b] EXCEPT !.state = state]
  BY SetStateType DEF Typed
<1>2. bookings[b] \in Booking
  BY DEF Typed, TypeOK
<1>3. /\ bookings'[b].state = state
      /\ Terms(bookings'[b]) = Terms(bookings[b])
  BY <1>1, <1>2 DEF Booking, Terms
<1>4. Agreed' = Agreed
  <2>1. ASSUME NEW c \in DOMAIN bookings  PROVE Terms(bookings'[c]) = Terms(bookings[c])
    BY <1>1, <1>3
  <2>2. QED
    BY <1>1, <2>1, SeenNext DEF Agreed
<1>5. Stages' = [c \in DOMAIN Stages \cup {b} |->
                    IF c = b THEN stageOf(state) ELSE Stages[c]]
  <2>1. ASSUME NEW c \in DOMAIN bookings
        PROVE  stageOf(bookings'[c].state) = IF c = b THEN stageOf(state) ELSE Stages[c]
    BY <1>1, <1>3 DEF Stages
  <2>2. DOMAIN Stages = DOMAIN bookings
    BY DEF Stages
  <2>3. QED
    BY <1>1, <2>1, <2>2, SeenNext
<1>6. QED
  BY <1>4, <1>5

\* A deposit paid in or out moves one wallet, by its amount.
LEMMA WalletMoves ==
    ASSUME Typed, asset \in Asset, NEW who \in Account, NEW amount \in Nat
    PROVE  /\ Transfer(who, Escrow, amount) =>
                  Wallets' = [Wallets EXCEPT ![asset][who] = @ + (-1) * amount]
           /\ Transfer(Escrow, who, amount) =>
                  Wallets' = [Wallets EXCEPT ![asset][who] = @ + 1 * amount]
<1>1. /\ balance \in [Asset -> [Holder -> Nat]] /\ who # Escrow
      /\ who \in Holder /\ Escrow \in Holder /\ Account \subseteq Holder /\ Escrow \notin Account
  BY ConstantsAssumption DEF Typed, TypeOK, Holder
<1>2. ASSUME NEW d \in Int,
             \A a \in Asset, p \in Account :
                 balance'[a][p] = IF a = asset /\ p = who THEN balance[a][p] + d
                                  ELSE balance[a][p]
      PROVE  Wallets' = [Wallets EXCEPT ![asset][who] = @ + d]
  <2>1. [Wallets EXCEPT ![asset][who] = @ + d]
           = [a \in Asset |-> [p \in Account |-> IF a = asset /\ p = who
                                                 THEN balance[a][p] + d ELSE balance[a][p]]]
    BY DEF Wallets
  <2>2. ASSUME NEW a \in Asset
        PROVE  [p \in Account |-> balance'[a][p]]
                  = [p \in Account |-> IF a = asset /\ p = who
                                       THEN balance[a][p] + d ELSE balance[a][p]]
    BY <1>2
  <2>3. Wallets' = [a \in Asset |-> [p \in Account |-> IF a = asset /\ p = who
                                                     THEN balance[a][p] + d ELSE balance[a][p]]]
    BY <2>2, SeenNext
  <2>4. QED
    BY <2>1, <2>3
<1>3. ASSUME Transfer(who, Escrow, amount)
      PROVE  Wallets' = [Wallets EXCEPT ![asset][who] = @ + (-1) * amount]
  <2>1. \A a \in Asset, p \in Account :
           balance'[a][p] = IF a = asset /\ p = who THEN balance[a][p] + (-1) * amount
                            ELSE balance[a][p]
    BY <1>1, <1>3 DEF Transfer
  <2>2. PICK d \in Int : d = (-1) * amount
    OBVIOUS
  <2>3. Wallets' = [Wallets EXCEPT ![asset][who] = @ + d]
    BY <1>2, <2>1, <2>2
  <2>4. QED
    BY <2>2, <2>3
<1>4. ASSUME Transfer(Escrow, who, amount)
      PROVE  Wallets' = [Wallets EXCEPT ![asset][who] = @ + 1 * amount]
  <2>1. \A a \in Asset, p \in Account :
           balance'[a][p] = IF a = asset /\ p = who THEN balance[a][p] + 1 * amount
                            ELSE balance[a][p]
    BY <1>1, <1>4 DEF Transfer
  <2>2. PICK d \in Int : d = 1 * amount
    OBVIOUS
  <2>3. Wallets' = [Wallets EXCEPT ![asset][who] = @ + d]
    BY <1>2, <2>1, <2>2
  <2>4. QED
    BY <2>2, <2>3
<1>5. QED
  BY <1>3, <1>4

----------------------------------------------------------------------------
(***************************************************************************)
(* Every step is one of the promise, or is not seen.                       *)
(***************************************************************************)
\* Setting the accepted asset chooses the currency.
LEMMA InitializeKeepsPromise ==
    ASSUME NEW a \in Asset, Initialize(a)
    PROVE  Promise!ChooseCurrency
<1>1. /\ asset = NoAsset /\ asset' = a /\ a # NoAsset
      /\ UNCHANGED <<bookings, balance, now>>
  BY ConstantsAssumption DEF Initialize
<1>2. Chosen = {} /\ Chosen' = {a}
  BY <1>1 DEF Chosen
<1>3. UNCHANGED <<now, Agreed, Stages, Wallets>>
  BY <1>1 DEF Agreed, Stages, Wallets
<1>4. QED
  BY <1>2, <1>3 DEF Promise!ChooseCurrency

\* A booking created is agreed, on terms the contract accepts.
LEMMA CreateKeepsPromise ==
    ASSUME Typed, NEW b \in BookingId, NEW renter \in Account, NEW host \in Account,
           NEW amount, NEW visit \in OfferedVisit,
           CreateBooking(b, renter, host, amount, visit)
    PROVE  /\ Promise!Agree(b)
           /\ Agreed'[b] = [renter |-> renter, host |-> host, amount |-> amount,
                            visit |-> visit]
<1> DEFINE new == [renter |-> renter, host |-> host, deposit_amount |-> amount,
                   visit_time |-> visit, state |-> "Created"]
           terms == [renter |-> renter, host |-> host, amount |-> amount, visit |-> visit]
<1>2. /\ b \notin DOMAIN bookings /\ asset # NoAsset
      /\ renter # host /\ amount \in MinDeposit .. MaxDeposit /\ visit > now
      /\ bookings' = [c \in DOMAIN bookings \cup {b} |-> IF c = b THEN new ELSE bookings[c]]
      /\ UNCHANGED <<asset, balance, now>>
  BY DEF CreateBooking, Initialized
<1>3. Terms(new) = terms /\ new.state = "Created"
  BY DEF Terms
<1>4. terms \in Promise!Agreement /\ terms.renter # terms.host /\ terms.visit > now
  BY <1>2 DEF Promise!Agreement
<1> HIDE DEF new, terms
<1>5. Agreed' = [c \in DOMAIN Agreed \cup {b} |-> IF c = b THEN terms ELSE Agreed[c]]
  <2>1. ASSUME NEW c \in DOMAIN bookings'
        PROVE  Terms(bookings'[c]) = IF c = b THEN terms ELSE Agreed[c]
    BY <1>2, <1>3 DEF Agreed
  <2>2. DOMAIN bookings' = DOMAIN Agreed \cup {b}
    BY <1>2 DEF Agreed
  <2>3. QED
    BY <2>1, <2>2, SeenNext
<1>6. Stages' = [c \in DOMAIN Stages \cup {b} |-> IF c = b THEN "agreed" ELSE Stages[c]]
  <2>1. ASSUME NEW c \in DOMAIN bookings'
        PROVE  stageOf(bookings'[c].state) = IF c = b THEN "agreed" ELSE Stages[c]
    BY <1>2, <1>3 DEF Stages, stageOf
  <2>2. DOMAIN bookings' = DOMAIN Stages \cup {b}
    BY <1>2 DEF Stages
  <2>3. QED
    BY <2>1, <2>2, SeenNext
<1>7. Chosen # {} /\ UNCHANGED <<now, Chosen, Wallets>> /\ b \notin DOMAIN Agreed
  BY <1>2 DEF Chosen, Wallets, Agreed
<1>8. Promise!Agree(b)
  BY <1>4, <1>5, <1>6, <1>7 DEF Promise!Agree, Promise!With
<1>9. Agreed'[b] = terms
  BY <1>5
<1>10. QED
  BY <1>8, <1>9 DEF terms

\* Paying in is a deposit, a refund takes it back or calls the visit off, and a
\* confirmed visit gives it back.
LEMMA CallKeepsPromise ==
    ASSUME Typed, NEW b \in BookingId, NEW caller \in Account,
           FundBooking(caller, b) \/ CancelBooking(caller, b) \/ ConfirmVisit(caller, b)
    PROVE  /\ b \in DOMAIN bookings
           /\ FundBooking(caller, b) => Promise!Deposit(b)
           /\ CancelBooking(caller, b) =>
                 \/ bookings[b].state = "Created" /\ Promise!CallOff(b)
                 \/ bookings[b].state = "Funded" /\ Promise!TakeBack(b)
           /\ ConfirmVisit(caller, b) => Promise!GiveBack(b)
<1> DEFINE amount == bookings[b].deposit_amount
           renter == bookings[b].renter
<1>1. /\ b \in DOMAIN bookings /\ asset \in Asset /\ UNCHANGED <<asset, now>>
      /\ bookings[b] \in Booking /\ amount \in Nat /\ renter \in Account
  BY ConstantsAssumption DEF FundBooking, CancelBooking, ConfirmVisit, read_booking, EntryLive,
     Typed, TypeOK, AssetIsSet, Booking
<1>2. asset # NoAsset
  BY <1>1, ConstantsAssumption
<1>3. PICK c \in Chosen : c = asset
  BY <1>2 DEF Chosen
<1>4. /\ Agreed[b].renter = renter /\ Agreed[b].amount = amount
      /\ Agreed[b].visit = bookings[b].visit_time
      /\ Stages[b] = stageOf(bookings[b].state)
      /\ Chosen' = Chosen
  BY <1>1 DEF Agreed, Stages, Terms, Chosen
<1>5. ASSUME NEW state \in BookingState, SetState(b, state)
      PROVE  /\ Agreed' = Agreed
             /\ Stages' = [d \in DOMAIN Stages \cup {b} |->
                              IF d = b THEN stageOf(state) ELSE Stages[d]]
  BY <1>1, <1>5, StageMoves
<1>6. ASSUME FundBooking(caller, b)  PROVE Promise!Deposit(b)
  <2>1. /\ caller = renter /\ bookings[b].state = "Created"
        /\ Transfer(renter, Escrow, amount) /\ SetState(b, "Funded")
    BY <1>6 DEF FundBooking
  <2>2. Wallets' = [Wallets EXCEPT ![c][Agreed[b].renter] = @ + (-1) * Agreed[b].amount]
    BY <1>1, <1>3, <1>4, <2>1, WalletMoves
  <2>3. /\ Agreed' = Agreed /\ Stages[b] = "agreed"
        /\ Stages' = [d \in DOMAIN Stages \cup {b} |-> IF d = b THEN "held" ELSE Stages[d]]
    BY <1>4, <1>5, <2>1 DEF BookingState, stageOf
  <2>4. Promise!Deposit(b)
    BY <1>1, <1>3, <1>4, <2>2, <2>3
       DEF Promise!Deposit, Promise!Pay, Promise!With
  <2>5. QED
    BY <2>4
<1>7. ASSUME CancelBooking(caller, b)
      PROVE  \/ bookings[b].state = "Created" /\ Promise!CallOff(b)
             \/ bookings[b].state = "Funded" /\ Promise!TakeBack(b)
  <2>1. /\ bookings[b].state \in {"Created", "Funded"} /\ now < bookings[b].visit_time
        /\ SetState(b, "Refunded")
    BY <1>7 DEF CancelBooking
  <2>2. /\ Agreed' = Agreed
        /\ Stages' = [d \in DOMAIN Stages \cup {b} |-> IF d = b THEN "over" ELSE Stages[d]]
    BY <1>5, <2>1 DEF BookingState, stageOf
  <2>3. CASE bookings[b].state = "Created"
    <3>1. Wallets' = Wallets /\ Stages[b] = "agreed"
      BY <1>4, <1>7, <2>3, SeenNext DEF CancelBooking, stageOf, Wallets
    <3>2. Promise!CallOff(b)
      BY <1>1, <1>4, <2>1, <2>2, <3>1
         DEF Promise!CallOff, Promise!With
    <3>3. QED
      BY <2>3, <3>2
  <2>4. CASE bookings[b].state = "Funded"
    <3>1. Transfer(Escrow, renter, amount) /\ Stages[b] = "held"
      BY <1>4, <1>7, <2>4 DEF CancelBooking, stageOf
    <3>2. Wallets' = [Wallets EXCEPT ![c][Agreed[b].renter] = @ + 1 * Agreed[b].amount]
      BY <1>1, <1>3, <1>4, <3>1, WalletMoves
    <3>3. Promise!TakeBack(b)
      BY <1>1, <1>3, <1>4, <2>1, <2>2, <3>1, <3>2
         DEF Promise!TakeBack, Promise!Pay, Promise!With
    <3>4. QED
      BY <2>4, <3>3
  <2>5. QED
    BY <2>1, <2>3, <2>4
<1>8. ASSUME ConfirmVisit(caller, b)  PROVE Promise!GiveBack(b)
  <2>1. /\ bookings[b].state = "Funded" /\ now >= bookings[b].visit_time
        /\ Transfer(Escrow, renter, amount) /\ SetState(b, "Released")
    BY <1>8 DEF ConfirmVisit
  <2>2. Wallets' = [Wallets EXCEPT ![c][Agreed[b].renter] = @ + 1 * Agreed[b].amount]
    BY <1>1, <1>3, <1>4, <2>1, WalletMoves
  <2>3. /\ Agreed' = Agreed /\ Stages[b] = "held"
        /\ Stages' = [d \in DOMAIN Stages \cup {b} |-> IF d = b THEN "over" ELSE Stages[d]]
    BY <1>4, <1>5, <2>1 DEF BookingState, stageOf
  <2>4. Promise!GiveBack(b)
    BY <1>1, <1>3, <1>4, <2>1, <2>2, <2>3
       DEF Promise!GiveBack, Promise!Pay, Promise!With
  <2>5. QED
    BY <2>4
<1>9. QED
  BY <1>1, <1>6, <1>7, <1>8

\* An account that sends tokens spends its own; sending none is not seen.
LEMMA SendKeepsPromise ==
    ASSUME Typed, NEW a \in Asset, NEW from \in Account, NEW to \in Holder,
           NEW amount \in SentAmount, SendTokens(a, from, to, amount)
    PROVE  Promise!Spend(from) \/ UNCHANGED Seen
<1>1. /\ balance \in [Asset -> [Holder -> Nat]] /\ from \in Holder /\ Account \subseteq Holder
      /\ amount \in Nat /\ from # to
      /\ balance' = [balance EXCEPT ![a][from] = @ - amount, ![a][to] = @ + amount]
      /\ UNCHANGED <<asset, bookings, now>>
  BY ConstantsAssumption DEF SendTokens, storage, Typed, TypeOK, Holder
<1>2. UNCHANGED <<now, Chosen, Agreed, Stages>>
  BY <1>1 DEF Chosen, Agreed, Stages
<1>3. /\ \A d \in Asset \ {a} : balance'[d] = balance[d]
      /\ balance'[a][from] = balance[a][from] - amount
      /\ balance'[a][to] = balance[a][to] + amount
      /\ \A h \in Holder \ {from, to} : balance'[a][h] = balance[a][h]
  BY <1>1
<1>4. \A d \in Asset, p \in Account : Wallets[d][p] = balance[d][p]
  BY DEF Wallets
<1>5. \A d \in Asset, p \in Account : Wallets'[d][p] = balance'[d][p]
  BY SeenNext
<1>6. CASE amount = 0
  <2>1. \A d \in Asset, p \in Account : balance'[d][p] = balance[d][p]
    BY <1>1, <1>3, <1>6
  <2>2. Wallets' = Wallets
    BY <2>1, SeenNext DEF Wallets
  <2>3. QED
    BY <1>2, <2>2 DEF Seen
<1>7. CASE amount # 0
  <2>1. \A d \in Asset \ {a} : Wallets'[d] = Wallets[d]
    BY <1>3, SeenNext DEF Wallets
  <2>2. Wallets'[a][from] < Wallets[a][from]
    BY <1>1, <1>3, <1>4, <1>5, <1>7
  <2>3. \A p \in Account \ {from} : Wallets'[a][p] >= Wallets[a][p]
    BY <1>1, <1>3, <1>4, <1>5
  <2>4. Promise!Spend(from)
    BY <1>2, <2>1, <2>2, <2>3 DEF Promise!Spend
  <2>5. QED
    BY <2>4
<1>8. QED
  BY <1>6, <1>7

\* A step that leaves asset, bookings, balances and the time alone is not seen.
LEMMA UnseenStep ==
    ASSUME UNCHANGED <<asset, bookings, balance, now>>
    PROVE  UNCHANGED Seen
BY DEF Seen, Chosen, Agreed, Stages, Wallets

\* Any step of the contract and the network around it.
LEMMA StepKeepsPromise == Typed /\ [Next]_vars => Promise!Next \/ UNCHANGED Seen
<1> SUFFICES ASSUME Typed, [Next]_vars  PROVE Promise!Next \/ UNCHANGED Seen
  OBVIOUS
<1>1. ASSUME NEW a \in Asset, Initialize(a)  PROVE Promise!Next
  BY <1>1, InitializeKeepsPromise DEF Promise!Next
<1>2. ASSUME NEW b \in BookingId, Create(b)  PROVE Promise!Next
  <2>1. PICK renter \in Account, host \in Account, amount \in OfferedDeposit,
             visit \in OfferedVisit :
          CreateBooking(b, renter, host, amount, visit)
    BY <1>2 DEF Create
  <2>2. QED
    BY <2>1, CreateKeepsPromise DEF Promise!Next
<1>3. ASSUME NEW b \in BookingId, NEW caller \in Account,
             FundBooking(caller, b) \/ CancelBooking(caller, b) \/ ConfirmVisit(caller, b)
      PROVE  Promise!Next
  <2>1. /\ b \in DOMAIN Agreed
        /\ \/ Promise!Deposit(b) \/ Promise!CallOff(b)
           \/ Promise!TakeBack(b) \/ Promise!GiveBack(b)
    BY <1>3, CallKeepsPromise DEF Agreed
  <2>2. QED
    BY <2>1 DEF Promise!Next, Agreed, Terms
<1>4. ASSUME NEW b \in BookingId, GetBooking(b) \/ RestoreBooking(b)  PROVE UNCHANGED Seen
  BY <1>4, UnseenStep DEF GetBooking, RestoreBooking
<1>5. CASE RestoreInstance \/ UNCHANGED vars
  BY <1>5, UnseenStep DEF RestoreInstance, vars, storage
<1>6. CASE CloseLedger
  <2>1. now' = now + 1 /\ UNCHANGED <<asset, bookings, balance>>
    BY <1>6 DEF CloseLedger, storage
  <2>2. UNCHANGED <<Chosen, Agreed, Stages, Wallets>>
    BY <2>1 DEF Chosen, Agreed, Stages, Wallets
  <2>3. Promise!Tick
    BY <2>1, <2>2 DEF Promise!Tick
  <2>4. QED
    BY <2>3 DEF Promise!Next
<1>7. ASSUME NEW a \in Asset, NEW from \in Account, NEW to \in Holder, NEW amount \in SentAmount,
             SendTokens(a, from, to, amount)
      PROVE  Promise!Next \/ UNCHANGED Seen
  BY <1>7, SendKeepsPromise DEF Promise!Next
<1>8. QED
  BY <1>1, <1>2, <1>3, <1>4, <1>5, <1>6, <1>7 DEF Next, Call, Network

\* The contract keeps its promise: whatever is called in whatever order, a deposit leaves
\* its renter's wallet once at most, for the amount agreed, and goes back to that wallet
\* alone, before the visit at the renter's wish and from then on at the host's word.
THEOREM DepositPromiseKept == Spec => KeepsThePromise
<1>1. Init => Promise!Init
  <2> SUFFICES ASSUME Init  PROVE Promise!Init
    OBVIOUS
  <2>1. Agreed = <<>> /\ Stages = <<>> /\ Chosen = {} /\ now = 0
    BY DEF Init, Agreed, Stages, Chosen
  <2>2. Wallets \in [Asset -> [Account -> Nat]]
    BY ConstantsAssumption DEF Init, Wallets, Holder
  <2>3. QED
    BY <2>1, <2>2 DEF Promise!Init
<1>2. Spec => []Typed
  BY TypeCorrect DEF Typed
<1>3. Typed /\ [Next]_vars => [Promise!Next]_Seen
  BY StepKeepsPromise
<1>4. QED
  BY <1>1, <1>2, <1>3, PTL
     DEF Spec, KeepsThePromise, Promise!Spec, Promise!vars, Seen, Chosen, Agreed, Stages,
         Wallets, Terms
=============================================================================
