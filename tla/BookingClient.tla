--------------------------- MODULE BookingClient ---------------------------
(***************************************************************************)
(* The web pages a renter or a host acts from (apps/web): the booking form,*)
(* which books, creates the escrow, funds it and reports the payment, and  *)
(* the booking page, which offers cancel, confirm and check-in for the     *)
(* booking as it was when it was loaded.  What the pages set off elsewhere *)
(* is composed with them in VisitDeposit.                                  *)
(*                                                                         *)
(* A page remembers only what is in memory: closing the tab, a refused     *)
(* signature, a failed request and a poll that has made its thirty         *)
(* attempts all leave nothing behind, but a transaction that was sent may  *)
(* still be included.                                                      *)
(***************************************************************************)
EXTENDS Integers

CONSTANTS Account,      \* the wallets, one open page each
          BookingRef,   \* booking ids
          Idle          \* a page with nothing under way

VARIABLES tabs,         \* what the page of each account is doing
          sent          \* transactions handed to the network: what became of each

clientVars == <<tabs, sent>>

Method == {"create_booking", "fund_booking", "cancel_booking", "confirm_visit"}
Stage == {"booking", "loaded", "call", "sent", "report"}

\* What became of a transaction: nothing yet, failed or expired, or included,
\* and then its hash, a positive number.
Pending == 0
Failed == -1

Call == [by : Account, method : Method, id : BookingRef]

Init ==
    /\ tabs = [a \in Account |-> Idle]
    /\ sent = [c \in {} |-> Pending]

At(a, stage) == tabs[a] # Idle /\ tabs[a].stage = stage
Goes(a, tab) == tabs' = [tabs EXCEPT ![a] = tab]
CallOf(a) == [by |-> a, method |-> tabs[a].method, id |-> tabs[a].id]
Outcome(call, x) == sent' = [c \in DOMAIN sent \cup {call} |-> IF c = call THEN x ELSE sent[c]]

\* The booking page showing a booking as it was loaded; the form shows none.
Shown(id, status) == [stage |-> "loaded", id |-> id, status |-> status]
NotShown == ""

\* A page about to make a contract call; it keeps what it shows.
Calling(method, id, status) ==
    [stage |-> "call", method |-> method, id |-> id, status |-> status]

\* What is left when a page's work ends and nothing new is loaded: the booking page
\* shows what it showed, and offers it again; the form starts over.
Left(a) == IF tabs[a].status = NotShown THEN Idle ELSE Shown(tabs[a].id, tabs[a].status)

----------------------------------------------------------------------------
\* The form posts a booking, which gets its id from the API.
Book(a, id) ==
    /\ tabs[a] = Idle
    /\ Goes(a, [stage |-> "booking", method |-> "create_booking", id |-> id,
                status |-> NotShown])
    /\ UNCHANGED sent

\* The form has the API's answer: the booking is stored.
Booked(a) ==
    /\ At(a, "booking")
    /\ Goes(a, Calling("create_booking", tabs[a].id, NotShown))
    /\ UNCHANGED sent

\* The booking page loads a booking, or replaces the one it shows.
Load(a, id, status) ==
    /\ tabs[a] = Idle \/ At(a, "loaded")
    /\ Goes(a, Shown(id, status))
    /\ UNCHANGED sent

\* Mutant: a host may confirm a booking nobody has checked in to.
availableActions_early(status, role) ==
    CASE status = "FUNDED" /\ role = "renter" -> {"check-in", "cancel"}
      [] status = "FUNDED" /\ role = "host" -> {"issue-challenge", "confirm"}
      [] status = "CHECKED_IN" /\ role = "host" -> {"confirm"}
      [] OTHER -> {}

\* availableActions, of the booking as loaded and the role of the wallet.
availableActions(status, role) ==
    CASE status = "FUNDED" /\ role = "renter" -> {"check-in", "cancel"}
      [] status = "FUNDED" /\ role = "host" -> {"issue-challenge"}
      [] status = "CHECKED_IN" /\ role = "host" -> {"confirm"}
      [] OTHER -> {}

Offered(a, id, role, action) ==
    At(a, "loaded") /\ tabs[a].id = id /\ action \in availableActions(tabs[a].status, role)

\* Cancel and confirm begin with the contract.
PressCall(a, id, role, action) ==
    /\ Offered(a, id, role, action)
    /\ action \in {"cancel", "confirm"}
    /\ Goes(a, Calling(IF action = "confirm" THEN "confirm_visit" ELSE "cancel_booking",
                       id, tabs[a].status))
    /\ UNCHANGED sent

\* invokeEscrow up to sendTransaction: simulated, signed and handed over.  Sent twice,
\* one call of one account can still succeed only once: both are one entry here.
Send(a) ==
    /\ At(a, "call")
    /\ Outcome(CallOf(a), Pending)
    /\ Goes(a, [tabs[a] EXCEPT !.stage = "sent"])

\* Mutant: only a payment is reported, a settlement is left to the ledger.
Confirmed_silent(a) ==
    /\ At(a, "sent")
    /\ sent[CallOf(a)] > 0
    /\ Goes(a, CASE tabs[a].method = "create_booking" ->
                       Calling("fund_booking", tabs[a].id, NotShown)
                  [] tabs[a].method = "fund_booking" -> [tabs[a] EXCEPT !.stage = "report"]
                  [] OTHER -> Left(a))
    /\ UNCHANGED sent

\* invokeEscrow's poll succeeds.  The form goes on from creating to funding; the
\* hash of any other call is to be reported to the API.
Confirmed(a) ==
    /\ At(a, "sent")
    /\ sent[CallOf(a)] > 0
    /\ Goes(a, IF tabs[a].method = "create_booking"
               THEN Calling("fund_booking", tabs[a].id, NotShown)
               ELSE [tabs[a] EXCEPT !.stage = "report"])
    /\ UNCHANGED sent

\* invokeEscrow's thirty polls are over and none has shown an outcome.
GiveUp(a) ==
    /\ At(a, "sent")
    /\ Goes(a, Left(a))
    /\ UNCHANGED sent

\* The hash, or the code of the host, is posted.  An answer that moves the page on is
\* a Load; a refusal, or an answer that never comes, leaves what it shows.
Posted(a, stage) ==
    /\ At(a, stage)
    /\ Goes(a, Left(a))
    /\ UNCHANGED sent

\* What a page is doing ends in an error, or the page is closed or left.
Abandon(a) ==
    /\ tabs[a] # Idle
    /\ Goes(a, Left(a)) \/ Goes(a, Idle)
    /\ UNCHANGED sent

\* The network includes a transaction, or it fails or expires.
Included(call, hash) ==
    /\ call \in DOMAIN sent /\ sent[call] = Pending
    /\ Outcome(call, hash)
    /\ UNCHANGED tabs
=============================================================================
