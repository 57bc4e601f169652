----------------------------- MODULE WalletPages -----------------------------
(***************************************************************************)
(* The wallet a browser believes it has (apps/web): the wallet dialog,     *)
(* which connects and logs in, and the booking form and booking page,      *)
(* which act in the name of the wallet they find.                          *)
(*                                                                         *)
(* A tab shows the session of its own memory; the address its forms use is *)
(* in localStorage, which all tabs of the browser share and which outlives *)
(* them.  Nothing keeps a user from connecting again, or in another tab,   *)
(* while an extension or the API has not answered yet.                     *)
(***************************************************************************)
EXTENDS Sequences

CONSTANTS Tab,          \* the tabs of one browser
          FormTab,      \* bound: the tabs whose form and booking page are used
          Try,          \* bound: connections under way at a time
          Wallet,       \* the accounts of the user's extensions
          ChallengeId,  \* login challenges
          BookingRef,   \* booking ids
          None          \* no wallet, no session, nothing under way

Shown == [kind : {"Freighter", "Rabet"}, address : Wallet]

ASSUME PagesAssumption ==
    /\ FormTab \subseteq Tab
    /\ None \notin Wallet /\ None \notin Shown

VARIABLES stored,       \* localStorage: the last public wallet, or None
          session,      \* what the dialog of each tab shows
          attempts,     \* the connections under way
          flows,        \* what the form or the booking page of each tab is doing, and for
                        \* which wallet; with nothing under way, the one it was rendered with
          issued, signed, opened,   \* logins, as the API keeps them: LoginPromise
          booked,       \* the renter of each booking the API stores
          last,         \* the last contract call signed or report made, and in whose name
          lastTab       \* the tab that wrote to localStorage last, if it still knows

dialogVars == <<stored, session, attempts, lastTab>>
loginVars == <<issued, signed, opened>>
flowVars == <<flows, booked, last>>
vars == <<dialogVars, loginVars, flowVars>>

Login == INSTANCE LoginPromise

Rendered(wallet) == [at |-> "page", id |-> None, name |-> wallet]

Init ==
    /\ stored = None /\ lastTab = None
    /\ session = [t \in Tab |-> None]
    /\ attempts = [k \in Try |-> None]
    /\ flows = [t \in FormTab |-> Rendered(None)]
    /\ Login!Init
    /\ booked = [id \in {} |-> None]
    /\ last = None

----------------------------------------------------------------------------
(***************************************************************************)
(* WalletDialog                                                            *)
(***************************************************************************)
At(k, stage) == attempts[k] # None /\ attempts[k].at = stage
Becomes(k, attempt) == attempts' = [attempts EXCEPT ![k] = attempt]
Goes(k, stage) == attempts' = [attempts EXCEPT ![k].at = stage]

\* localStorage and the session of the tab are written without an await between them.
Write(t, address, s) ==
    /\ stored' = address
    /\ session' = [session EXCEPT ![t] = s]
    /\ lastTab' = t

\* Mutant: what is on show is not cleared.
Clear_shown(t) == Write(t, None, session[t])
Clear(t) == Write(t, None, None)

Connected(k, address) ==
    /\ Write(attempts[k].tab, address, [kind |-> attempts[k].kind, address |-> address])
    /\ Becomes(k, None)

Connect(t, k, kind) ==
    /\ attempts[k] = None
    /\ Becomes(k, [tab |-> t, at |-> "access", kind |-> kind, address |-> None, id |-> None])
    /\ UNCHANGED <<stored, session, lastTab, loginVars, flowVars>>

\* Mutant: no wallet is asked to sign.
MustLogIn_never(kind) == FALSE
\* Rabet signs no messages: its address is all it is asked.
MustLogIn(kind) == kind = "Freighter"

\* The extension lets the page see an address, if it is unlocked, on the network of the
\* build (Freighter only), and the user agrees.
Access(k, address) ==
    /\ At(k, "access")
    /\ IF MustLogIn(attempts[k].kind)
       THEN /\ Becomes(k, [attempts[k] EXCEPT !.at = "challenge", !.address = address])
            /\ UNCHANGED <<stored, session, lastTab>>
       ELSE Connected(k, address)
    /\ UNCHANGED <<loginVars, flowVars>>

requestChallenge(k, id) ==
    /\ At(k, "challenge")
    /\ Login!Issue(id, attempts[k].address)
    /\ Becomes(k, [attempts[k] EXCEPT !.at = "sign", !.id = id])
    /\ UNCHANGED <<stored, session, lastTab, flowVars>>

\* The extension signs with the account it is asked for, or fails: signatures of other
\* accounts, which the API refuses, are in WalletAuth.
signMessage(k) ==
    /\ At(k, "sign")
    /\ Login!Sign(attempts[k].address, attempts[k].id)
    /\ Goes(k, "submit")
    /\ UNCHANGED <<stored, session, lastTab, flowVars>>

submitSignature(k) ==
    /\ At(k, "submit")
    /\ Login!Open(attempts[k].id)
    /\ Goes(k, "verified")
    /\ UNCHANGED <<stored, session, lastTab, flowVars>>

\* The API's answer is there.
Verified(k) ==
    /\ At(k, "verified")
    /\ Connected(k, attempts[k].address)
    /\ UNCHANGED <<loginVars, flowVars>>

\* The API serves a signature whose page does not wait for the answer any more.
ServedLate(id) == Login!Open(id) /\ UNCHANGED <<dialogVars, flowVars>>

\* An extension or the API refuses, or its answer is lost: whoever was connected no
\* longer is.
Fails(k) ==
    /\ attempts[k] # None /\ ~At(k, "disconnect")
    /\ Clear(attempts[k].tab)
    /\ Becomes(k, None)
    /\ UNCHANGED <<loginVars, flowVars>>

\* Only Rabet is asked to disconnect, and waited for.
Disconnect(t, k) ==
    /\ session[t] # None /\ attempts[k] = None
    /\ IF session[t].kind = "Rabet"
       THEN /\ Becomes(k, [tab |-> t, at |-> "disconnect", kind |-> "Rabet",
                           address |-> None, id |-> None])
            /\ UNCHANGED <<stored, session, lastTab>>
       ELSE Clear(t) /\ UNCHANGED attempts
    /\ UNCHANGED <<loginVars, flowVars>>

\* Rabet has disconnected, or it refuses, which nothing catches.
Disconnected(k) ==
    /\ At(k, "disconnect")
    /\ Clear(attempts[k].tab) \/ UNCHANGED <<stored, session, lastTab>>
    /\ Becomes(k, None)
    /\ UNCHANGED <<loginVars, flowVars>>

\* A tab is loaded again: it remembers nothing and restores no session.
Reload(t) ==
    /\ session' = [session EXCEPT ![t] = None]
    /\ attempts' = [k \in Try |->
          IF attempts[k] # None /\ attempts[k].tab = t THEN None ELSE attempts[k]]
    /\ flows' = [f \in FormTab |-> IF f = t THEN Rendered(stored) ELSE flows[f]]
    /\ lastTab' = IF lastTab = t THEN None ELSE lastTab
    /\ UNCHANGED <<stored, loginVars, booked, last>>

----------------------------------------------------------------------------
(***************************************************************************)
(* BookingForm and BookingActions: pages of their own, one to a tab.       *)
(***************************************************************************)
Doing(t, stage) == flows[t].at = stage
Begin(t, stage, id, name) ==
    flows' = [flows EXCEPT ![t] = [at |-> stage, id |-> id, name |-> name]]

\* What a page did has ended, well or not, and it is rendered again.
End(t) == flows' = [flows EXCEPT ![t] = Rendered(stored)]

\* Mutant: the name is read from localStorage again for every step.
NameOf_now(t) == stored
\* The wallet a form or a page acts for, from its first step on.
NameOf(t) == flows[t].name

Act(t) == last' = [id |-> flows[t].id, by |-> NameOf(t)]

\* The form wants the renter typed into it to be the wallet it finds.
SubmitForm(t) ==
    /\ Doing(t, "page")
    /\ stored # None
    /\ Begin(t, "book", None, stored)
    /\ UNCHANGED <<dialogVars, loginVars, booked, last>>

\* POST /api/bookings answers with a booking.
Book(t, id) ==
    /\ Doing(t, "book")
    /\ id \notin DOMAIN booked
    /\ booked' = [x \in DOMAIN booked \cup {id} |-> IF x = id THEN NameOf(t) ELSE booked[x]]
    /\ Begin(t, "create_booking", id, flows[t].name)
    /\ UNCHANGED <<dialogVars, loginVars, last>>

\* What follows a call of the contract: the next call, or the report of its hash.
After == [create_booking |-> "fund_booking", fund_booking |-> "fund",
          cancel_booking |-> "cancel"]

\* invokeEscrow has the wallet sign for the address it is given.
invokeEscrow(t) ==
    \E method \in DOMAIN After :
        /\ Doing(t, method)
        /\ Act(t)
        /\ flows' = [flows EXCEPT ![t].at = After[method]]
        /\ UNCHANGED <<dialogVars, loginVars, booked>>

\* The report ends the flow; that of a payment names nobody.
Report(t) ==
    /\ \/ Doing(t, "fund") /\ UNCHANGED last
       \/ Doing(t, "cancel") /\ Act(t)
    /\ End(t)
    /\ UNCHANGED <<dialogVars, loginVars, booked>>

\* A page with nothing under way is rendered again and looks for a wallet, or what a
\* form or a page was doing fails.
Render(t) ==
    /\ End(t)
    /\ UNCHANGED <<dialogVars, loginVars, booked, last>>

\* Mutant: a page without a wallet offers its buttons too.
Offered_anyone(t, id) == TRUE
Offered(t, id) == flows[t].name = booked[id]

\* The page offers to cancel to the renter, and acts for the wallet it was rendered with.
Press(t, id) ==
    /\ Doing(t, "page")
    /\ id \in DOMAIN booked
    /\ Offered(t, id)
    /\ Begin(t, "cancel_booking", id, flows[t].name)
    /\ UNCHANGED <<dialogVars, loginVars, booked, last>>

Dialog(k) ==
    \/ \E t \in Tab, kind \in {"Freighter", "Rabet"} : Connect(t, k, kind)
    \/ \E a \in Wallet : Access(k, a)
    \/ \E id \in ChallengeId : requestChallenge(k, id)
    \/ signMessage(k) \/ submitSignature(k) \/ Verified(k) \/ Fails(k)
    \/ \E t \in Tab : Disconnect(t, k)
    \/ Disconnected(k)

Pages(t) ==
    \/ \E id \in BookingRef : Book(t, id) \/ Press(t, id)
    \/ SubmitForm(t) \/ invokeEscrow(t) \/ Report(t) \/ Render(t)

Next ==
    \/ \E k \in Try : Dialog(k)
    \/ \E t \in FormTab : Pages(t)
    \/ \E id \in ChallengeId : ServedLate(id)
    \/ \E t \in Tab : Reload(t)

Spec == Init /\ [][Next]_vars

----------------------------------------------------------------------------
(***************************************************************************)
(* Properties                                                              *)
(***************************************************************************)
Attempt == [tab : Tab,
            at : {"access", "challenge", "sign", "submit", "verified", "disconnect"},
            kind : {"Freighter", "Rabet"}, address : Wallet \cup {None},
            id : ChallengeId \cup {None}]
Flows == [at : {"page"}, id : {None}, name : Wallet \cup {None}]
             \cup [at : {"book"}, id : {None}, name : Wallet]
             \cup [at : {"fund", "cancel"} \cup DOMAIN After, id : BookingRef, name : Wallet]

\* What the tabs hold has its type: nothing is ever done for no wallet.
TypeOK ==
    /\ stored \in Wallet \cup {None} /\ lastTab \in Tab \cup {None}
    /\ session \in [Tab -> Shown \cup {None}]
    /\ attempts \in [Try -> Attempt \cup {None}]
    /\ flows \in [FormTab -> Flows]
    /\ DOMAIN booked \subseteq BookingRef
    /\ \A id \in DOMAIN booked : booked[id] \in Wallet
    /\ last # None => last.id \in BookingRef /\ last.by \in Wallet

\* A Freighter wallet on show has logged in: the API has opened a session for this very
\* address, whatever else was connected, refused or left behind on the way.
VerifiedWalletsLoggedIn ==
    \A t \in Tab :
        session[t] # None /\ session[t].kind = "Freighter" =>
            \E i \in DOMAIN opened : opened[i].address = session[t].address

\* The tab that wrote last shows the wallet its forms will use, or that there is none:
\* a connection that ends, fails or is undone after another has begun leaves no wallet on
\* show that is not the one stored.
ActingTabAgrees ==
    lastTab # None =>
        IF stored = None THEN session[lastTab] = None
        ELSE session[lastTab] # None /\ session[lastTab].address = stored

\* A booking is made, paid, cancelled and reported in one name, though the wallet of the
\* browser may be another at every step.
OneNamePerBooking ==
    last # None => last.id \in DOMAIN booked /\ last.by = booked[last.id]
=============================================================================
