------------------------- MODULE WalletPages_proofs -------------------------
(***************************************************************************)
(* Theorems about WalletPages, for any number of tabs, connections under   *)
(* way, wallets, challenges and bookings.                                  *)
(***************************************************************************)
EXTENDS WalletPages, Naturals, TLAPS

\* The logins have their types.
LoginsTyped ==
    /\ DOMAIN issued \subseteq ChallengeId
    /\ \A id \in DOMAIN issued : issued[id] \in Wallet
    /\ opened \in Seq([address : Wallet, challenge : ChallengeId])

LoggedIn(a) == \E i \in DOMAIN opened : opened[i].address = a

\* What a connection knows stays true while it waits: its address is one of the user's,
\* its challenge was issued to that address, and when it is verified a session is open.
Ready(k) ==
    /\ attempts[k].at \in {"challenge", "sign", "submit", "verified"} =>
          attempts[k].address \in Wallet
    /\ attempts[k].at \in {"sign", "submit"} =>
          /\ attempts[k].id \in DOMAIN issued
          /\ issued[attempts[k].id] = attempts[k].address
    /\ attempts[k].at = "verified" => LoggedIn(attempts[k].address)
AllReady == \A k \in Try : attempts[k] # None => Ready(k)

\* A form that has its booking acts in the name the booking was made in.
OneName ==
    \A t \in FormTab : flows[t].at \notin {"page", "book"} =>
        flows[t].id \in DOMAIN booked /\ booked[flows[t].id] = flows[t].name

\* The inductive invariant.
IInv ==
    /\ TypeOK /\ LoginsTyped /\ AllReady /\ OneName
    /\ VerifiedWalletsLoggedIn /\ ActingTabAgrees /\ OneNamePerBooking

\* What concerns the dialogs, and what concerns the pages.
DialogInv ==
    /\ stored \in Wallet \cup {None} /\ lastTab \in Tab \cup {None}
    /\ session \in [Tab -> Shown \cup {None}]
    /\ attempts \in [Try -> Attempt \cup {None}]
    /\ LoginsTyped /\ AllReady /\ VerifiedWalletsLoggedIn /\ ActingTabAgrees
PagesInv ==
    /\ flows \in [FormTab -> Flows]
    /\ DOMAIN booked \subseteq BookingRef
    /\ \A id \in DOMAIN booked : booked[id] \in Wallet
    /\ last # None => last.id \in BookingRef /\ last.by \in Wallet
    /\ OneName /\ OneNamePerBooking

\* Together they are all of it.
LEMMA TwoHalves == IInv <=> DialogInv /\ PagesInv
BY DEF IInv, DialogInv, PagesInv, TypeOK

\* It holds to begin with.
LEMMA InitInv == Init => IInv
<1> SUFFICES ASSUME Init  PROVE IInv
  OBVIOUS
<1>1. DOMAIN issued = {} /\ opened = <<>> /\ DOMAIN opened = {}
  BY DEF Init, Login!Init
<1>2. LoginsTyped /\ AllReady
  BY <1>1 DEF Init, LoginsTyped, AllReady
<1>3. VerifiedWalletsLoggedIn /\ ActingTabAgrees /\ OneNamePerBooking
  BY DEF Init, VerifiedWalletsLoggedIn, ActingTabAgrees, OneNamePerBooking
<1>4. \A t \in FormTab : flows[t] = [at |-> "page", id |-> None, name |-> None]
  BY DEF Init, Rendered
<1>5. PICK r : r = [at |-> "page", id |-> None, name |-> None]
  OBVIOUS
<1>6. r \in Flows /\ r.at = "page"
  BY <1>5 DEF Flows
<1>7. OneName /\ flows \in [FormTab -> Flows]
  BY <1>4, <1>5, <1>6 DEF OneName, Init
<1>8. TypeOK
  BY <1>7 DEF Init, TypeOK
<1>9. QED
  BY <1>2, <1>3, <1>7, <1>8 DEF IInv

----------------------------------------------------------------------------
(***************************************************************************)
(* The dialogs.                                                            *)
(***************************************************************************)
\* One connection becomes n.
LEMMA OneReady ==
    ASSUME DialogInv, NEW k \in Try, NEW n, Becomes(k, n),
           n = None \/ n \in Attempt,
           \A id \in DOMAIN issued : id \in DOMAIN issued' /\ issued'[id] = issued[id],
           \A a : LoggedIn(a) => LoggedIn(a)',
           n # None => Ready(k)'
    PROVE  attempts' \in [Try -> Attempt \cup {None}] /\ AllReady'
<1>1. /\ attempts' \in [Try -> Attempt \cup {None}]
      /\ \A j \in Try : j # k => attempts'[j] = attempts[j]
      /\ attempts'[k] = n
  BY DEF DialogInv, Becomes
<1>2. ASSUME NEW j \in Try, attempts'[j] # None  PROVE Ready(j)'
  BY <1>1, <1>2 DEF DialogInv, AllReady, Ready
<1>3. QED
  BY <1>1, <1>2 DEF AllReady

\* What a tab writes is what it shows.
LEMMA WriteAgrees ==
    ASSUME DialogInv, NEW t \in Tab, NEW a, NEW s, Write(t, a, s),
           \/ a = None /\ s = None
           \/ /\ a \in Wallet /\ s \in Shown /\ s.address = a
              /\ s.kind = "Freighter" => LoggedIn(a),
           UNCHANGED opened
    PROVE  /\ stored' \in Wallet \cup {None} /\ lastTab' \in Tab \cup {None}
           /\ session' \in [Tab -> Shown \cup {None}]
           /\ VerifiedWalletsLoggedIn' /\ ActingTabAgrees'
<1>1. /\ stored' = a /\ lastTab' = t /\ opened' = opened
      /\ session' \in [Tab -> Shown \cup {None}]
      /\ session'[t] = s /\ \A u \in Tab : u # t => session'[u] = session[u]
  BY DEF DialogInv, Write
<1>2. VerifiedWalletsLoggedIn'
  BY <1>1 DEF DialogInv, VerifiedWalletsLoggedIn, LoggedIn
<1>3. ActingTabAgrees'
  BY <1>1, PagesAssumption DEF ActingTabAgrees
<1>4. QED
  BY <1>1, <1>2, <1>3

\* A tab that writes nothing goes on agreeing, if no login is lost.
LEMMA SilentAgrees ==
    ASSUME DialogInv, UNCHANGED <<stored, session, lastTab>>,
           \A a : LoggedIn(a) => LoggedIn(a)'
    PROVE  /\ stored' \in Wallet \cup {None} /\ lastTab' \in Tab \cup {None}
           /\ session' \in [Tab -> Shown \cup {None}]
           /\ VerifiedWalletsLoggedIn' /\ ActingTabAgrees'
<1>1. VerifiedWalletsLoggedIn'
  BY DEF DialogInv, VerifiedWalletsLoggedIn, LoggedIn
<1>2. ActingTabAgrees'
  BY DEF DialogInv, ActingTabAgrees
<1>3. QED
  BY <1>1, <1>2 DEF DialogInv

\* A connection ends in its tab being connected.
LEMMA ConnectedStep ==
    ASSUME DialogInv, NEW k \in Try, NEW a \in Wallet, attempts[k] # None,
           Connected(k, a), attempts[k].kind = "Freighter" => LoggedIn(a),
           UNCHANGED loginVars
    PROVE  DialogInv'
<1>1. attempts[k] \in Attempt
  BY DEF DialogInv
<1>2. PICK t : t = attempts[k].tab
  OBVIOUS
<1>3. PICK kind : kind = attempts[k].kind
  OBVIOUS
<1>4. t \in Tab /\ kind \in {"Freighter", "Rabet"}
  BY <1>1, <1>2, <1>3 DEF Attempt
<1>5. PICK s : s = [kind |-> kind, address |-> a]
  OBVIOUS
<1>6. s \in Shown /\ s.address = a /\ s.kind = kind
  BY <1>4, <1>5 DEF Shown
<1>7. Write(t, a, s) /\ Becomes(k, None)
  BY <1>2, <1>3, <1>5 DEF Connected
<1>8. UNCHANGED <<issued, opened>>
  BY DEF loginVars
<1>9. attempts' \in [Try -> Attempt \cup {None}] /\ AllReady'
  BY <1>7, <1>8, OneReady DEF LoggedIn
<1>10. LoginsTyped'
  BY <1>8 DEF DialogInv, LoginsTyped
<1>11. QED
  BY <1>3, <1>4, <1>6, <1>7, <1>8, <1>9, <1>10, WriteAgrees DEF DialogInv

\* A connection goes on to n, and nothing is written.
LEMMA OnwardStep ==
    ASSUME DialogInv, NEW k \in Try, NEW n, Becomes(k, n), n = None \/ n \in Attempt,
           n # None => Ready(k)', UNCHANGED <<stored, session, lastTab, loginVars>>
    PROVE  DialogInv'
<1>1. UNCHANGED <<issued, opened>>
  BY DEF loginVars
<1>2. \A a : LoggedIn(a) => LoggedIn(a)'
  BY <1>1 DEF LoggedIn
<1>3. attempts' \in [Try -> Attempt \cup {None}] /\ AllReady'
  BY <1>1, <1>2, OneReady
<1>4. LoginsTyped'
  BY <1>1 DEF DialogInv, LoginsTyped
<1>5. QED
  BY <1>2, <1>3, <1>4, SilentAgrees DEF DialogInv

\* A connection begins, or a disconnection of Rabet.
LEMMA BeginStep ==
    ASSUME DialogInv, NEW k \in Try, NEW t \in Tab, NEW kind \in {"Freighter", "Rabet"},
           NEW at \in {"access", "disconnect"},
           Becomes(k, [tab |-> t, at |-> at, kind |-> kind, address |-> None, id |-> None]),
           UNCHANGED <<stored, session, lastTab, loginVars>>
    PROVE  DialogInv'
<1>1. PICK n : n = [tab |-> t, at |-> at, kind |-> kind, address |-> None, id |-> None]
  OBVIOUS
<1>2. n \in Attempt /\ n.at = at
  BY <1>1 DEF Attempt
<1>3. attempts'[k] = n
  BY <1>1 DEF DialogInv, Becomes
<1>4. Ready(k)'
  BY <1>2, <1>3 DEF Ready
<1>5. QED
  BY <1>1, <1>2, <1>4, OnwardStep

\* The extension answers with an address.
LEMMA AccessStep ==
    ASSUME DialogInv, NEW k \in Try, NEW a \in Wallet, Access(k, a)
    PROVE  DialogInv'
<1>1. attempts[k] # None /\ attempts[k].at = "access" /\ UNCHANGED loginVars
  BY DEF Access, At
<1>2. PICK m : m = attempts[k]
  OBVIOUS
<1>3. m \in Attempt
  BY <1>1, <1>2 DEF DialogInv
<1>4. CASE MustLogIn(attempts[k].kind)
  <2>1. PICK n : n = [m EXCEPT !.at = "challenge", !.address = a]
    OBVIOUS
  <2>2. Becomes(k, n) /\ UNCHANGED <<stored, session, lastTab>>
    BY <1>2, <1>4, <2>1 DEF Access
  <2>3. n \in Attempt /\ n.at = "challenge" /\ n.address = a
    BY <1>3, <2>1 DEF Attempt
  <2>4. attempts'[k] = n
    BY <2>2 DEF DialogInv, Becomes
  <2>5. Ready(k)'
    BY <2>3, <2>4 DEF Ready
  <2>6. QED
    BY <1>1, <2>2, <2>3, <2>5, OnwardStep
<1>5. CASE ~ MustLogIn(attempts[k].kind)
  <2>1. Connected(k, a) /\ attempts[k].kind # "Freighter"
    BY <1>5 DEF Access, MustLogIn
  <2>2. QED
    BY <1>1, <2>1, ConnectedStep
<1>6. QED
  BY <1>4, <1>5

\* A challenge is asked for.
LEMMA ChallengeStep ==
    ASSUME DialogInv, NEW k \in Try, NEW id \in ChallengeId, requestChallenge(k, id)
    PROVE  DialogInv'
<1>1. PICK m : m = attempts[k]
  OBVIOUS
<1>2. m # None /\ m \in Attempt /\ m.at = "challenge" /\ m.address \in Wallet
  BY <1>1 DEF requestChallenge, At, DialogInv, AllReady, Ready
<1>3. PICK n : n = [m EXCEPT !.at = "sign", !.id = id]
  OBVIOUS
<1>4. /\ Becomes(k, n) /\ UNCHANGED <<stored, session, lastTab, opened>>
      /\ Login!Issue(id, m.address)
  BY <1>1, <1>3 DEF requestChallenge, Login!Issue
<1>5. n \in Attempt /\ n.at = "sign" /\ n.id = id /\ n.address = m.address
  BY <1>2, <1>3 DEF Attempt
<1>6. /\ DOMAIN issued' = DOMAIN issued \cup {id} /\ issued'[id] = m.address
      /\ \A x \in DOMAIN issued : issued'[x] = issued[x]
  BY <1>4 DEF Login!Issue
<1>7. LoginsTyped'
  BY <1>2, <1>4, <1>6 DEF DialogInv, LoginsTyped
<1>8. attempts'[k] = n
  BY <1>4 DEF DialogInv, Becomes
<1>9. Ready(k)'
  BY <1>2, <1>5, <1>6, <1>8 DEF Ready
<1>10. \A a : LoggedIn(a) => LoggedIn(a)'
  BY <1>4 DEF LoggedIn
<1>11. attempts' \in [Try -> Attempt \cup {None}] /\ AllReady'
  BY <1>4, <1>5, <1>6, <1>9, <1>10, OneReady
<1>12. QED
  BY <1>4, <1>7, <1>10, <1>11, SilentAgrees DEF DialogInv

\* It is signed.
LEMMA SignStep ==
    ASSUME DialogInv, NEW k \in Try, signMessage(k)
    PROVE  DialogInv'
<1>1. PICK m : m = attempts[k]
  OBVIOUS
<1>2. m # None /\ m \in Attempt /\ m.at = "sign" /\ Ready(k)
  BY <1>1 DEF signMessage, At, DialogInv, AllReady
<1>3. PICK n : n = [m EXCEPT !.at = "submit"]
  OBVIOUS
<1>4. Becomes(k, n) /\ UNCHANGED <<stored, session, lastTab, issued, opened>>
  BY <1>1, <1>3 DEF signMessage, Goes, Becomes, Login!Sign
<1>5. n \in Attempt /\ n.at = "submit" /\ n.id = m.id /\ n.address = m.address
  BY <1>2, <1>3 DEF Attempt
<1>6. attempts'[k] = n
  BY <1>4 DEF DialogInv, Becomes
<1>7. Ready(k)'
  BY <1>1, <1>2, <1>4, <1>5, <1>6 DEF Ready
<1>8. \A a : LoggedIn(a) => LoggedIn(a)'
  BY <1>4 DEF LoggedIn
<1>9. attempts' \in [Try -> Attempt \cup {None}] /\ AllReady'
  BY <1>4, <1>5, <1>7, <1>8, OneReady
<1>10. LoginsTyped'
  BY <1>4 DEF DialogInv, LoginsTyped
<1>11. QED
  BY <1>4, <1>8, <1>9, <1>10, SilentAgrees DEF DialogInv

\* Opening a session logs its wallet in, and nobody out.
LEMMA OpenLogsIn ==
    ASSUME LoginsTyped, NEW id, Login!Open(id)
    PROVE  /\ id \in DOMAIN issued /\ LoginsTyped' /\ UNCHANGED issued
           /\ LoggedIn(issued[id])' /\ \A a : LoggedIn(a) => LoggedIn(a)'
<1>1. PICK a : a = issued[id]
  OBVIOUS
<1>2. PICK s : s = [address |-> a, challenge |-> id]
  OBVIOUS
<1>3. id \in DOMAIN issued /\ opened' = Append(opened, s) /\ issued' = issued
  BY <1>1, <1>2 DEF Login!Open
<1>4. s \in [address : Wallet, challenge : ChallengeId] /\ s.address = a
  BY <1>1, <1>2, <1>3 DEF LoginsTyped
<1> DEFINE S == [address : Wallet, challenge : ChallengeId]
<1>5. opened \in Seq(S) /\ s \in S
  BY <1>4 DEF LoginsTyped
<1> HIDE DEF S
<1>6. /\ opened' \in Seq(S) /\ Len(opened) \in Nat
      /\ DOMAIN opened = 1 .. Len(opened) /\ DOMAIN opened' = 1 .. Len(opened) + 1
      /\ opened'[Len(opened) + 1] = s
      /\ \A i \in 1 .. Len(opened) : opened'[i] = opened[i]
  BY <1>3, <1>5
<1>7. LoginsTyped'
  BY <1>3, <1>6 DEF LoginsTyped, S
<1>8. LoggedIn(a)'
  BY <1>4, <1>6 DEF LoggedIn
<1>9. \A b : LoggedIn(b) => LoggedIn(b)'
  BY <1>6 DEF LoggedIn
<1>10. QED
  BY <1>1, <1>3, <1>7, <1>8, <1>9

\* The signature is exchanged for a session.
LEMMA SubmitStep ==
    ASSUME DialogInv, NEW k \in Try, submitSignature(k)
    PROVE  DialogInv'
<1>1. PICK m : m = attempts[k]
  OBVIOUS
<1>2. m # None /\ m \in Attempt /\ m.at = "submit" /\ Ready(k)
  BY <1>1 DEF submitSignature, At, DialogInv, AllReady
<1>3. PICK n : n = [m EXCEPT !.at = "verified"]
  OBVIOUS
<1>4. Becomes(k, n) /\ UNCHANGED <<stored, session, lastTab>> /\ Login!Open(m.id)
  BY <1>1, <1>3 DEF submitSignature, Goes, Becomes
<1>5. n \in Attempt /\ n.at = "verified" /\ n.address = m.address
  BY <1>2, <1>3 DEF Attempt
<1>6. /\ LoginsTyped' /\ UNCHANGED issued /\ \A a : LoggedIn(a) => LoggedIn(a)'
      /\ LoggedIn(issued[m.id])'
  BY <1>4, OpenLogsIn DEF DialogInv
<1>7. issued[m.id] = m.address /\ m.address \in Wallet
  BY <1>1, <1>2 DEF Ready
<1>8. attempts'[k] = n
  BY <1>4 DEF DialogInv, Becomes
<1>9. LoggedIn(m.address)'
  BY <1>6, <1>7 DEF LoggedIn
<1>10. Ready(k)'
  BY <1>5, <1>7, <1>8, <1>9 DEF Ready, LoggedIn
<1>11. attempts' \in [Try -> Attempt \cup {None}] /\ AllReady'
  BY <1>4, <1>5, <1>6, <1>10, OneReady
<1>12. QED
  BY <1>4, <1>6, <1>11, SilentAgrees DEF DialogInv

\* The answer is there, and a session with it.
LEMMA VerifiedStep ==
    ASSUME DialogInv, NEW k \in Try, Verified(k)
    PROVE  DialogInv'
<1>1. PICK a : a = attempts[k].address
  OBVIOUS
<1>2. attempts[k] # None /\ a \in Wallet /\ LoggedIn(a)
  BY <1>1 DEF Verified, At, DialogInv, AllReady, Ready
<1>3. Connected(k, a) /\ UNCHANGED loginVars
  BY <1>1 DEF Verified
<1>4. QED
  BY <1>2, <1>3, ConnectedStep

\* A tab is cleared, and a connection may end with it.
LEMMA ClearStep ==
    ASSUME DialogInv, NEW t \in Tab, Clear(t), UNCHANGED loginVars,
           UNCHANGED attempts \/ \E k \in Try : Becomes(k, None)
    PROVE  DialogInv'
<1>1. Write(t, None, None) /\ UNCHANGED <<issued, opened>>
  BY DEF Clear, loginVars
<1>2. \A a : LoggedIn(a) => LoggedIn(a)'
  BY <1>1 DEF LoggedIn
<1>3. UNCHANGED attempts => attempts' \in [Try -> Attempt \cup {None}] /\ AllReady'
  BY <1>1 DEF DialogInv, AllReady, Ready, LoggedIn
<1>4. ASSUME NEW k \in Try, Becomes(k, None)
      PROVE  attempts' \in [Try -> Attempt \cup {None}] /\ AllReady'
  BY <1>1, <1>2, <1>4, OneReady
<1>5. LoginsTyped'
  BY <1>1 DEF DialogInv, LoginsTyped
<1>6. QED
  BY <1>1, <1>3, <1>4, <1>5, WriteAgrees DEF DialogInv

\* All that a dialog does.
LEMMA DialogStep ==
    ASSUME DialogInv, NEW k \in Try, Dialog(k)
    PROVE  DialogInv' /\ UNCHANGED flowVars
<1>1. UNCHANGED flowVars
  BY DEF Dialog, Connect, Access, requestChallenge, signMessage, submitSignature, Verified,
     Fails, Disconnect, Disconnected
<1>2. ASSUME NEW t \in Tab, NEW kind \in {"Freighter", "Rabet"}, Connect(t, k, kind)
      PROVE  DialogInv'
  BY <1>2, BeginStep DEF Connect
<1>3. ASSUME Fails(k)  PROVE DialogInv'
  <2>1. attempts[k].tab \in Tab /\ UNCHANGED loginVars
    BY <1>3 DEF DialogInv, Fails, Attempt
  <2>2. QED
    BY <1>3, <2>1, ClearStep DEF Fails
<1>4. ASSUME NEW t \in Tab, Disconnect(t, k)  PROVE DialogInv'
  <2>1. CASE session[t].kind = "Rabet"
    BY <1>4, <2>1, BeginStep DEF Disconnect
  <2>2. CASE session[t].kind # "Rabet"
    BY <1>4, <2>2, ClearStep DEF Disconnect
  <2>3. QED
    BY <2>1, <2>2
<1>5. ASSUME Disconnected(k)  PROVE DialogInv'
  <2>1. /\ attempts[k].tab \in Tab /\ UNCHANGED loginVars /\ Becomes(k, None)
        /\ Clear(attempts[k].tab) \/ UNCHANGED <<stored, session, lastTab>>
    BY <1>5 DEF DialogInv, Disconnected, At, Attempt
  <2>2. CASE Clear(attempts[k].tab)
    BY <2>1, <2>2, ClearStep
  <2>3. CASE UNCHANGED <<stored, session, lastTab>>
    BY <2>1, <2>3, OnwardStep
  <2>4. QED
    BY <2>1, <2>2, <2>3
<1>6. QED
  BY <1>1, <1>2, <1>3, <1>4, <1>5, AccessStep, ChallengeStep, SignStep, SubmitStep,
     VerifiedStep DEF Dialog

\* A login the page does not wait for.
LEMMA LateStep ==
    ASSUME DialogInv, NEW id, ServedLate(id)
    PROVE  DialogInv' /\ UNCHANGED flowVars
<1>1. UNCHANGED <<stored, session, attempts, lastTab, flowVars>> /\ Login!Open(id)
  BY DEF ServedLate, dialogVars
<1>2. LoginsTyped' /\ UNCHANGED issued /\ \A a : LoggedIn(a) => LoggedIn(a)'
  BY <1>1, OpenLogsIn DEF DialogInv
<1>3. AllReady'
  <2>1. ASSUME NEW k \in Try, attempts'[k] # None  PROVE Ready(k)'
    <3>1. PICK a : a = attempts[k].address
      OBVIOUS
    <3>2. Ready(k) /\ attempts' = attempts
      BY <1>1, <2>1 DEF DialogInv, AllReady
    <3>3. attempts'[k].at = "verified" => LoggedIn(a)'
      BY <1>2, <3>1, <3>2 DEF Ready
    <3>4. LoggedIn(a)' => LoggedIn(attempts[k].address)'
      BY <3>1, <3>2 DEF LoggedIn
    <3>5. QED
      BY <1>2, <3>2, <3>3, <3>4 DEF Ready
  <2>2. QED
    BY <2>1 DEF AllReady
<1>4. QED
  BY <1>1, <1>2, <1>3, SilentAgrees DEF DialogInv

\* A tab forgets.
LEMMA ReloadDialog ==
    ASSUME DialogInv, NEW t \in Tab, Reload(t)
    PROVE  DialogInv'
<1>1. /\ UNCHANGED <<stored, issued, opened>>
      /\ session' \in [Tab -> Shown \cup {None}] /\ session'[t] = None
      /\ \A u \in Tab : u # t => session'[u] = session[u]
      /\ lastTab' = IF lastTab = t THEN None ELSE lastTab
  BY DEF Reload, DialogInv, loginVars
<1>2. /\ attempts' \in [Try -> Attempt \cup {None}]
      /\ \A k \in Try : attempts'[k] = None \/ attempts'[k] = attempts[k]
  BY DEF Reload, DialogInv
<1>3. AllReady' /\ LoginsTyped'
  BY <1>1, <1>2 DEF DialogInv, AllReady, Ready, LoginsTyped, LoggedIn
<1>4. VerifiedWalletsLoggedIn'
  BY <1>1 DEF DialogInv, VerifiedWalletsLoggedIn
<1>5. ActingTabAgrees' /\ stored' \in Wallet \cup {None} /\ lastTab' \in Tab \cup {None}
  BY <1>1 DEF DialogInv, ActingTabAgrees
<1>6. QED
  BY <1>1, <1>2, <1>3, <1>4, <1>5 DEF DialogInv

----------------------------------------------------------------------------
(***************************************************************************)
(* The pages.                                                              *)
(***************************************************************************)
\* A flow as it is rendered.
LEMMA RenderedIsFlow ==
    ASSUME NEW a \in Wallet \cup {None}, NEW f, f = Rendered(a)
    PROVE  f \in Flows /\ f.at = "page" /\ f.name = a
BY DEF Rendered, Flows

\* One page goes on to f, and bookings are only added.
LEMMA PageStep ==
    ASSUME PagesInv, NEW t \in FormTab, NEW f \in Flows, flows' = [flows EXCEPT ![t] = f],
           DOMAIN booked' \subseteq BookingRef,
           \A id \in DOMAIN booked' : booked'[id] \in Wallet,
           \A id \in DOMAIN booked : id \in DOMAIN booked' /\ booked'[id] = booked[id],
           f.at \notin {"page", "book"} => f.id \in DOMAIN booked' /\ booked'[f.id] = f.name,
           \/ UNCHANGED last
           \/ /\ last'.id \in DOMAIN booked' /\ last'.by = booked'[last'.id]
    PROVE  PagesInv'
<1>1. /\ flows' \in [FormTab -> Flows] /\ flows'[t] = f
      /\ \A u \in FormTab : u # t => flows'[u] = flows[u]
  BY DEF PagesInv
<1>2. OneName'
  <2>1. ASSUME NEW u \in FormTab, flows'[u].at \notin {"page", "book"}
        PROVE  flows'[u].id \in DOMAIN booked' /\ booked'[flows'[u].id] = flows'[u].name
    <3>1. CASE u = t
      BY <1>1, <2>1, <3>1
    <3>2. CASE u # t
      BY <1>1, <2>1, <3>2 DEF PagesInv, OneName
    <3>3. QED
      BY <3>1, <3>2
  <2>2. QED
    BY <2>1 DEF OneName
<1>3. OneNamePerBooking' /\ (last # None => last.id \in BookingRef /\ last.by \in Wallet)'
  BY DEF PagesInv, OneNamePerBooking
<1>4. QED
  BY <1>1, <1>2, <1>3 DEF PagesInv

\* What a flow that has its booking knows.
LEMMA FlowNames ==
    ASSUME PagesInv, NEW t \in FormTab, flows[t].at \notin {"page", "book"}
    PROVE  /\ flows[t].id \in DOMAIN booked /\ flows[t].id \in BookingRef
           /\ flows[t].name \in Wallet /\ booked[flows[t].id] = flows[t].name
BY DEF PagesInv, OneName

\* A page is rendered again.
LEMMA EndStep ==
    ASSUME PagesInv, stored \in Wallet \cup {None}, NEW t \in FormTab, End(t),
           UNCHANGED booked, UNCHANGED last \/ (Act(t) /\ flows[t].at = "cancel")
    PROVE  PagesInv'
<1>1. PICK f : f = Rendered(stored)
  OBVIOUS
<1>2. f \in Flows /\ f.at = "page"
  BY <1>1, RenderedIsFlow
<1>3. flows' = [flows EXCEPT ![t] = f]
  BY <1>1 DEF End
<1>4. UNCHANGED last \/ (last'.id \in DOMAIN booked /\ last'.by = booked[last'.id])
  <2>1. ASSUME Act(t), flows[t].at = "cancel"
        PROVE  last'.id \in DOMAIN booked /\ last'.by = booked[last'.id]
    <3>1. PICK l : l = [id |-> flows[t].id, by |-> flows[t].name]
      OBVIOUS
    <3>2. last' = l /\ l.id = flows[t].id /\ l.by = flows[t].name
      BY <2>1, <3>1 DEF Act, NameOf
    <3>3. QED
      BY <2>1, <3>2, FlowNames
  <2>2. QED
    BY <2>1
<1>5. QED
  BY <1>2, <1>3, <1>4, PageStep DEF PagesInv

\* A page begins to do something for the wallet it found.
LEMMA FlowBegins ==
    ASSUME PagesInv, NEW t \in FormTab, NEW at, NEW id, NEW name \in Wallet,
           Begin(t, at, id, name), UNCHANGED last,
           \/ at = "book" /\ id = None /\ UNCHANGED booked
           \/ /\ at \in DOMAIN After /\ id \in BookingRef
              /\ id \in DOMAIN booked' /\ booked'[id] = name
              /\ DOMAIN booked' = DOMAIN booked \cup {id}
              /\ \A x \in DOMAIN booked : booked'[x] = booked[x]
    PROVE  PagesInv'
<1>1. PICK f : f = [at |-> at, id |-> id, name |-> name]
  OBVIOUS
<1>2. f.at = at /\ f.id = id /\ f.name = name
  BY <1>1
<1>3. f \in Flows
  BY <1>1 DEF Flows
<1>4. flows' = [flows EXCEPT ![t] = f]
  BY <1>1 DEF Begin
<1>5. /\ DOMAIN booked' \subseteq BookingRef
      /\ \A x \in DOMAIN booked' : booked'[x] \in Wallet
      /\ \A x \in DOMAIN booked : x \in DOMAIN booked' /\ booked'[x] = booked[x]
  BY DEF PagesInv
<1>6. f.at \notin {"page", "book"} => f.id \in DOMAIN booked' /\ booked'[f.id] = f.name
  BY <1>2
<1>7. QED
  BY <1>3, <1>4, <1>5, <1>6, PageStep

\* The wallet signs a call in the name of the flow.
LEMMA InvokeStep ==
    ASSUME PagesInv, NEW t \in FormTab, invokeEscrow(t)
    PROVE  PagesInv'
<1>1. PICK method \in DOMAIN After :
         /\ flows[t].at = method /\ Act(t)
         /\ flows' = [flows EXCEPT ![t].at = After[method]]
         /\ UNCHANGED booked
  BY DEF invokeEscrow, Doing
<1>2. PICK g : g = flows[t]
  OBVIOUS
<1>3. method \in {"create_booking", "fund_booking", "cancel_booking"}
      /\ After[method] \in {"fund_booking", "fund", "cancel"}
  BY <1>1 DEF After
<1>4. g.at = method /\ g.id \in DOMAIN booked /\ booked[g.id] = g.name
  BY <1>1, <1>2, <1>3, FlowNames
<1>5. g \in [at : {"fund", "cancel"} \cup DOMAIN After, id : BookingRef, name : Wallet]
  BY <1>2, <1>3, <1>4 DEF PagesInv, Flows
<1>6. PICK f : f = [g EXCEPT !.at = After[method]]
  OBVIOUS
<1>7. After[method] \in {"fund", "cancel"} \cup DOMAIN After
  BY <1>3 DEF After
<1>8. /\ f \in [at : {"fund", "cancel"} \cup DOMAIN After, id : BookingRef, name : Wallet]
      /\ f.at = After[method] /\ f.id = g.id /\ f.name = g.name
  BY <1>5, <1>6, <1>7
<1>9. f \in Flows
  BY <1>8 DEF Flows
<1>10. flows' = [flows EXCEPT ![t] = f]
  BY <1>1, <1>2, <1>6
<1>11. PICK l : l = [id |-> g.id, by |-> g.name]
  OBVIOUS
<1>12. last' = l /\ l.id = g.id /\ l.by = g.name
  <2>1. last' = [id |-> flows[t].id, by |-> NameOf(t)]
    BY <1>1 DEF Act
  <2>2. NameOf(t) = g.name
    BY <1>2, <1>4 DEF NameOf
  <2>3. QED
    BY <2>1, <2>2, <1>2, <1>11
<1>13. booked' = booked
  BY <1>1
<1>14. /\ DOMAIN booked' \subseteq BookingRef
       /\ \A id \in DOMAIN booked' : booked'[id] \in Wallet
       /\ \A id \in DOMAIN booked : id \in DOMAIN booked' /\ booked'[id] = booked[id]
  BY <1>13 DEF PagesInv
<1>15. f.id \in DOMAIN booked' /\ booked'[f.id] = f.name
  BY <1>4, <1>8, <1>13
<1>16. last'.id \in DOMAIN booked' /\ last'.by = booked'[last'.id]
  BY <1>4, <1>12, <1>13
<1>17. QED
  BY <1>9, <1>10, <1>14, <1>15, <1>16, PageStep

\* All that a page does.
LEMMA PagesStep ==
    ASSUME PagesInv, stored \in Wallet \cup {None}, NEW t \in FormTab, Pages(t)
    PROVE  PagesInv' /\ UNCHANGED <<dialogVars, loginVars>>
<1>1. UNCHANGED <<dialogVars, loginVars>>
  BY DEF Pages, Book, Press, SubmitForm, invokeEscrow, Report, Render
<1>2. ASSUME SubmitForm(t)  PROVE PagesInv'
  BY <1>2, FlowBegins DEF SubmitForm
<1>3. ASSUME NEW id \in BookingRef, Book(t, id)  PROVE PagesInv'
  <2>1. PICK g : g = flows[t]
    OBVIOUS
  <2>2. g \in Flows /\ g.at = "book"
    BY <1>3, <2>1 DEF Book, Doing, PagesInv
  <2>3. g.name \in Wallet
    BY <2>2 DEF Flows, After
  <2>4. /\ DOMAIN booked' = DOMAIN booked \cup {id} /\ booked'[id] = g.name
        /\ \A x \in DOMAIN booked : booked'[x] = booked[x]
        /\ Begin(t, "create_booking", id, g.name) /\ UNCHANGED last
    BY <1>3, <2>1 DEF Book, NameOf
  <2>5. "create_booking" \in DOMAIN After
    BY DEF After
  <2>6. QED
    BY <2>3, <2>4, <2>5, FlowBegins
<1>4. ASSUME NEW id \in BookingRef, Press(t, id)  PROVE PagesInv'
  <2>1. PICK name : name = flows[t].name
    OBVIOUS
  <2>2. /\ id \in DOMAIN booked /\ name = booked[id] /\ name \in Wallet
        /\ Begin(t, "cancel_booking", id, name) /\ UNCHANGED <<booked, last>>
    BY <1>4, <2>1 DEF Press, Offered, PagesInv
  <2>3. "cancel_booking" \in DOMAIN After
    BY DEF After
  <2>4. QED
    BY <2>2, <2>3, FlowBegins
<1>5. ASSUME Report(t) \/ Render(t)  PROVE PagesInv'
  <2>1. /\ End(t) /\ UNCHANGED booked
        /\ UNCHANGED last \/ (Act(t) /\ flows[t].at = "cancel")
    BY <1>5 DEF Report, Render, Doing
  <2>2. QED
    BY <2>1, EndStep
<1>6. QED
  BY <1>1, <1>2, <1>3, <1>4, <1>5, InvokeStep DEF Pages

\* The page of a tab loaded again is rendered anew.
LEMMA ReloadPages ==
    ASSUME PagesInv, stored \in Wallet \cup {None}, NEW t \in Tab, Reload(t)
    PROVE  PagesInv'
<1>1. PICK f : f = Rendered(stored)
  OBVIOUS
<1>2. f \in Flows /\ f.at = "page"
  BY <1>1, RenderedIsFlow
<1>3. UNCHANGED <<booked, last>>
  BY DEF Reload
<1>4. flows' = [u \in FormTab |-> IF u = t THEN f ELSE flows[u]]
  BY <1>1 DEF Reload
<1>5. flows' \in [FormTab -> Flows] /\ OneName'
  BY <1>2, <1>3, <1>4 DEF PagesInv, OneName
<1>6. QED
  BY <1>3, <1>5 DEF PagesInv, OneNamePerBooking

----------------------------------------------------------------------------
\* What leaves its variables alone leaves each half as it is.
LEMMA HalvesStay ==
    /\ DialogInv /\ UNCHANGED <<dialogVars, loginVars>> => DialogInv'
    /\ PagesInv /\ UNCHANGED flowVars => PagesInv'
<1>1. ASSUME DialogInv, UNCHANGED <<dialogVars, loginVars>>  PROVE DialogInv'
  BY <1>1 DEF DialogInv, dialogVars, loginVars, LoginsTyped, AllReady, Ready, LoggedIn,
     VerifiedWalletsLoggedIn, ActingTabAgrees
<1>2. ASSUME PagesInv, UNCHANGED flowVars  PROVE PagesInv'
  BY <1>2 DEF PagesInv, flowVars, OneName, OneNamePerBooking
<1>3. QED
  BY <1>1, <1>2

\* Every step keeps the invariant.
LEMMA NextInv == IInv /\ [Next]_vars => IInv'
<1> SUFFICES ASSUME DialogInv, PagesInv, [Next]_vars  PROVE DialogInv' /\ PagesInv'
  BY TwoHalves, PTL
<1>1. ASSUME NEW k \in Try, Dialog(k)  PROVE DialogInv' /\ PagesInv'
  BY <1>1, DialogStep, HalvesStay
<1>2. ASSUME NEW t \in FormTab, Pages(t)  PROVE DialogInv' /\ PagesInv'
  BY <1>2, PagesStep, HalvesStay DEF DialogInv
<1>3. ASSUME NEW id \in ChallengeId, ServedLate(id)  PROVE DialogInv' /\ PagesInv'
  BY <1>3, LateStep, HalvesStay
<1>4. ASSUME NEW t \in Tab, Reload(t)  PROVE DialogInv' /\ PagesInv'
  BY <1>4, ReloadDialog, ReloadPages DEF DialogInv
<1>5. UNCHANGED vars => DialogInv' /\ PagesInv'
  BY HalvesStay DEF vars
<1>6. QED
  BY <1>1, <1>2, <1>3, <1>4, <1>5 DEF Next

\* It holds for good.
LEMMA Invariant == Spec => []IInv
BY InitInv, NextInv, PTL DEF Spec

\* What the tabs hold has its type: nothing is ever done for no wallet.
THEOREM TypeCorrect == Spec => []TypeOK
<1>1. IInv => TypeOK
  BY DEF IInv
<1>2. QED
  BY <1>1, Invariant, PTL

\* A Freighter wallet on show has logged in, in whatever order connections, refusals,
\* late answers and reloads come.
THEOREM WalletsLoggedIn == Spec => []VerifiedWalletsLoggedIn
<1>1. IInv => VerifiedWalletsLoggedIn
  BY DEF IInv
<1>2. QED
  BY <1>1, Invariant, PTL

\* The tab that wrote last shows the wallet that is stored.
THEOREM TabAgrees == Spec => []ActingTabAgrees
<1>1. IInv => ActingTabAgrees
  BY DEF IInv
<1>2. QED
  BY <1>1, Invariant, PTL

\* A booking is made, paid, cancelled and reported in one name.
THEOREM OneNameEach == Spec => []OneNamePerBooking
<1>1. IInv => OneNamePerBooking
  BY DEF IInv
<1>2. QED
  BY <1>1, Invariant, PTL
==============================================================================
