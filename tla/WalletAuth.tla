----------------------------- MODULE WalletAuth -----------------------------
(***************************************************************************)
(* Logging in with a wallet (apps/api/src/auth): the API issues a message, *)
(* the wallet signs it, and the signature is exchanged for a session.      *)
(*                                                                         *)
(* A challenge lives twice: in the memory of the process that issued it,   *)
(* where it is checked and marked without an await, and in the database,   *)
(* which every process falls back to and which alone survives a restart.   *)
(* A message is its challenge's id: id, address, origin and expiry fix its *)
(* text, in either place.                                                  *)
(***************************************************************************)
EXTENDS Integers, Sequences

CONSTANTS Process,          \* API processes over one database
          Worker,           \* requests being served
          ChallengeId, Wallet,
          Origin, AllowedOrigin,
          ChallengeLife,    \* five minutes
          SessionLife,      \* fifteen minutes
          Idle,             \* a worker with nothing to do
          MaxTime           \* bound of the model: the clock stops here

ASSUME AuthAssumption ==
    /\ AllowedOrigin \subseteq Origin
    /\ ChallengeLife \in Nat \ {0} /\ SessionLife \in Nat \ {0}
    /\ MaxTime \in Nat

VARIABLES memory,       \* the challenges each process remembers
          table,        \* AuthChallenge: the challenges stored
          sessions,     \* UserSession, in the order of their creation
          signatures,   \* who has signed which message
          requests,     \* what each worker is doing
          now

vars == <<memory, table, sessions, signatures, requests, now>>

Times == 0 .. MaxTime + ChallengeLife
Challenge == [address : Wallet, origin : Origin, expiresAt : Times, used : BOOLEAN]

\* A session as stored, and the request that opened it.
Session == [address : Wallet, expiresAt : 0 .. MaxTime + SessionLife,
            challenge : ChallengeId, origin : Origin]

NoChallenges == [id \in {} |-> <<>>]
With(f, id, c) == [x \in DOMAIN f \cup {id} |-> IF x = id THEN c ELSE f[x]]

Init ==
    /\ memory = [p \in Process |-> NoChallenges]
    /\ table = NoChallenges
    /\ sessions = <<>>
    /\ signatures = {}
    /\ requests = [w \in Worker |-> Idle]
    /\ now = 0

Becomes(w, r) == requests' = [requests EXCEPT ![w] = r]
At(w, stage) == requests[w] # Idle /\ requests[w].at = stage

Fresh(id) ==
    /\ id \notin DOMAIN table
    /\ \A p \in Process : id \notin DOMAIN memory[p]

----------------------------------------------------------------------------
\* POST /api/auth/challenge: in memory at once, in the table after an await.
Issue(w, p, id, address, origin) ==
    /\ requests[w] = Idle
    /\ origin \in AllowedOrigin
    /\ Fresh(id)
    /\ memory' = [memory EXCEPT ![p] = With(@, id,
          [address |-> address, origin |-> origin, expiresAt |-> now + ChallengeLife,
           used |-> FALSE])]
    /\ Becomes(w, [at |-> "store", process |-> p, id |-> id])
    /\ UNCHANGED <<table, sessions, signatures, now>>

IssueStore(w) ==
    /\ At(w, "store")
    /\ LET r == requests[w] IN table' = With(table, r.id, memory[r.process][r.id])
    /\ Becomes(w, Idle)
    /\ UNCHANGED <<memory, sessions, signatures, now>>

\* A wallet signs a message its page was given, whoever it was issued for.
Sign(a, id) ==
    /\ id \in DOMAIN table
    /\ signatures' = signatures \cup {[by |-> a, id |-> id]}
    /\ UNCHANGED <<memory, table, sessions, requests, now>>

\* Mutant: a challenge is still good when its time is up.
Accepts_late(challenge, id, address, origin) ==
    /\ ~ challenge.used
    /\ challenge.expiresAt >= now
    /\ challenge.address = address /\ challenge.origin = origin
    /\ [by |-> address, id |-> id] \in signatures

\* What verify asks of a challenge, from memory or from the table.
Accepts(challenge, id, address, origin) ==
    /\ ~ challenge.used
    /\ challenge.expiresAt > now
    /\ challenge.address = address /\ challenge.origin = origin
    /\ [by |-> address, id |-> id] \in signatures

\* Mutant: the session's time is counted from the end of the challenge's.
Opening_late(p, id, address, origin) ==
    [at |-> "commit", process |-> p, id |-> id, address |-> address, origin |-> origin,
     expiresAt |-> table[id].expiresAt + SessionLife]

\* The handler now waits for its transaction, the expiry of the session fixed.
Opening(p, id, address, origin) ==
    [at |-> "commit", process |-> p, id |-> id, address |-> address, origin |-> origin,
     expiresAt |-> now + SessionLife]

\* POST /api/auth/verify where the challenge was issued: checked and marked at once.
\* What is refused changes nothing.
VerifyFromMemory(w, p, id, address, origin) ==
    /\ requests[w] = Idle
    /\ id \in DOMAIN table /\ id \in DOMAIN memory[p]
    /\ Accepts(memory[p][id], id, address, origin)
    /\ memory' = [memory EXCEPT ![p][id].used = TRUE]
    /\ Becomes(w, Opening(p, id, address, origin))
    /\ UNCHANGED <<table, sessions, signatures, now>>

\* The same elsewhere, or after a restart: the table is read first.
VerifyElsewhere(w, p, id, address, origin) ==
    /\ requests[w] = Idle
    /\ id \in DOMAIN table /\ id \notin DOMAIN memory[p]
    /\ Becomes(w, [at |-> "read", process |-> p, id |-> id, address |-> address,
                   origin |-> origin])
    /\ UNCHANGED <<memory, table, sessions, signatures, now>>

VerifyFromTable(w) ==
    /\ At(w, "read")
    /\ LET r == requests[w]
       IN  Becomes(w, IF Accepts(table[r.id], r.id, r.address, r.origin)
                      THEN Opening(r.process, r.id, r.address, r.origin)
                      ELSE Idle)
    /\ UNCHANGED <<memory, table, sessions, signatures, now>>

SessionOf(r) == [address |-> r.address, expiresAt |-> r.expiresAt,
                 challenge |-> r.id, origin |-> r.origin]

\* Mutant: the challenge is not looked at again when it is consumed.
Commit_unchecked(w) ==
    /\ At(w, "commit")
    /\ LET r == requests[w]
       IN  /\ table' = [table EXCEPT ![r.id].used = TRUE]
           /\ sessions' = Append(sessions, SessionOf(r))
    /\ Becomes(w, Idle)
    /\ UNCHANGED <<memory, signatures, now>>

\* One transaction: the row is consumed if nobody consumed it, and the session stored.
Commit(w) ==
    /\ At(w, "commit")
    /\ LET r == requests[w]
       IN  IF table[r.id].used
           THEN UNCHANGED <<table, sessions>>
           ELSE /\ table' = [table EXCEPT ![r.id].used = TRUE]
                /\ sessions' = Append(sessions, SessionOf(r))
    /\ Becomes(w, Idle)
    /\ UNCHANGED <<memory, signatures, now>>

\* The database fails a handler that waits for it; what is in memory stays as it is.
DatabaseFails(w) ==
    /\ requests[w] # Idle
    /\ Becomes(w, Idle)
    /\ UNCHANGED <<memory, table, sessions, signatures, now>>

\* A process stops and starts again: its memory and its requests are gone.
Restart(p) ==
    /\ memory' = [memory EXCEPT ![p] = NoChallenges]
    /\ requests' = [w \in Worker |->
          IF requests[w] # Idle /\ requests[w].process = p THEN Idle ELSE requests[w]]
    /\ UNCHANGED <<table, sessions, signatures, now>>

Tick ==
    /\ now < MaxTime
    /\ now' = now + 1
    /\ UNCHANGED <<memory, table, sessions, signatures, requests>>

Serve(w) == IssueStore(w) \/ VerifyFromTable(w) \/ Commit(w) \/ DatabaseFails(w)

Next ==
    \/ \E w \in Worker, p \in Process, id \in ChallengeId, a \in Wallet, o \in Origin :
          \/ Issue(w, p, id, a, o)
          \/ VerifyFromMemory(w, p, id, a, o)
          \/ VerifyElsewhere(w, p, id, a, o)
    \/ \E w \in Worker : Serve(w)
    \/ \E a \in Wallet, id \in ChallengeId : Sign(a, id)
    \/ \E p \in Process : Restart(p)
    \/ Tick

Spec == Init /\ [][Next]_vars

----------------------------------------------------------------------------
(***************************************************************************)
(* Properties                                                              *)
(***************************************************************************)
\* Challenges and sessions are what issue and verify make them.
TypeOK ==
    /\ \A p \in Process : \A id \in DOMAIN memory[p] :
          id \in ChallengeId /\ memory[p][id] \in Challenge
    /\ DOMAIN table \subseteq ChallengeId
    /\ \A id \in DOMAIN table : table[id] \in Challenge
    /\ sessions \in Seq(Session)

\* One signature opens one session, also when it is posted to two processes at once,
\* or again after a restart has forgotten that it was used; and a challenge is not
\* consumed without its session.
OneSessionPerChallenge ==
    /\ \A i, j \in 1 .. Len(sessions) :
          sessions[i].challenge = sessions[j].challenge => i = j
    /\ \A id \in DOMAIN table :
          table[id].used <=> \E i \in 1 .. Len(sessions) : sessions[i].challenge = id

\* A session belongs to the wallet its challenge was issued to and that signed it, was
\* asked for from the origin it was issued to, while the challenge lasted.
SessionsAreEarned ==
    \A i \in 1 .. Len(sessions) :
        LET s == sessions[i] IN
        /\ s.challenge \in DOMAIN table
        /\ [by |-> s.address, id |-> s.challenge] \in signatures
        /\ LET c == table[s.challenge] IN
           /\ c.address = s.address
           /\ c.origin = s.origin /\ c.origin \in AllowedOrigin
           /\ c.expiresAt > s.expiresAt - SessionLife

\* Processes, copies in memory, awaits, failures and restarts hidden, logging in keeps
\* its promise.
Promise == INSTANCE LoginPromise WITH
    issued <- [id \in DOMAIN table |-> table[id].address],
    signed <- signatures,
    opened <- [i \in DOMAIN sessions |->
                  [address |-> sessions[i].address, challenge |-> sessions[i].challenge]]
KeepsTheLoginPromise == Promise!Spec
=============================================================================
