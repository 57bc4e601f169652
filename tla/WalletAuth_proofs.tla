--------------------------- MODULE WalletAuth_proofs ---------------------------
(***************************************************************************)
(* Theorems about WalletAuth, for any number of processes, requests,       *)
(* challenges, wallets and origins.                                        *)
(***************************************************************************)
EXTENDS WalletAuth, SequenceTheorems, TLAPS

\* Every process has a memory, every worker a request, and the clock is in its range.
Shape ==
    /\ DOMAIN memory = Process
    /\ DOMAIN requests = Worker
    /\ now \in 0 .. MaxTime

\* A challenge is in one process's memory at most, and there as it is in the table but
\* for the mark of its use.
Copies ==
    /\ \A p, q \in Process : \A id \in DOMAIN memory[p] :
          id \in DOMAIN memory[q] => p = q
    /\ \A p \in Process : \A id \in DOMAIN memory[p] :
          /\ memory[p][id].origin \in AllowedOrigin
          /\ id \in DOMAIN table =>
                /\ table[id].address = memory[p][id].address
                /\ table[id].origin = memory[p][id].origin
                /\ table[id].expiresAt = memory[p][id].expiresAt
    /\ \A id \in DOMAIN table : table[id].origin \in AllowedOrigin

\* A challenge about to be stored is not stored yet, is unused, and is being stored once.
Stores ==
    \A w \in Worker : At(w, "store") =>
        LET r == requests[w] IN
        /\ r.process \in Process
        /\ r.id \in DOMAIN memory[r.process]
        /\ r.id \notin DOMAIN table
        /\ memory[r.process][r.id].used = FALSE
        /\ \A v \in Worker : At(v, "store") /\ requests[v].id = r.id => v = w

\* A challenge about to be read is stored.
Reads == \A w \in Worker : At(w, "read") => requests[w].id \in DOMAIN table

\* What a request that waits for its transaction has seen of its challenge stays true.
Commits ==
    \A w \in Worker : At(w, "commit") =>
        LET r == requests[w] IN
        /\ r.id \in DOMAIN table
        /\ [by |-> r.address, id |-> r.id] \in signatures
        /\ table[r.id].address = r.address
        /\ table[r.id].origin = r.origin
        /\ r.expiresAt \in 0 .. MaxTime + SessionLife
        /\ table[r.id].expiresAt > r.expiresAt - SessionLife

\* The inductive invariant.
IInv ==
    /\ TypeOK /\ Shape /\ Copies /\ Stores /\ Reads /\ Commits
    /\ OneSessionPerChallenge /\ SessionsAreEarned

----------------------------------------------------------------------------
\* A request that changes leaves the other ones as they are.
LEMMA BecomesOne ==
    ASSUME Shape, NEW w \in Worker, NEW r, Becomes(w, r)
    PROVE  /\ DOMAIN requests' = Worker
           /\ requests'[w] = r
           /\ \A v \in Worker : v # w => requests'[v] = requests[v]
BY DEF Shape, Becomes

\* Nothing remembered, stored, signed or served: the invariant holds.
LEMMA InitInv == Init => IInv
<1> SUFFICES ASSUME Init PROVE IInv
  OBVIOUS
<1> USE AuthAssumption
<1>0. \A w \in Worker : requests[w] = Idle
  BY DEF Init
<1>1. \A w \in Worker, stage \in {"store", "read", "commit"} : ~ At(w, stage)
  BY <1>0 DEF At
<1>2. sessions \in Seq(Session) /\ Len(sessions) = 0
  BY DEF Init
<1>3. TypeOK
  BY <1>2 DEF Init, TypeOK, NoChallenges
<1>4. Shape
  BY DEF Init, Shape
<1>5. Copies
  BY DEF Init, Copies, NoChallenges
<1>6. Stores /\ Reads /\ Commits
  BY <1>1 DEF Stores, Reads, Commits
<1>7. OneSessionPerChallenge /\ SessionsAreEarned
  BY <1>2 DEF Init, OneSessionPerChallenge, SessionsAreEarned, NoChallenges
<1>8. QED
  BY <1>3, <1>4, <1>5, <1>6, <1>7 DEF IInv

----------------------------------------------------------------------------
\* Issue: a new challenge, in the memory of one process only.
LEMMA IssueStep ==
    ASSUME IInv, NEW w \in Worker, NEW p \in Process, NEW id \in ChallengeId,
           NEW address \in Wallet, NEW origin \in Origin, Issue(w, p, id, address, origin)
    PROVE  IInv'
<1> USE AuthAssumption
<1> DEFINE c == [address |-> address, origin |-> origin,
                 expiresAt |-> now + ChallengeLife, used |-> FALSE]
           r == [at |-> "store", process |-> p, id |-> id]
<1>1. /\ DOMAIN requests' = Worker
      /\ requests'[w] = r
      /\ \A v \in Worker : v # w => requests'[v] = requests[v]
  BY BecomesOne DEF IInv, Issue
<1>2. /\ \A q \in Process : q # p => memory'[q] = memory[q]
      /\ DOMAIN memory' = Process
      /\ memory'[p] = With(memory[p], id, c)
  BY DEF IInv, Shape, Issue
<1>3. /\ DOMAIN memory'[p] = DOMAIN memory[p] \cup {id}
      /\ memory'[p][id] = c
      /\ \A x \in DOMAIN memory[p] : x # id => memory'[p][x] = memory[p][x]
  BY <1>2 DEF With
<1>4. /\ id \notin DOMAIN table /\ \A q \in Process : id \notin DOMAIN memory[q]
      /\ origin \in AllowedOrigin
      /\ UNCHANGED <<table, sessions, signatures, now>>
  BY DEF Issue, Fresh
<1> HIDE DEF c
<1>5. c \in Challenge /\ c.origin \in AllowedOrigin /\ c.used = FALSE
  BY <1>4 DEF c, Challenge, Times, IInv, Shape
<1>6. TypeOK'
  <2>1. \A q \in Process : \A x \in DOMAIN memory'[q] :
           x \in ChallengeId /\ memory'[q][x] \in Challenge
    BY <1>2, <1>3, <1>5 DEF IInv, TypeOK
  <2>2. QED
    BY <2>1, <1>4 DEF IInv, TypeOK
<1>7. Shape'
  BY <1>1, <1>2, <1>4 DEF IInv, Shape
<1>8. Copies'
  <2>1. \A q \in Process : \A x \in DOMAIN memory'[q] :
           \/ q = p /\ x = id
           \/ x # id /\ x \in DOMAIN memory[q] /\ memory'[q][x] = memory[q][x]
    BY <1>2, <1>3, <1>4
  <2>2. \A q1, q2 \in Process : \A x \in DOMAIN memory'[q1] :
           x \in DOMAIN memory'[q2] => q1 = q2
    BY <2>1 DEF IInv, Copies
  <2>3. \A q \in Process : \A x \in DOMAIN memory'[q] :
           /\ memory'[q][x].origin \in AllowedOrigin
           /\ x \in DOMAIN table =>
                /\ table[x].address = memory'[q][x].address
                /\ table[x].origin = memory'[q][x].origin
                /\ table[x].expiresAt = memory'[q][x].expiresAt
    BY <2>1, <1>3, <1>4, <1>5 DEF IInv, Copies
  <2>4. QED
    BY <2>2, <2>3, <1>4 DEF IInv, Copies
<1>9. Stores'
  <2> SUFFICES ASSUME NEW v \in Worker, At(v, "store")'
               PROVE  /\ requests'[v].process \in Process
                      /\ requests'[v].id \in DOMAIN memory'[requests'[v].process]
                      /\ requests'[v].id \notin DOMAIN table'
                      /\ memory'[requests'[v].process][requests'[v].id].used = FALSE
                      /\ \A u \in Worker : At(u, "store")' /\ requests'[u].id = requests'[v].id
                            => u = v
    BY DEF Stores
  <2>1. \A u \in Worker : At(u, "store")' => u = w \/ (At(u, "store") /\ requests'[u] = requests[u])
    BY <1>1 DEF At
  <2>2. \A u \in Worker : u # w /\ At(u, "store")' => requests'[u].id # id
    BY <2>1, <1>4 DEF IInv, Stores
  <2>3. CASE v = w
    BY <2>3, <1>1, <1>3, <1>4, <1>5, <2>2
  <2>4. CASE v # w
    <3>1. At(v, "store") /\ requests'[v] = requests[v]
      BY <2>1, <2>4
    <3>2. /\ requests[v].process \in Process
          /\ requests[v].id \in DOMAIN memory[requests[v].process]
          /\ requests[v].id \notin DOMAIN table
          /\ memory[requests[v].process][requests[v].id].used = FALSE
          /\ \A u \in Worker : At(u, "store") /\ requests[u].id = requests[v].id => u = v
      BY <3>1 DEF IInv, Stores
    <3>3. \A u \in Worker : At(u, "store")' /\ requests'[u].id = requests'[v].id => u = v
      BY <2>1, <2>2, <2>4, <1>1, <3>1, <3>2
    <3>4. QED
      BY <3>1, <3>2, <3>3, <1>2, <1>3, <1>4
  <2>5. QED
    BY <2>3, <2>4
<1>10. Reads' /\ Commits'
  <2>1. \A v \in Worker, stage \in {"read", "commit"} :
           At(v, stage)' => At(v, stage) /\ requests'[v] = requests[v]
    BY <1>1 DEF At
  <2>2. QED
    BY <2>1, <1>4 DEF IInv, Reads, Commits
<1>11. OneSessionPerChallenge' /\ SessionsAreEarned'
  BY <1>4 DEF IInv, OneSessionPerChallenge, SessionsAreEarned
<1>12. QED
  BY <1>6, <1>7, <1>8, <1>9, <1>10, <1>11 DEF IInv

\* A step that touches requests only, and stores nothing, keeps the invariant if those
\* that read and commit are as they should be.
LEMMA QuietStep ==
    ASSUME IInv, UNCHANGED <<memory, table, sessions>>, signatures \subseteq signatures',
           Shape', Reads', Commits',
           \A v \in Worker : At(v, "store")' => At(v, "store") /\ requests'[v] = requests[v]
    PROVE  IInv'
<1>1. TypeOK' /\ Copies' /\ OneSessionPerChallenge'
  BY DEF IInv, TypeOK, Copies, OneSessionPerChallenge
<1>2. SessionsAreEarned'
  BY DEF IInv, SessionsAreEarned
<1>3. Stores'
  BY DEF IInv, Stores
<1>4. QED
  BY <1>1, <1>2, <1>3 DEF IInv

\* Once a worker waits for nothing, or for something else, the others are unaffected.
LEMMA OthersStay ==
    ASSUME IInv, NEW w \in Worker, NEW r, Becomes(w, r),
           NEW v \in Worker, v # w, NEW stage
    PROVE  At(v, stage)' => At(v, stage) /\ requests'[v] = requests[v]
BY BecomesOne DEF IInv, At

\* A signature more takes none away.
LEMMA SignStep ==
    ASSUME IInv, NEW a \in Wallet, NEW id \in ChallengeId, Sign(a, id)
    PROVE  IInv'
<1>1. /\ UNCHANGED <<memory, table, sessions, requests, now>>
      /\ signatures \subseteq signatures'
  BY DEF Sign
<1>2. \A v \in Worker, stage \in {"store", "read", "commit"} : At(v, stage)' = At(v, stage)
  BY <1>1 DEF At
<1>3. Shape' /\ Reads' /\ Commits'
  BY <1>1, <1>2 DEF IInv, Shape, Reads, Commits
<1>4. QED
  BY <1>1, <1>2, <1>3, QuietStep

\* Time passes: what was in time when it was looked at was so then.
LEMMA TickStep == IInv /\ Tick => IInv'
<1> SUFFICES ASSUME IInv, Tick PROVE IInv'
  OBVIOUS
<1>1. UNCHANGED <<memory, table, sessions, signatures, requests>>
  BY DEF Tick
<1>2. \A v \in Worker, stage \in {"store", "read", "commit"} : At(v, stage)' = At(v, stage)
  BY <1>1 DEF At
<1>3. Shape'
  BY <1>1, AuthAssumption DEF IInv, Shape, Tick
<1>4. Reads' /\ Commits'
  BY <1>1, <1>2 DEF IInv, Reads, Commits
<1>5. QED
  BY <1>1, <1>2, <1>3, <1>4, QuietStep

\* A worker that gives up.
LEMMA DatabaseFailsStep ==
    ASSUME IInv, NEW w \in Worker, DatabaseFails(w)
    PROVE  IInv'
<1>1. /\ UNCHANGED <<memory, table, sessions, signatures, now>>
      /\ requests'[w] = Idle /\ DOMAIN requests' = Worker
      /\ \A v \in Worker : v # w => requests'[v] = requests[v]
  BY BecomesOne DEF DatabaseFails, IInv
<1>2. \A v \in Worker, stage \in {"store", "read", "commit"} :
         At(v, stage)' => At(v, stage) /\ requests'[v] = requests[v]
  BY <1>1 DEF At
<1>3. Shape' /\ Reads' /\ Commits'
  BY <1>1, <1>2 DEF IInv, Shape, Reads, Commits
<1>4. QED
  BY <1>1, <1>2, <1>3, QuietStep

\* A request elsewhere goes to the table for a challenge that is there.
LEMMA VerifyElsewhereStep ==
    ASSUME IInv, NEW w \in Worker, NEW p \in Process, NEW id \in ChallengeId,
           NEW address \in Wallet, NEW origin \in Origin,
           VerifyElsewhere(w, p, id, address, origin)
    PROVE  IInv'
<1>1. /\ UNCHANGED <<memory, table, sessions, signatures, now>>
      /\ requests'[w].at = "read" /\ requests'[w].id = id /\ id \in DOMAIN table
      /\ DOMAIN requests' = Worker
      /\ \A v \in Worker : v # w => requests'[v] = requests[v]
  BY BecomesOne DEF VerifyElsewhere, IInv
<1>2. \A v \in Worker, stage \in {"store", "commit"} :
         At(v, stage)' => At(v, stage) /\ requests'[v] = requests[v]
  BY <1>1 DEF At
<1>3. Reads'
  BY <1>1 DEF IInv, Reads, At
<1>4. Shape' /\ Commits'
  BY <1>1, <1>2 DEF IInv, Shape, Commits
<1>5. QED
  BY <1>1, <1>2, <1>3, <1>4, QuietStep

\* What is accepted may open a session.
LEMMA VerifyFromTableStep ==
    ASSUME IInv, NEW w \in Worker, VerifyFromTable(w)
    PROVE  IInv'
<1> USE AuthAssumption
<1> DEFINE r == requests[w]
           next == IF Accepts(table[r.id], r.id, r.address, r.origin)
                   THEN Opening(r.process, r.id, r.address, r.origin) ELSE Idle
<1>1. /\ UNCHANGED <<memory, table, sessions, signatures, now>>
      /\ requests'[w] = next /\ DOMAIN requests' = Worker
      /\ \A v \in Worker : v # w => requests'[v] = requests[v]
      /\ r.id \in DOMAIN table
  BY BecomesOne DEF VerifyFromTable, IInv, Reads
<1>2. \A v \in Worker, stage \in {"store", "read", "commit"} :
         v # w /\ At(v, stage)' => At(v, stage) /\ requests'[v] = requests[v]
  BY <1>1 DEF At
<1>3. \A stage \in {"store", "read"} : ~ At(w, stage)'
  BY <1>1 DEF At, Opening
<1>4. ASSUME At(w, "commit")'
      PROVE  /\ requests'[w].id = r.id /\ requests'[w].address = r.address
             /\ requests'[w].origin = r.origin /\ requests'[w].expiresAt = now + SessionLife
             /\ Accepts(table[r.id], r.id, r.address, r.origin)
  BY <1>4, <1>1 DEF At, Opening
<1>5. Shape' /\ Reads'
  BY <1>1, <1>2, <1>3 DEF IInv, Shape, Reads
<1>6. now \in 0 .. MaxTime /\ \A id \in DOMAIN table : table[id].expiresAt \in Nat
  BY DEF IInv, Shape, TypeOK, Challenge, Times
<1>7. Commits'
  <2> SUFFICES ASSUME NEW v \in Worker, At(v, "commit")'
               PROVE  /\ requests'[v].id \in DOMAIN table
                      /\ [by |-> requests'[v].address, id |-> requests'[v].id] \in signatures
                      /\ table[requests'[v].id].address = requests'[v].address
                      /\ table[requests'[v].id].origin = requests'[v].origin
                      /\ requests'[v].expiresAt \in 0 .. MaxTime + SessionLife
                      /\ table[requests'[v].id].expiresAt > requests'[v].expiresAt - SessionLife
    BY <1>1 DEF Commits
  <2>1. CASE v = w
    BY <2>1, <1>1, <1>4, <1>6 DEF Accepts
  <2>2. CASE v # w
    BY <2>2, <1>2 DEF IInv, Commits
  <2>3. QED
    BY <2>1, <2>2
<1>8. \A v \in Worker : At(v, "store")' => At(v, "store") /\ requests'[v] = requests[v]
  BY <1>2, <1>3
<1>9. QED
  BY <1>1, <1>5, <1>7, <1>8, QuietStep

\* Where the challenge was issued it is checked and marked at once, in memory only.
LEMMA VerifyFromMemoryStep ==
    ASSUME IInv, NEW w \in Worker, NEW p \in Process, NEW id \in ChallengeId,
           NEW address \in Wallet, NEW origin \in Origin,
           VerifyFromMemory(w, p, id, address, origin)
    PROVE  IInv'
<1> USE AuthAssumption
<1>1. /\ UNCHANGED <<table, sessions, signatures, now>>
      /\ requests'[w] = Opening(p, id, address, origin) /\ DOMAIN requests' = Worker
      /\ \A v \in Worker : v # w => requests'[v] = requests[v]
      /\ id \in DOMAIN table /\ id \in DOMAIN memory[p]
      /\ Accepts(memory[p][id], id, address, origin)
  BY BecomesOne DEF VerifyFromMemory, IInv
<1>2. /\ DOMAIN memory' = Process
      /\ \A q \in Process : DOMAIN memory'[q] = DOMAIN memory[q]
      /\ \A q \in Process : \A x \in DOMAIN memory[q] :
            memory'[q][x] = IF q = p /\ x = id THEN [memory[q][x] EXCEPT !.used = TRUE]
                            ELSE memory[q][x]
  BY DEF VerifyFromMemory, IInv, Shape
<1>3. \A q \in Process : \A x \in DOMAIN memory[q] :
         /\ x \in ChallengeId /\ memory[q][x] \in Challenge
         /\ memory'[q][x] \in Challenge
         /\ memory'[q][x].address = memory[q][x].address
         /\ memory'[q][x].origin = memory[q][x].origin
         /\ memory'[q][x].expiresAt = memory[q][x].expiresAt
  <2> SUFFICES ASSUME NEW q \in Process, NEW x \in DOMAIN memory[q]
               PROVE  /\ x \in ChallengeId /\ memory[q][x] \in Challenge
                      /\ memory'[q][x] \in Challenge
                      /\ memory'[q][x].address = memory[q][x].address
                      /\ memory'[q][x].origin = memory[q][x].origin
                      /\ memory'[q][x].expiresAt = memory[q][x].expiresAt
    OBVIOUS
  <2>1. x \in ChallengeId /\ memory[q][x] \in Challenge
    BY DEF IInv, TypeOK
  <2>2. memory'[q][x] = memory[q][x]
           \/ memory'[q][x] = [memory[q][x] EXCEPT !.used = TRUE]
    BY <1>2
  <2>3. QED
    BY <2>1, <2>2 DEF Challenge
<1>4. \A v \in Worker, stage \in {"store", "read", "commit"} :
         v # w /\ At(v, stage)' => At(v, stage) /\ requests'[v] = requests[v]
  BY <1>1 DEF At
<1>5. \A stage \in {"store", "read"} : ~ At(w, stage)'
  BY <1>1 DEF At, Opening
<1>6. TypeOK'
  BY <1>1, <1>2, <1>3 DEF IInv, TypeOK
<1>7. Shape' /\ Reads'
  BY <1>1, <1>2, <1>4, <1>5 DEF IInv, Shape, Reads
<1>8. Copies'
  BY <1>1, <1>2, <1>3 DEF IInv, Copies
<1>9. Stores'
  <2>1. \A v \in Worker : At(v, "store")' => At(v, "store") /\ requests'[v] = requests[v]
    BY <1>4, <1>5
  <2>2. \A v \in Worker : At(v, "store") => requests[v].id # id
    BY <1>1 DEF IInv, Stores
  <2>3. \A v \in Worker : At(v, "store") =>
           /\ requests[v].id \in DOMAIN memory'[requests[v].process]
           /\ memory'[requests[v].process][requests[v].id].used = FALSE
    <3> SUFFICES ASSUME NEW v \in Worker, At(v, "store")
                 PROVE  /\ requests[v].id \in DOMAIN memory'[requests[v].process]
                        /\ memory'[requests[v].process][requests[v].id].used = FALSE
      OBVIOUS
    <3>1. /\ requests[v].process \in Process
          /\ requests[v].id \in DOMAIN memory[requests[v].process]
          /\ memory[requests[v].process][requests[v].id].used = FALSE
      BY DEF IInv, Stores
    <3>2. requests[v].id # id
      BY <2>2
    <3>3. QED
      BY <1>2, <3>1, <3>2
  <2>4. QED
    BY <1>1, <2>1, <2>3 DEF IInv, Stores
<1>10. Commits'
  <2>1. /\ table[id].address = memory[p][id].address
        /\ table[id].origin = memory[p][id].origin
        /\ table[id].expiresAt = memory[p][id].expiresAt
    BY <1>1 DEF IInv, Copies
  <2>2. now \in 0 .. MaxTime /\ table[id].expiresAt \in Nat
    BY <1>1 DEF IInv, Shape, TypeOK, Challenge, Times
  <2> SUFFICES ASSUME NEW v \in Worker, At(v, "commit")'
               PROVE  /\ requests'[v].id \in DOMAIN table
                      /\ [by |-> requests'[v].address, id |-> requests'[v].id] \in signatures
                      /\ table[requests'[v].id].address = requests'[v].address
                      /\ table[requests'[v].id].origin = requests'[v].origin
                      /\ requests'[v].expiresAt \in 0 .. MaxTime + SessionLife
                      /\ table[requests'[v].id].expiresAt > requests'[v].expiresAt - SessionLife
    BY <1>1 DEF Commits
  <2>3. CASE v = w
    BY <2>1, <2>2, <2>3, <1>1 DEF Accepts, Opening
  <2>4. CASE v # w
    BY <2>4, <1>4 DEF IInv, Commits
  <2>5. QED
    BY <2>3, <2>4
<1>11. OneSessionPerChallenge' /\ SessionsAreEarned'
  BY <1>1 DEF IInv, OneSessionPerChallenge, SessionsAreEarned
<1>12. QED
  BY <1>6, <1>7, <1>8, <1>9, <1>10, <1>11 DEF IInv

\* What a challenge is when it gets stored.
LEMMA IssueStoreAdds ==
    ASSUME IInv, NEW w \in Worker, IssueStore(w)
    PROVE  LET id == requests[w].id
               c == memory[requests[w].process][id]
           IN  /\ id \in ChallengeId /\ id \notin DOMAIN table
               /\ requests[w].process \in Process /\ id \in DOMAIN memory[requests[w].process]
               /\ c \in Challenge /\ c.used = FALSE /\ c.origin \in AllowedOrigin
               /\ table' = With(table, id, c)
               /\ DOMAIN table' = DOMAIN table \cup {id}
               /\ table'[id] = c
               /\ \A x \in DOMAIN table : table'[x] = table[x]
               /\ UNCHANGED <<memory, sessions, signatures, now>>
<1> DEFINE id == requests[w].id
           p == requests[w].process
           c == memory[p][id]
<1>1. /\ p \in Process /\ id \in DOMAIN memory[p] /\ id \notin DOMAIN table
      /\ c.used = FALSE
  BY DEF IInv, Stores, IssueStore
<1>2. id \in ChallengeId /\ c \in Challenge /\ c.origin \in AllowedOrigin
  BY <1>1 DEF IInv, TypeOK, Copies
<1>3. table' = With(table, id, c) /\ UNCHANGED <<memory, sessions, signatures, now>>
  BY DEF IssueStore
<1>4. /\ DOMAIN table' = DOMAIN table \cup {id}
      /\ table'[id] = c
      /\ \A x \in DOMAIN table : table'[x] = table[x]
  BY <1>1, <1>3 DEF With
<1>5. QED
  BY <1>1, <1>2, <1>3, <1>4

\* Storing: the copy in the table is the one in memory, and no session is open for it.
LEMMA IssueStoreStep ==
    ASSUME IInv, NEW w \in Worker, IssueStore(w)
    PROVE  IInv'
<1> DEFINE id == requests[w].id
           p == requests[w].process
           c == memory[p][id]
<1>1. /\ id \in ChallengeId /\ id \notin DOMAIN table
      /\ p \in Process /\ id \in DOMAIN memory[p]
      /\ c \in Challenge /\ c.used = FALSE /\ c.origin \in AllowedOrigin
      /\ DOMAIN table' = DOMAIN table \cup {id}
      /\ table'[id] = c
      /\ \A x \in DOMAIN table : table'[x] = table[x]
      /\ UNCHANGED <<memory, sessions, signatures, now>>
  BY IssueStoreAdds
<1>2. /\ requests'[w] = Idle /\ DOMAIN requests' = Worker
      /\ \A v \in Worker : v # w => requests'[v] = requests[v]
      /\ At(w, "store")
  BY BecomesOne DEF IssueStore, IInv
<1>3. \A v \in Worker, stage \in {"store", "read", "commit"} :
         At(v, stage)' => v # w /\ At(v, stage) /\ requests'[v] = requests[v]
  BY <1>2 DEF At
<1>4. TypeOK'
  BY <1>1 DEF IInv, TypeOK
<1>5. Shape' /\ Reads'
  BY <1>1, <1>2, <1>3 DEF IInv, Shape, Reads
<1>6. Copies'
  <2>1. \A q \in Process : id \in DOMAIN memory[q] => q = p
    BY <1>1 DEF IInv, Copies
  <2>2. \A q \in Process : \A x \in DOMAIN memory[q] : x \in DOMAIN table' =>
           /\ table'[x].address = memory[q][x].address
           /\ table'[x].origin = memory[q][x].origin
           /\ table'[x].expiresAt = memory[q][x].expiresAt
    BY <1>1, <2>1 DEF IInv, Copies
  <2>3. QED
    BY <1>1, <2>2 DEF IInv, Copies
<1>7. Stores'
  <2>1. \A v \in Worker : At(v, "store")' => requests[v].id # id
    BY <1>2, <1>3 DEF IInv, Stores
  <2>2. QED
    BY <1>1, <1>3, <2>1 DEF IInv, Stores
<1>8. Commits'
  BY <1>1, <1>3 DEF IInv, Commits
<1>9. \A i \in 1 .. Len(sessions) : sessions[i].challenge # id
  BY <1>1 DEF IInv, SessionsAreEarned
<1>10. OneSessionPerChallenge' /\ SessionsAreEarned'
  <2>1. OneSessionPerChallenge'
    BY <1>1, <1>9 DEF IInv, OneSessionPerChallenge
  <2>2. SessionsAreEarned'
    BY <1>1, <1>9 DEF IInv, SessionsAreEarned
  <2>3. QED
    BY <2>1, <2>2
<1>11. QED
  BY <1>4, <1>5, <1>6, <1>7, <1>8, <1>10 DEF IInv

\* A process that restarts takes its requests with it.
LEMMA RestartStep ==
    ASSUME IInv, NEW p \in Process, Restart(p)
    PROVE  IInv'
<1>1. /\ UNCHANGED <<table, sessions, signatures, now>>
      /\ DOMAIN memory' = Process
      /\ DOMAIN memory'[p] = {}
      /\ \A q \in Process : q # p => memory'[q] = memory[q]
      /\ DOMAIN requests' = Worker
      /\ \A v \in Worker : \/ requests'[v] = Idle
                           \/ requests'[v] = requests[v] /\ requests[v].process # p
  BY DEF Restart, IInv, Shape, NoChallenges
<1>2. \A v \in Worker, stage \in {"store", "read", "commit"} :
         At(v, stage)' => /\ At(v, stage) /\ requests'[v] = requests[v]
                          /\ requests[v].process # p
  BY <1>1 DEF At
<1>3. TypeOK'
  BY <1>1 DEF IInv, TypeOK
<1>4. Shape' /\ Reads' /\ Commits'
  BY <1>1, <1>2 DEF IInv, Shape, Reads, Commits
<1>5. Copies'
  BY <1>1 DEF IInv, Copies
<1>6. Stores'
  BY <1>1, <1>2 DEF IInv, Stores
<1>7. OneSessionPerChallenge' /\ SessionsAreEarned'
  BY <1>1 DEF IInv, OneSessionPerChallenge, SessionsAreEarned
<1>8. QED
  BY <1>3, <1>4, <1>5, <1>6, <1>7 DEF IInv

\* A session opened goes to the end of the sessions, and is of its type.
LEMMA SessionAppended ==
    ASSUME IInv, NEW w \in Worker, At(w, "commit"),
           sessions' = Append(sessions, SessionOf(requests[w]))
    PROVE  /\ SessionOf(requests[w]) \in Session
           /\ sessions' \in Seq(Session)
           /\ Len(sessions') = Len(sessions) + 1 /\ Len(sessions) \in Nat
           /\ \A i \in 1 .. Len(sessions) : sessions'[i] = sessions[i]
           /\ sessions'[Len(sessions')] = SessionOf(requests[w])
<1> DEFINE r == requests[w]
           s == SessionOf(r)
<1>1. /\ r.id \in DOMAIN table /\ table[r.id].address = r.address
      /\ table[r.id].origin = r.origin /\ r.expiresAt \in 0 .. MaxTime + SessionLife
  BY DEF IInv, Commits
<1>2. r.id \in ChallengeId /\ table[r.id] \in Challenge /\ sessions \in Seq(Session)
  BY <1>1 DEF IInv, TypeOK
<1>3. r.address \in Wallet /\ r.origin \in Origin
  BY <1>1, <1>2 DEF Challenge
<1>4. s \in Session
  BY <1>1, <1>2, <1>3 DEF SessionOf, Session
<1> HIDE DEF s
<1>5. sessions' = Append(sessions, s)
  BY DEF s
<1>6. /\ sessions' \in Seq(Session)
      /\ Len(sessions') = Len(sessions) + 1 /\ Len(sessions) \in Nat
      /\ \A i \in 1 .. Len(sessions) : sessions'[i] = sessions[i]
      /\ sessions'[Len(sessions')] = s
  BY <1>2, <1>4, <1>5
<1>7. QED
  BY <1>4, <1>6 DEF s

\* The transaction: the challenge consumed and the session stored, or neither.
LEMMA CommitStep ==
    ASSUME IInv, NEW w \in Worker, Commit(w)
    PROVE  IInv'
<1> USE AuthAssumption
<1> DEFINE r == requests[w]
<1>1. /\ UNCHANGED <<memory, signatures, now>> /\ At(w, "commit")
      /\ requests'[w] = Idle /\ DOMAIN requests' = Worker
      /\ \A v \in Worker : v # w => requests'[v] = requests[v]
  BY BecomesOne DEF Commit, IInv
<1>2. \A v \in Worker, stage \in {"store", "read", "commit"} :
         At(v, stage)' => At(v, stage) /\ requests'[v] = requests[v]
  BY <1>1 DEF At
<1>3. Shape'
  BY <1>1 DEF IInv, Shape
<1>4. CASE table[r.id].used
  <2>1. UNCHANGED <<table, sessions>>
    BY <1>4 DEF Commit
  <2>2. Reads' /\ Commits'
    BY <2>1, <1>1, <1>2 DEF IInv, Reads, Commits
  <2>3. QED
    BY <2>1, <2>2, <1>1, <1>2, <1>3, QuietStep
<1>5. CASE ~ table[r.id].used
  <2>1. /\ table' = [table EXCEPT ![r.id].used = TRUE]
        /\ sessions' = Append(sessions, SessionOf(r))
    BY <1>5 DEF Commit
  <2>2. /\ r.id \in DOMAIN table
        /\ [by |-> r.address, id |-> r.id] \in signatures
        /\ table[r.id].address = r.address /\ table[r.id].origin = r.origin
        /\ table[r.id].expiresAt > r.expiresAt - SessionLife
    BY <1>1 DEF IInv, Commits
  <2>3. DOMAIN table' = DOMAIN table
    BY <2>1
  <2>4. \A x \in DOMAIN table :
           /\ x \in ChallengeId /\ table'[x] \in Challenge
           /\ table'[x].address = table[x].address
           /\ table'[x].origin = table[x].origin
           /\ table'[x].expiresAt = table[x].expiresAt
           /\ table'[x].used = IF x = r.id THEN TRUE ELSE table[x].used
    <3> SUFFICES ASSUME NEW x \in DOMAIN table
                 PROVE  /\ x \in ChallengeId /\ table'[x] \in Challenge
                        /\ table'[x].address = table[x].address
                        /\ table'[x].origin = table[x].origin
                        /\ table'[x].expiresAt = table[x].expiresAt
                        /\ table'[x].used = IF x = r.id THEN TRUE ELSE table[x].used
      OBVIOUS
    <3>1. x \in ChallengeId /\ table[x] \in Challenge
      BY DEF IInv, TypeOK
    <3>2. table'[x] = IF x = r.id THEN [table[x] EXCEPT !.used = TRUE] ELSE table[x]
      BY <2>1
    <3>3. QED
      BY <3>1, <3>2 DEF Challenge
  <2>5. /\ sessions' \in Seq(Session)
        /\ Len(sessions') = Len(sessions) + 1 /\ Len(sessions) \in Nat
        /\ \A i \in 1 .. Len(sessions) : sessions'[i] = sessions[i]
        /\ sessions'[Len(sessions')] = SessionOf(r)
    BY <1>1, <2>1, SessionAppended
  <2>6. /\ SessionOf(r).challenge = r.id /\ SessionOf(r).address = r.address
        /\ SessionOf(r).origin = r.origin /\ SessionOf(r).expiresAt = r.expiresAt
    BY DEF SessionOf
  <2>7. TypeOK'
    BY <1>1, <2>3, <2>4, <2>5 DEF IInv, TypeOK
  <2>8. Copies'
    <3>1. Copies
      BY DEF IInv
    <3>2. \A x \in DOMAIN table : table'[x].origin \in AllowedOrigin
      BY <3>1, <2>4 DEF Copies
    <3>3. \A p \in Process : \A x \in DOMAIN memory[p] :
             /\ memory[p][x].origin \in AllowedOrigin
             /\ x \in DOMAIN table =>
                   /\ table'[x].address = memory[p][x].address
                   /\ table'[x].origin = memory[p][x].origin
                   /\ table'[x].expiresAt = memory[p][x].expiresAt
      <4> SUFFICES ASSUME NEW p \in Process, NEW x \in DOMAIN memory[p]
                   PROVE  /\ memory[p][x].origin \in AllowedOrigin
                          /\ x \in DOMAIN table =>
                                /\ table'[x].address = memory[p][x].address
                                /\ table'[x].origin = memory[p][x].origin
                                /\ table'[x].expiresAt = memory[p][x].expiresAt
        OBVIOUS
      <4>1. /\ memory[p][x].origin \in AllowedOrigin
            /\ x \in DOMAIN table =>
                  /\ table[x].address = memory[p][x].address
                  /\ table[x].origin = memory[p][x].origin
                  /\ table[x].expiresAt = memory[p][x].expiresAt
        BY <3>1 DEF Copies
      <4>2. QED
        BY <4>1, <2>4
    <3>4. memory' = memory
      BY <1>1
    <3>5. \A p, q \in Process : \A x \in DOMAIN memory[p] :
             x \in DOMAIN memory[q] => p = q
      BY <3>1 DEF Copies
    <3>6. QED
      BY <2>3, <3>2, <3>3, <3>4, <3>5 DEF Copies
  <2>9. Stores'
    <3> SUFFICES ASSUME NEW v \in Worker, At(v, "store")'
                 PROVE  LET q == requests'[v] IN
                        /\ q.process \in Process
                        /\ q.id \in DOMAIN memory[q.process]
                        /\ q.id \notin DOMAIN table
                        /\ memory[q.process][q.id].used = FALSE
                        /\ \A u \in Worker :
                              At(u, "store")' /\ requests'[u].id = q.id => u = v
      BY <1>1, <2>3 DEF Stores
    <3>1. At(v, "store") /\ requests'[v] = requests[v]
      BY <1>2
    <3>2. LET q == requests[v] IN
          /\ q.process \in Process
          /\ q.id \in DOMAIN memory[q.process]
          /\ q.id \notin DOMAIN table
          /\ memory[q.process][q.id].used = FALSE
          /\ \A u \in Worker : At(u, "store") /\ requests[u].id = q.id => u = v
      BY <3>1 DEF IInv, Stores
    <3>3. \A u \in Worker : At(u, "store")' => At(u, "store") /\ requests'[u] = requests[u]
      BY <1>2
    <3>4. QED
      BY <3>1, <3>2, <3>3
  <2>10. Reads' /\ Commits'
    <3>1. ASSUME NEW v \in Worker, At(v, "read")'
          PROVE  requests'[v].id \in DOMAIN table
      <4>1. At(v, "read") /\ requests'[v] = requests[v]
        BY <3>1, <1>2
      <4>2. QED
        BY <4>1 DEF IInv, Reads
    <3>2. ASSUME NEW v \in Worker, At(v, "commit")'
          PROVE  LET q == requests'[v] IN
                 /\ q.id \in DOMAIN table
                 /\ [by |-> q.address, id |-> q.id] \in signatures
                 /\ table'[q.id].address = q.address
                 /\ table'[q.id].origin = q.origin
                 /\ q.expiresAt \in 0 .. MaxTime + SessionLife
                 /\ table'[q.id].expiresAt > q.expiresAt - SessionLife
      <4>1. At(v, "commit") /\ requests'[v] = requests[v]
        BY <3>2, <1>2
      <4>2. LET q == requests[v] IN
            /\ q.id \in DOMAIN table
            /\ [by |-> q.address, id |-> q.id] \in signatures
            /\ table[q.id].address = q.address
            /\ table[q.id].origin = q.origin
            /\ q.expiresAt \in 0 .. MaxTime + SessionLife
            /\ table[q.id].expiresAt > q.expiresAt - SessionLife
        BY <4>1 DEF IInv, Commits
      <4>3. LET q == requests[v] IN
            /\ table'[q.id].address = table[q.id].address
            /\ table'[q.id].origin = table[q.id].origin
            /\ table'[q.id].expiresAt = table[q.id].expiresAt
        BY <4>2, <2>4
      <4>4. QED
        BY <4>1, <4>2, <4>3
    <3>3. QED
      BY <1>1, <2>3, <3>1, <3>2 DEF Reads, Commits
  <2>11. \A i \in 1 .. Len(sessions) : sessions[i].challenge # r.id
    BY <1>5, <2>2 DEF IInv, OneSessionPerChallenge
  <2>12. OneSessionPerChallenge'
    <3>1. \A i, j \in 1 .. Len(sessions') :
             sessions'[i].challenge = sessions'[j].challenge => i = j
      <4>1. \A i, j \in 1 .. Len(sessions) :
               sessions[i].challenge = sessions[j].challenge => i = j
        BY DEF IInv, OneSessionPerChallenge
      <4>2. \A i \in 1 .. Len(sessions') : i \in 1 .. Len(sessions) \/ i = Len(sessions')
        BY <2>5
      <4>3. \A i \in 1 .. Len(sessions) : sessions'[i].challenge # r.id
        BY <2>5, <2>11
      <4>4. sessions'[Len(sessions')].challenge = r.id
        BY <2>5, <2>6
      <4>5. \A i \in 1 .. Len(sessions) : sessions'[i] = sessions[i]
        BY <2>5
      <4>6. QED
        BY <4>1, <4>2, <4>3, <4>4, <4>5
    <3>2. \A id \in DOMAIN table' :
             table'[id].used <=> \E i \in 1 .. Len(sessions') : sessions'[i].challenge = id
      <4> SUFFICES ASSUME NEW id \in DOMAIN table
                   PROVE  table'[id].used <=>
                             \E i \in 1 .. Len(sessions') : sessions'[i].challenge = id
        BY <2>3
      <4>1. CASE id = r.id
        <5>1. table'[id].used = TRUE
          BY <4>1, <2>4
        <5>2. Len(sessions') \in 1 .. Len(sessions')
          BY <2>5
        <5>3. sessions'[Len(sessions')].challenge = id
          BY <4>1, <2>5, <2>6
        <5>4. QED
          BY <5>1, <5>2, <5>3
      <4>2. CASE id # r.id
        <5>1. table[id].used <=> \E i \in 1 .. Len(sessions) : sessions[i].challenge = id
          BY DEF IInv, OneSessionPerChallenge
        <5>2. (\E i \in 1 .. Len(sessions') : sessions'[i].challenge = id)
                 <=> \E i \in 1 .. Len(sessions) : sessions[i].challenge = id
          BY <4>2, <2>5, <2>6
        <5>3. table'[id].used <=> table[id].used
          BY <4>2, <2>4
        <5>4. QED
          BY <5>1, <5>2, <5>3
      <4>3. QED
        BY <4>1, <4>2
    <3>3. QED
      BY <3>1, <3>2 DEF OneSessionPerChallenge
  <2>13. SessionsAreEarned'
    <3> SUFFICES ASSUME NEW i \in 1 .. Len(sessions')
                 PROVE  LET s == sessions'[i] IN
                        /\ s.challenge \in DOMAIN table
                        /\ [by |-> s.address, id |-> s.challenge] \in signatures
                        /\ table'[s.challenge].address = s.address
                        /\ table'[s.challenge].origin = s.origin
                        /\ table'[s.challenge].origin \in AllowedOrigin
                        /\ table'[s.challenge].expiresAt > s.expiresAt - SessionLife
      BY <1>1, <2>3 DEF SessionsAreEarned
    <3>1. CASE i \in 1 .. Len(sessions)
      <4>1. LET s == sessions[i] IN
            /\ s.challenge \in DOMAIN table
            /\ [by |-> s.address, id |-> s.challenge] \in signatures
            /\ table[s.challenge].address = s.address
            /\ table[s.challenge].origin = s.origin
            /\ table[s.challenge].origin \in AllowedOrigin
            /\ table[s.challenge].expiresAt > s.expiresAt - SessionLife
        BY <3>1 DEF IInv, SessionsAreEarned
      <4>2. LET s == sessions[i] IN
            /\ table'[s.challenge].address = table[s.challenge].address
            /\ table'[s.challenge].origin = table[s.challenge].origin
            /\ table'[s.challenge].expiresAt = table[s.challenge].expiresAt
        BY <4>1, <2>4
      <4>3. sessions'[i] = sessions[i]
        BY <3>1, <2>5
      <4>4. QED
        BY <4>1, <4>2, <4>3
    <3>2. CASE i = Len(sessions')
      <4>1. table[r.id].origin \in AllowedOrigin
        BY <2>2 DEF IInv, Copies
      <4>2. /\ table'[r.id].address = table[r.id].address
            /\ table'[r.id].origin = table[r.id].origin
            /\ table'[r.id].expiresAt = table[r.id].expiresAt
        BY <2>2, <2>4
      <4>3. sessions'[i] = SessionOf(r)
        BY <3>2, <2>5
      <4>4. QED
        BY <4>1, <4>2, <4>3, <2>2, <2>6
    <3>3. QED
      BY <3>1, <3>2, <2>5
  <2>14. QED
    BY <1>3, <2>7, <2>8, <2>9, <2>10, <2>12, <2>13 DEF IInv
<1>6. QED
  BY <1>4, <1>5

----------------------------------------------------------------------------
\* Every step keeps the invariant.
LEMMA NextInv == IInv /\ [Next]_vars => IInv'
<1> SUFFICES ASSUME IInv, [Next]_vars PROVE IInv'
  OBVIOUS
<1>1. ASSUME NEW w \in Worker, NEW p \in Process, NEW id \in ChallengeId, NEW a \in Wallet,
             NEW o \in Origin,
             \/ Issue(w, p, id, a, o)
             \/ VerifyFromMemory(w, p, id, a, o)
             \/ VerifyElsewhere(w, p, id, a, o)
      PROVE  IInv'
  BY <1>1, IssueStep, VerifyFromMemoryStep, VerifyElsewhereStep
<1>2. ASSUME NEW w \in Worker, Serve(w)
      PROVE  IInv'
  BY <1>2, IssueStoreStep, VerifyFromTableStep, CommitStep, DatabaseFailsStep DEF Serve
<1>3. ASSUME NEW a \in Wallet, NEW id \in ChallengeId, Sign(a, id)
      PROVE  IInv'
  BY <1>3, SignStep
<1>4. ASSUME NEW p \in Process, Restart(p)
      PROVE  IInv'
  BY <1>4, RestartStep
<1>5. CASE Tick
  BY <1>5, TickStep
<1>6. CASE UNCHANGED vars
  BY <1>6 DEF vars, IInv, TypeOK, Shape, Copies, Stores, Reads, Commits, At,
             OneSessionPerChallenge, SessionsAreEarned
<1>7. QED
  BY <1>1, <1>2, <1>3, <1>4, <1>5, <1>6 DEF Next

\* The invariant always holds.
LEMMA Invariant == Spec => []IInv
<1>1. QED
  BY InitInv, NextInv, PTL DEF Spec

\* What processes, table and sessions hold has its type.
THEOREM TypeCorrect == Spec => []TypeOK
<1>1. IInv => TypeOK
  BY DEF IInv
<1>2. QED
  BY <1>1, Invariant, PTL

\* A challenge opens at most one session, and is consumed together with opening it,
\* however many processes, requests, failures and restarts there are.
THEOREM SessionsOncePerChallenge == Spec => []OneSessionPerChallenge
<1>1. IInv => OneSessionPerChallenge
  BY DEF IInv
<1>2. QED
  BY <1>1, Invariant, PTL

\* Every session is for the wallet that signed its challenge in time, from the origin it
\* was issued to.
THEOREM SessionsEarned == Spec => []SessionsAreEarned
<1>1. IInv => SessionsAreEarned
  BY DEF IInv
<1>2. QED
  BY <1>1, Invariant, PTL

----------------------------------------------------------------------------
(***************************************************************************)
(* The promise of logging in.  What a session shows of itself is the wallet*)
(* it is for and the challenge it was opened with.                         *)
(***************************************************************************)
Shown(s) == [address |-> s.address, challenge |-> s.challenge]
IssuedTo == [id \in DOMAIN table |-> table[id].address]
Opened == [i \in DOMAIN sessions |-> Shown(sessions[i])]

\* The promise's variables depend on table and sessions alone.
LEMMA PromiseState ==
    /\ IssuedTo' = [id \in DOMAIN table' |-> table'[id].address]
    /\ Opened' = [i \in DOMAIN sessions' |-> Shown(sessions'[i])]
BY DEF IssuedTo, Opened

\* What a longer list of sessions shows.
LEMMA ShownAppended ==
    ASSUME sessions \in Seq(Session), sessions' \in Seq(Session),
           Len(sessions') = Len(sessions) + 1,
           \A i \in 1 .. Len(sessions) : sessions'[i] = sessions[i]
    PROVE  Opened' = Append(Opened, Shown(sessions'[Len(sessions')]))
<1> DEFINE last == Shown(sessions'[Len(sessions')])
           S == [address : Wallet, challenge : ChallengeId]
<1>1. /\ DOMAIN sessions = 1 .. Len(sessions) /\ Len(sessions) \in Nat
      /\ DOMAIN sessions' = 1 .. Len(sessions')
      /\ \A i \in 1 .. Len(sessions) : sessions[i] \in Session
      /\ \A i \in 1 .. Len(sessions') : sessions'[i] \in Session
  OBVIOUS
<1>2. ASSUME NEW s \in Session PROVE Shown(s) \in S
  BY DEF Session, Shown
<1>3. Opened \in Seq(S) /\ Len(Opened) = Len(sessions)
  <2>1. Opened \in [1 .. Len(sessions) -> S]
    BY <1>1, <1>2 DEF Opened
  <2> HIDE DEF S
  <2>2. QED
    BY <1>1, <2>1, SeqDef
<1>4. Opened' \in Seq(S) /\ Len(Opened') = Len(sessions) + 1
  <2>1. Opened' \in [1 .. Len(sessions) + 1 -> S]
    BY <1>1, <1>2, PromiseState
  <2> HIDE DEF S
  <2>2. QED
    BY <1>1, <2>1, SeqDef
<1>5. last \in S
  BY <1>1, <1>2
<1> HIDE DEF S
<1>6. /\ Append(Opened, last) \in Seq(S)
      /\ Len(Append(Opened, last)) = Len(sessions) + 1
      /\ \A i \in 1 .. Len(sessions) : Append(Opened, last)[i] = Opened[i]
      /\ Append(Opened, last)[Len(sessions) + 1] = last
  BY <1>3, <1>5, AppendProperties
<1>7. \A i \in 1 .. Len(sessions) : Opened'[i] = Opened[i]
  BY <1>1, PromiseState DEF Opened
<1>8. Opened'[Len(sessions) + 1] = last
  BY <1>1, PromiseState
<1>9. QED
  BY <1>1, <1>3, <1>4, <1>6, <1>7, <1>8, SeqEqual

\* Storing a challenge issues it.
LEMMA IssueStoreKeepsPromise ==
    ASSUME IInv, NEW w \in Worker, IssueStore(w)
    PROVE  Promise!Next
<1> DEFINE r == requests[w]
           c == memory[r.process][r.id]
<1>1. /\ table' = With(table, r.id, c) /\ UNCHANGED <<sessions, signatures>>
      /\ At(w, "store")
  BY DEF IssueStore
<1>2. /\ r.id \notin DOMAIN table /\ r.process \in Process
      /\ r.id \in DOMAIN memory[r.process]
  BY <1>1 DEF IInv, Stores
<1>3. r.id \in ChallengeId /\ c.address \in Wallet
  BY <1>2 DEF IInv, TypeOK, Challenge
<1>4. table' = [x \in DOMAIN table \cup {r.id} |-> IF x = r.id THEN c ELSE table[x]]
  BY <1>1 DEF With
<1> HIDE DEF c, r
<1>5. IssuedTo' = [x \in DOMAIN IssuedTo \cup {r.id} |->
                     IF x = r.id THEN c.address ELSE IssuedTo[x]]
  BY <1>4 DEF IssuedTo
<1>6. Opened' = Opened
  BY <1>1 DEF Opened
<1>7. PICK id \in ChallengeId, a \in Wallet : id = r.id /\ a = c.address
  BY <1>3
<1>8. Promise!Issue(id, a)
  BY <1>1, <1>2, <1>5, <1>6, <1>7 DEF Promise!Issue, IssuedTo, Opened, Shown
<1>9. QED
  BY <1>8 DEF Promise!Next

\* A transaction that stores a session opens it, and one that finds the challenge
\* consumed does nothing.
LEMMA CommitKeepsPromise ==
    ASSUME IInv, NEW w \in Worker, Commit(w)
    PROVE  Promise!Next \/ UNCHANGED <<IssuedTo, signatures, Opened>>
<1> DEFINE r == requests[w]
<1>1. At(w, "commit") /\ UNCHANGED signatures
  BY DEF Commit
<1>2. CASE table[r.id].used
  <2>1. UNCHANGED <<table, sessions>>
    BY <1>2 DEF Commit
  <2>2. QED
    BY <2>1, <1>1 DEF IssuedTo, Opened
<1>3. CASE ~ table[r.id].used
  <2>1. /\ table' = [table EXCEPT ![r.id].used = TRUE]
        /\ sessions' = Append(sessions, SessionOf(r))
    BY <1>3 DEF Commit
  <2>2. /\ r.id \in DOMAIN table
        /\ [by |-> r.address, id |-> r.id] \in signatures
        /\ table[r.id].address = r.address
    BY <1>1 DEF IInv, Commits
  <2>3. DOMAIN table \subseteq ChallengeId
        /\ \A x \in DOMAIN table : table[x] \in Challenge
    BY DEF IInv, TypeOK
  <2>4. IssuedTo' = IssuedTo
    <3>1. DOMAIN table' = DOMAIN table
      BY <2>1
    <3>2. ASSUME NEW x \in DOMAIN table PROVE table'[x].address = table[x].address
      BY <2>1, <2>3 DEF Challenge
    <3>3. QED
      BY <3>1, <3>2 DEF IssuedTo
  <2>5. /\ SessionOf(r) \in Session /\ sessions' \in Seq(Session)
        /\ Len(sessions') = Len(sessions) + 1 /\ Len(sessions) \in Nat
        /\ \A i \in 1 .. Len(sessions) : sessions'[i] = sessions[i]
        /\ sessions'[Len(sessions')] = SessionOf(r)
    BY <1>1, <2>1, SessionAppended
  <2>6. Shown(SessionOf(r)) = [address |-> r.address, challenge |-> r.id]
    BY DEF Shown, SessionOf
  <2>7. Opened' = Append(Opened, [address |-> r.address, challenge |-> r.id])
    <3>1. Opened' = Append(Opened, Shown(sessions'[Len(sessions')]))
      <4>1. sessions \in Seq(Session)
        BY DEF IInv, TypeOK
      <4>2. QED
        BY <4>1, <2>5, ShownAppended
    <3>2. sessions'[Len(sessions')] = SessionOf(r)
      BY <2>5
    <3>3. Shown(sessions'[Len(sessions')]) = [address |-> r.address, challenge |-> r.id]
      BY <3>2, <2>6
    <3>4. QED
      BY <3>1, <3>3
  <2>8. \A i \in DOMAIN sessions : sessions[i].challenge # r.id
    <3>1. DOMAIN sessions = 1 .. Len(sessions)
      BY DEF IInv, TypeOK
    <3>2. QED
      BY <3>1, <1>3, <2>2 DEF IInv, OneSessionPerChallenge
  <2>9. \A i \in DOMAIN Opened : Opened[i].challenge # r.id
    BY <2>8 DEF Opened, Shown
  <2>10. r.id \in DOMAIN IssuedTo /\ IssuedTo[r.id] = r.address
    BY <2>2 DEF IssuedTo
  <2> HIDE DEF r
  <2>11. PICK id \in ChallengeId : id = r.id
    BY <2>2, <2>3
  <2>12. Promise!Open(id)
    BY <1>1, <2>2, <2>4, <2>7, <2>9, <2>10, <2>11
       DEF Promise!Open, IssuedTo, Opened, Shown
  <2>13. QED
    BY <2>12 DEF Promise!Next
<1>4. QED
  BY <1>2, <1>3

\* Any step is one of the promise, or hides from it.
LEMMA StepKeepsPromise ==
    IInv /\ [Next]_vars => Promise!Next \/ UNCHANGED <<IssuedTo, signatures, Opened>>
<1> SUFFICES ASSUME IInv, [Next]_vars
             PROVE  Promise!Next \/ UNCHANGED <<IssuedTo, signatures, Opened>>
  OBVIOUS
<1>1. ASSUME UNCHANGED <<table, sessions, signatures>>
      PROVE  UNCHANGED <<IssuedTo, signatures, Opened>>
  BY <1>1 DEF IssuedTo, Opened
<1>2. ASSUME NEW w \in Worker, NEW p \in Process, NEW id \in ChallengeId, NEW a \in Wallet,
             NEW o \in Origin,
             \/ Issue(w, p, id, a, o)
             \/ VerifyFromMemory(w, p, id, a, o)
             \/ VerifyElsewhere(w, p, id, a, o)
      PROVE  UNCHANGED <<table, sessions, signatures>>
  BY <1>2 DEF Issue, VerifyFromMemory, VerifyElsewhere
<1>3. ASSUME NEW w \in Worker, VerifyFromTable(w) \/ DatabaseFails(w)
      PROVE  UNCHANGED <<table, sessions, signatures>>
  BY <1>3 DEF VerifyFromTable, DatabaseFails
<1>4. ASSUME NEW p \in Process, Restart(p)
      PROVE  UNCHANGED <<table, sessions, signatures>>
  BY <1>4 DEF Restart
<1>5. ASSUME NEW a \in Wallet, NEW id \in ChallengeId, Sign(a, id)
      PROVE  Promise!Next
  <2>1. /\ id \in DOMAIN table /\ UNCHANGED <<table, sessions>>
        /\ signatures' = signatures \cup {[by |-> a, id |-> id]}
    BY <1>5 DEF Sign
  <2>2. Promise!Sign(a, id)
    BY <2>1 DEF Promise!Sign
  <2>3. QED
    BY <2>2 DEF Promise!Next
<1>6. CASE Tick \/ UNCHANGED vars
  BY <1>1, <1>6 DEF Tick, vars
<1>7. QED
  BY <1>1, <1>2, <1>3, <1>4, <1>5, <1>6, IssueStoreKeepsPromise, CommitKeepsPromise
     DEF Next, Serve

\* Logging in keeps its promise: behind any number of processes, copies, awaits, failures
\* and restarts, a challenge issued to a wallet opens one session, for that wallet, after
\* that wallet has signed it.
THEOREM LoginPromiseKept == Spec => KeepsTheLoginPromise
<1>1. Init => Promise!Init
  BY DEF Init, Promise!Init, NoChallenges
<1>2. IInv /\ [Next]_vars => [Promise!Next]_<<IssuedTo, signatures, Opened>>
  BY StepKeepsPromise
<1>3. QED
  BY <1>1, <1>2, Invariant, PTL
     DEF Spec, KeepsTheLoginPromise, Promise!Spec, IssuedTo, Opened, Shown
=============================================================================
