# Proof-of-Visit Deposit: a TLA+ model

A renter books a viewing, pays a deposit into a Soroban escrow contract on
Stellar, checks in at the property with a code the host shows, and gets the
deposit back: by cancelling before the visit, or when the host confirms it.
The money is on the ledger; the bookings people see are in a PostgreSQL
database behind an API that believes nothing but the contract's events.

This directory models that system in TLA+, checks the models with TLC and
proves theorems about every part but the configuration, and about contract, API and pages
together, with TLAPS.
The definitions follow the source; `PROJECT.json` (`map`) names the lines each one stands for.

## Inventory

| Part | Code | State | Operations | Status |
| --- | --- | --- | --- | --- |
| Escrow contract | `contracts/pov_deposit_escrow/src/lib.rs` | accepted asset, bookings with their state, time to live of entries and instance, token balances, published events | `initialize`, `create_booking`, `booking`, `fund_booking`, `cancel_booking`, `confirm_visit` | modelled: `EscrowContract` |
| Booking API and database | `apps/api/src/booking/`, `apps/api/prisma/schema.prisma` | tables bookings, payment_transactions, booking_status_history; requests in flight | create, fund, cancel, check-in, confirm, get, recent activity | modelled: `BookingWorkflow` (with a database) |
| Check-in challenges | `apps/api/src/checkin/` | table check_in_challenges | issue, consume | in `BookingWorkflow` |
| Transaction verifier | `apps/api/src/stellar/contract-transaction-verifier.ts` | none; reads an RPC node | `verifyEvent` | in `BookingWorkflow` |
| Browser client | `apps/web/components/booking-form.tsx`, `booking-actions.tsx`, `apps/web/lib/contract.ts`, `booking.ts` | the step a form is at, the booking as last loaded | book and fund, check in, cancel, confirm | modelled: `BookingClient`, in `VisitDeposit` |
| Wallet sessions | `apps/api/src/auth/` | challenges in memory and in a table, sessions | issue, verify | modelled: `WalletAuth` |
| Viewing slots | `apps/api/src/property/viewing-slot.service.ts` | slots with a lock and its expiry | create, reserve, confirm | modelled: `ViewingSlots` |
| Configuration | `apps/api/src/config/`, `main.ts`, `apps/web/lib/stellar-network.ts` | what the API resolved at its start | choice of network, endpoints a page may reach, check-in secret | modelled: `Deployment` |
| Wallet dialog | `apps/web/components/wallet-dialog.tsx`, `lib/wallet-auth.ts` | the session a tab shows, the address all tabs share, connections under way | connect, log in, disconnect, reload | modelled: `WalletPages` |
| Other pages, property queries, start-up wiring | `apps/web/app`, `components/property-*.tsx`, `apps/api/src/property/property.service.ts` | none of their own | read-only or I/O | not modelled |
| Contract bindings | `packages/stellar` | none | generated for an earlier contract interface | not modelled |

How they interact. The browser asks the API for a booking (a row, a slot taken
and an on-chain id), has the wallet sign `create_booking` and `fund_booking`,
and reports the hash of the second to `POST :id/fund`. The API asks an RPC node
for that transaction and its events and moves the row. Cancelling and
confirming go the same way: ledger first, report second. Check-in never
touches the ledger. Nothing polls the ledger on the API's side: a report that
is never made is never recorded.

What is hard:

* *Interleaving.* Every handler reads, awaits, and writes: two requests for one booking,
  or for one slot, meet between any two awaits.
* *Failure.* The API may stop between two statements that are not one
  transaction (status and history of a check-in or a confirmation; spending a
  code and checking in).
* *Tabs.* All tabs of a browser share one stored wallet address, each has a
  session of its own, and a second connection may begin before the first ends.
* *Ordering.* The RPC node lags behind the ledger, and reports arrive in any
  order, repeated, or with another booking's hash.
* *Time.* Refund and release are split by one comparison with the ledger's
  clock, which counts seconds where the API counts milliseconds; codes and storage
  entries expire; a visit may begin between two steps of booking it.
* *Shared money.* All deposits are one token balance of one address.

What makes each part correct:

* *Contract*: it can always pay what it owes; a deposit leaves at most once and
  only to its renter, on the right party's word at the right time; events tell
  the truth about storage; terms never change; entries outlive their calls.
* *API*: a booking moves only along its path, each step at most once, backed by
  the ledger event for this very escrow; payments recorded agree with the
  status; a check-in stands for a code spent on that booking; a payment
  reported is recorded.
* *All together*: the database is never ahead of the contract; what the pages carry
  from one to the other arrives unchanged; a release follows a check-in, which
  the contract knows nothing of; and where the database stays behind, why.
* *Sessions*: one signature, one session, whichever copy of the challenge was
  looked at and whatever failed in between.
* *Wallet dialog*: a wallet shown as verified has logged in; the tab that acted
  last shows the wallet its pages use; a booking is made and paid in one name.
* *Slots*: one holder at a time, only the holder books, no two slots of a
  property overlap.
* *Configuration*: what is signed, simulated and submitted should be for one ledger, and
  a code issued before a restart should be worth after it what the guide says. Neither is so
  for every environment the API starts with (below).

`PROJECT.json` lists the hazards line by line, with the properties that cover
each and, where none does, the reason.

## Modules

| Module | What it is |
| --- | --- |
| `DepositPromise` | What the escrow promises its users, with no contract in it. |
| `EscrowContract` | The contract on its ledger; implements `DepositPromise` (`KeepsThePromise`). |
| `EscrowContract_proofs` | Theorems about `EscrowContract`. |
| `EscrowPromise_proofs` | That it implements `DepositPromise`. |
| `MCEscrowContract` | Constants for TLC. |
| `BookingWorkflow` | The booking API, its tables, challenges and verifier. |
| `BookingWorkflow_proofs` | Theorems about `BookingWorkflow`. |
| `BookingClient` | The web pages a renter and a host act from. |
| `VisitPromise` | What the system as a whole promises renters and hosts, with no pages, API, codes or ledger in it; extends `DepositPromise`. |
| `VisitDeposit` | Pages, API and contract over one ledger: `EscrowContract`, `BookingWorkflow` and `BookingClient` composed; implements `VisitPromise` (`KeepsTheVisitPromise`). |
| `VisitDeposit_proofs` | Theorems about the composition, from those of its parts. |
| `SlotPromise` | What reserving a slot promises, with no locks and no clock in it. |
| `ViewingSlots` | The slot service; implements `SlotPromise` (`KeepsTheSlotPromise`). |
| `ViewingSlots_proofs` | Theorems about `ViewingSlots`. |
| `LoginPromise` | What logging in promises, with no processes, tables or clock in it. |
| `WalletAuth` | Logging in with a wallet; implements `LoginPromise` (`KeepsTheLoginPromise`). |
| `WalletAuth_proofs` | Theorems about `WalletAuth`. |
| `WalletPages` | The wallet dialog in several tabs, and in whose name form and booking page act; relies on `LoginPromise`. |
| `WalletPages_proofs` | Theorems about `WalletPages`. |
| `Deployment` | What a deployment makes of its environment, and what the documentation says of that. |
| `MCBookingWorkflow`, `MCVisitDeposit`, `MCViewingSlots`, `MCWalletAuth`, `MCWalletPages`, `MCDeployment` | Constants for TLC. |

A definition whose name carries a suffix after an underscore (`CancelBooking_late`)
and a comment beginning *Mutant* is a plausible bug of the definition before the
underscore; it is no part of the specification. For every property of a passing
run one of them is put in place of the original, and TLC finds the property
violated.

### EscrowContract

One action per entry point, plus the network around it. A call that returns an
error or traps leaves no trace on the ledger, so only successful calls are
steps, and their guards are the conjunction of the early returns,
`require_auth` (the account a call names is the account that signs it), the
token transfer's own check of the balance, and the liveness of the storage the
call reads.

* `bookings` is persistent storage `DataKey::Booking(id)`, a function on the
  ids in use; `asset` is `DataKey::Asset`.
* `liveUntil` and `instanceUntil` are the last ledgers at which an entry and
  the instance are live. `Extended` is `extend_ttl`: nothing happens above the
  threshold. `read_booking` and `write_booking` extend the entry in one call at
  one ledger, which is one extension (`KeepAlive`). Only `initialize` extends
  the instance. An archived entry stays in storage and must be restored before
  it can be used (`RestoreBooking`, `RestoreInstance`: anybody may pay for it).
* `balance` is kept per token, so that tokens other than the accepted one, and
  gifts to the contract (`SendTokens`), are there to confuse it.
* `now` stands both for the ledger's sequence number, which lifetimes count in,
  and for its timestamp, which visits are set in: one `CloseLedger` moves both.
* `txs` is the record of published events; an index is a transaction hash.
  `by` and `at` are the signer and the time, which the ledger records with the
  transaction.

`DepositPromise` has wallets and agreements only. The mapping turns the contract's
`Refunded` and `Released` into *over* and leaves out the escrow's own balance,
so the implementation has to show that the wallets alone add up: that a
booking cancelled before it was funded moves no money although it publishes
`DepositRefunded`, for one.

### BookingWorkflow

A worker serves one request; `requests[w]` holds what the handler remembers and
the await it has reached. Each await is a step of its own:

* `fund`: `FundVerify` (`requireBooking` and `verifyFunding`), `FundCheck` (the
  service's own `get` and its checks), `FundCommit` (one database transaction:
  conditional update, payment, history; the conditional update or the unique
  hash can undo it all).
* `cancel`: the same with `RefundCheck` and `RefundCommit`.
* `check-in`: `FindChallenge` and `SpendChallenge` (one transaction, but at the
  default isolation level, so another request may come between its read and its
  conditional write), then `CheckInCheck`, `CheckInUpdate`, `CheckInHistory`:
  two separate statements.
* `confirm`: `ConfirmVerify`, `ConfirmCheck`, `ConfirmUpdate`, `ConfirmHistory`.
* `create`: `Create` (the checks before the transaction, the visit time among them),
  then the transaction's read and its insert, `FindSlot` and `InsertBooking`. The clock is
  not looked at again, so a booking may be stored at or after its visit. What the
  transaction read may no longer be so when it inserts: the unique columns of the table
  (`Insertable`) and the serializable isolation level then refuse it, which comes to the same.
  The visit time a client sends is that of the slot it means.
* `check-in-challenge` reads an immutable part of the row and inserts one challenge: one step.

`Restart` loses every request and keeps the tables. `Fails` ends one request
wherever it waits: the database or the RPC node answered with an error, or the
node no longer keeps the transaction (nodes keep a window of the ledger). What
the request wrote stays. `RpcCatchesUp` lets the node serve one more transaction.

`fromDatabase`, `activity` and `Link` are what `GET :id`, the public list of
activity and its links make of the tables: a read is of one moment, so they are
functions of the state and `ReceiptsAreTrue` speaks of every state: a receipt that is
shown is the right one. It does not say that there is one, which is not so for a
release (below). `activity`
leaves out the limit of fifty and the order. `LedgerPublishes` is the contract as the API
can see it: each event at most once per escrow, funding only after creation,
one settlement at most, release only after funding. It lets a booking be
refunded without having been funded, as the contract does. That the contract's
events are of this kind is what `EventsTellTheState` and
`SettledByTheRightParty` say of `EscrowContract`.

Left out: the variant without a database (`AppModule` always provides one, only
tests construct the services without it), the encoding and signature of tokens
(a token is its nonce; a request may carry any nonce issued, for any booking
and actor) and the renter's row being created with the first booking.

### BookingClient and VisitDeposit

`BookingClient` is the page of each account: nothing, a booking shown as it was
loaded, or one step of the way through `invokeEscrow` and the report after it
(`tabs`); `sent` is what the network made of the calls handed to it. A page
that fails goes back to what it shows, which may be stale, and offers it again;
the form has nothing to go back to. `GiveUp` is the end of the thirty polls,
`Abandon` any other end, closing the page included. A call sent twice is one entry of
`sent`: the contract lets each succeed only once.

Booking has two steps here as well: `Book` posts, and `Booked` has the answer; a booking may
be stored that the form never hears of. The form turns the visit time into the contract's
seconds (`visitTime`, rounded down); slots start at a fraction of the clock (`Second` of their units make
one of its own), so that rounding, and being early or late by less than one, matter.

`VisitDeposit` instantiates the three components on shared variables. The
ledger's `txs` and `now` are both the contract's and the API's, so a page's
call becomes an `EscrowContract` action when it is included, and its event is
what `verifyEvent` finds. A call is signed only if its simulation succeeds
(`ENABLED` of the contract's action). The pages get the RPC endpoint from the
API; `OneNode = FALSE` is an endpoint behind which nodes differ in how far
they are. Wallets call the contract only through the pages here; calls made past the
pages are in `EscrowContract`'s own runs, and the API's own runs have requests no page makes.

`TheApiSeesItsLedger` is the assumption of `BookingWorkflow` about its
environment made good: pages, contract and API together, seen through the
events alone, are a behaviour of `BookingWorkflow`. `UnpayableGoesNowhere` is about the
deposits between the two sets of bounds: the API stores the booking, the
contract never takes it, and no later request moves it. `SettlementIsRecorded`
names the one case in which the database does not follow although
nothing fails: the renter refunds on the chain after a check-in was recorded, and
the booking stays `CHECKED_IN`.

`VisitPromise` is the system as renter and host should be able to think of it. It
takes over `DepositPromise` and adds four tables: who booked which viewing for what
deposit (`booked`), whose host has shown a code (`coded`), what became of the deposit (`paid`),
and what everybody is told (`recorded`). Nothing is asked of the clock when a viewing is
booked: a booking stored late is one whose deposit can no longer be agreed, which
`DepositPromise` does ask (`terms.visit > clock`) and the contract checks. A deposit is
agreed only for a booking, on its terms; it goes back on the host's word only when the check-in is recorded, and
that only when a code was shown; each record waits for what it
says. `PaidIsSo` and `RecordedIsSo` are what follows from that. The mapping
reads rows, challenges, storage and the funding event: pages, requests, calls under
way, payments, history, the RPC node's lag and the storage's life are gone, so a step
of any of them must be a stutter, and a commit of the API must be one record and nothing
else. A handler that writes on the strength of what it read before an await would take a
record back, which no step of the promise does.

### WalletAuth

`memory[p]` is the map of one process, `table` the `AuthChallenge` rows. In the issuing process
a challenge is checked and marked without an await (`VerifyFromMemory`);
elsewhere it is read first (`VerifyElsewhere`, `VerifyFromTable`), into a copy
whose mark nobody else sees. `Commit` is the one transaction that consumes the row
and stores the session. `DatabaseFails` ends any handler that waits, `Restart` a
process. The text of a message is fixed by its challenge, so a signature is of a
challenge's id; the wallet row that `issue` upserts and `verify` finds again is
left out, since every stored challenge has one. Challenges expire and processes
fail, but `LoginPromise` knows neither: the mapping reads `table`, signatures and
sessions only, and a refused, failed or late request is a stutter.

### WalletPages

`session[t]` is React state of a tab, `stored` the key in `localStorage`.
`attempts[k]` is one run of `connect` (or of `disconnect` while it waits for
Rabet), at one of its awaits: extension, challenge, signature, verification,
answer. Nothing in the dialog disables a button meanwhile, so several run at a time, in
one tab or in two. A write to `localStorage` and the `setSession` after it have no await
between them and are one step (`Write`). The API is `LoginPromise`, whose
actions `requestChallenge`, `signMessage` and `submitSignature` take.

`Fails` is the `catch` of `connect`, from any await: no extension, wrong network,
access refused, no signature, an error of the API or an answer lost.
`ServedLate` lets the API open the session although its page has given up or is gone.
Signatures by other accounts, which the API refuses, are in `WalletAuth`.

`flows[t]` is the form or the booking page of a tab: the stage between two awaits of
its mutation, the booking, and the wallet it acts for. The form reads the wallet
once when it is submitted; the booking page acts for the one it was rendered
with, and is rendered again after each step of its own (`End`) and at any other time
(`Render`), which covers every reason React may have. The calls it makes are
`VisitDeposit`'s; here `last` remembers in whose name the last one was signed or reported.

`lastTab` is a history variable: the tab that wrote to `localStorage` last. Other
tabs do show another wallet than the one stored (nothing listens for `storage` events),
which is why `ActingTabAgrees` speaks of that one only. Rabet is not asked to sign, so
`VerifiedWalletsLoggedIn` is about Freighter: `connect` says as much on the page.

### ViewingSlots

Every call of `ViewingSlotService` runs to its end, so the only thing between
two calls is the clock. The mapping to `SlotPromise` calls a slot held while its
lock lasts, which no call ends: `Tick` frees slots, and a renewal keeps one.

### Deployment

Passphrases, endpoints and contract ids stand for the network they belong to.
`Start` reads an environment, and `api` is what the API makes of it: the settings pages
fetch, the secret of the check-in codes, and the endpoints the content security policy
lets a page reach. The module serves a comment that the code contradicts; nothing is claimed
to hold of it, since what the settings do check (passphrase and Horizon endpoint) and what the
secret is stand in one line of the code each.

## Runs

| Run | Bounds | Shows |
| --- | --- | --- |
| `escrow_bookings` | 2 bookings, 2 accounts, 1 token, supply 2, clock 0..2, deposits 0..3 offered against bounds 1..2 | solvency, truthful events, right party and time, final terms, implementation of the promise |
| `escrow_lifetime` | 1 booking, 2 accounts, 2 tokens, clock 0..5, entries live 2 ledgers by default and 3 when extended | entries outlive their calls through archivals; deposits come back |
| `workflow_race` | 1 booking, 2 concurrent requests, 2 check-in codes, clock 0..1 | every interleaving of two requests of any kind, with restarts, failures and lag; the receipts shown of it |
| `workflow_bookings` | 3 ids (two collide on the chain), 2 slots, 2 escrows, deposits 0..2 against the bound 1; 3 requests at a time while all are to book, 1 as soon as the ledger has an event (`RushThenOneByOne`) | bookings stay apart, however many found the slot free; no event of one escrow moves another booking |
| `visit_path` | 1 booking and escrow, 2 accounts, 2 requests, 1 code, clock 0..2 with the visit at one and a half, deposits 1..3 of which the contract takes 2 | how database, pages and contract may and may not differ; a deposit only the API takes goes nowhere; the promise to renter and host |
| `visit_smooth` | the same with one deposit both sides accept, nothing abandoned and one RPC node | a deposit taken is recorded, and so is its settlement |
| `wallet_login` | 2 processes, 2 requests, 2 challenges, 2 wallets, 2 origins, clock 0..2 | one session for one signature; the promise |
| `wallet_pages` | 2 tabs (one with form and booking page), 2 connections at a time, 2 wallets, 2 challenges, 1 booking | connections that cross in one tab or two, failures, reloads; one name per booking |
| `slot_locks` | 3 slots, 2 properties, 2 renters, 2 bookings, locks of 2 ticks, clock 0..3 | one holder at a time, no overlap, the promise |
| `docs_delay` | as `visit_smooth`, with clock 0..1 and polls that may end | that a sentence of the documentation is contradicted by the code (below): TLC finds the property violated |
| `docs_history` | as `workflow_race`, with 1 request at a time and 1 code | the same |
| `docs_defaults` | every choice of networks with secrets fixed, every choice of secrets on the default network | the same |

Why the bounds are enough. The contract couples bookings only through its
balance and its clock: two bookings with two accounts, each renter of one and
host of the other if it likes, show every coupling, and deposits offered on
both sides of both limits and visits at, before and after the current time show
every comparison. Every safety property is proved for any number as well (below). In the API
the races are between two requests for one row; a third worker adds no new pair of
conditional writes. Two codes are needed for two check-ins that both pass their
challenge. Two escrows and three ids are needed for a collision next to an
unrelated booking; three requests at a time are one for each of the two slots and one too
many. Requests that book and requests that pay do not meet in that run: no request but those that
book adds a row, and none changes what was booked (`StatusMovesAlongThePath`). In the composition one booking is enough: what
binds bookings to one another is checked in the runs of the parts, and
`TheApiSeesItsLedger` ties the parts together. Two processes and two requests are
every way a challenge can be looked at twice; three slots are needed for one inside and one
beside another. Two connections are every way in which one can end
while another is at work, with two wallets to tell them apart; they may share the tab
or not; one tab with a form is enough, since forms meet in
`stored` only and the other tab changes it at any time. Two challenges let a wallet
log in, and another or the same once more. Deadlock is checked where a restart or a reload
is always possible (`workflow_race`, `wallet_login`, `wallet_pages`); elsewhere the clocks stop at
`MaxTime`, ids run out, and a finished system stops.

Fairness. `EscrowContract!FairSpec` assumes that ledgers close, that archived
entries are restored, and that hosts confirm (`HostsConfirm`): the last two are
assumptions about people, not about the code, and `DepositComesBack` is
conditional on them; it says that no order of calls, gifts and archivals makes
their doing so impossible. Nothing in the contract frees a deposit whose host
never confirms.

`VisitDeposit!SmoothSpec` is about the case where nothing goes wrong: nobody
leaves a page (`Abandon`), no poll ends early (`GiveUp`), the API stays up. Then
the runtimes carry on handlers (`Serve`) and polls (`Confirmed`), the RPC node
catches up, and a request is accepted in the end although workers are busy now
and then (strong fairness of `Report`). None of that makes a person press anything.
That is what `PaymentIsRecorded` and `SettlementIsRecorded` need, and nothing
less: `DelayedSpec` adds only the end of the polls, and recording is lost. `WalletPages` and
`WalletAuth` state no fairness: everything there waits for a person or an
extension.

## Where the documentation and the code differ

Three sentences have a run that refutes them:

* `docs/security/security-audit.md:45` says RPC delay makes a completed
  operation *temporarily* appear unfinished; a page asks thirty times and
  nobody asks again (`DelayIsTemporary`, run `docs_delay`).
* `docs/data-flow.md:6` says a database transaction records the status history and
  the hash; for check-in and confirm the history is a second statement, which a stop or a failure
  can cut off, and the hash of a release is in the history only: it is then recorded nowhere
  (`HistoryIsWhole`, run `docs_history`). `HistoryNeverLies` is what remains
  true: the history may miss a step, and tells none that did not happen.
* `stellar.config.ts:27` says every default follows the network; those of the
  content security policy in `main.ts` are Testnet's
  (`DefaultsFollowTheNetwork`, run `docs_defaults`).

Others are plain from one place in the code and have no run:

* `docs/renter-guide.md:11` sends the renter to the link of the refund or
  release; `confirm` creates no payment, so a `COMPLETED` booking
  has no settlement transaction and recent activity links its funding. The variant without a
  database (`booking-workflow.service.ts:276`) sets one.
* `docs/api-reference.md:14-16` says passphrase, Horizon and RPC endpoint follow the network
  together, and `stellar.config.ts:27-30` that signing for one chain and submitting to
  another is avoided; `STELLAR_RPC_URL` is taken as it is (line 49).
* `docs/check-in-guide.md:32-34` and `apps/api/.env.example:15-17` say an unset
  `CHECKIN_TOKEN_SECRET` is made up at every start; it is another variable, a constant, or in
  production a refusal (`secrets.ts`), and codes stay good over restarts.
* `docs/wallet-guide.md:3` says the application rechecks the network before a
  core transaction and does not take a restored address for authorization; the
  network is looked at when Freighter is connected only, and form and
  booking page act for whatever address is stored.
* `docs/security.md:5` says only the host records check-in; `checkIn` accepts
  only the renter.
* `docs/security.md:6` says only an arbitrator refunds a funded booking; the
  contract has none, and refunds to the renter on the renter's word.
* `docs/check-in-guide.md:8-9` says a code is consumed and the booking moves;
  the code is consumed first, and the booking may then be refused.
* `lib/stellar-network.ts:27` says wallet gate and submission agree on the
  ledger; one follows the build, the other the running API.

## Theorems

`EscrowContract_proofs` proves, for any number of bookings, accounts, tokens,
any deposit bounds and any lifetimes that meet `ConstantsAssumption`
(`MIN_DEPOSIT` positive, the threshold below the extension, the escrow not one
of its own accounts):

| Theorem | Statement |
| --- | --- |
| `TypeCorrect` | `Spec => [](TypeOK /\ AssetIsSet)` |
| `TermsFinal` | `Spec => TermsStayFinal` |
| `EventsFaithful` | `Spec => [](EventsTellTheState /\ SettledByTheRightParty)` |
| `SettledFairly` | `Spec => []SettledByTheRightParty`, its second half |
| `EntriesOutliveCalls` | `Spec => []EntryOutlivesItsCalls` |
| `AlwaysSolvent` | `Spec => []Solvent` |
| `DepositsAreThere` | `Spec => []EachDepositIsThere`: for each deposit held, at least that much |

The argument. `TypeOK` alone is not enough for the rest: that a token has been accepted as
soon as a booking exists (`AssetIsSet`) is needed before `balance[asset]` means
anything, and the two are inductive together. `EventsTellTheState` says nothing
of when an event was published, and `SettledByTheRightParty` needs that a
funded booking has its `BookingFunded`: again the two are proved together, one
lemma per kind of step (a step that publishes nothing, one that publishes and
one that creates). Solvency is about a sum over all bookings, defined by the
recursive function `OwedUpTo`; lemmas show by induction over the natural
numbers that a step that changes what is owed for one booking changes the sum by that much, and
each action then moves the contract's balance by at least the same amount. That the
sum covers each deposit by itself is another induction (`TotalCoversEach`), over the least booking
at which it would not. An
entry's life never shrinks (`Extended` and restoring only add), which with the extension
of each call gives `EntriesOutliveCalls`.

`ViewingSlots_proofs` proves, for any slots, renters, bookings and any length of
the lock (`SlotAssumption`: it is positive, and no booking id is the mark of
none):

| Theorem | Statement |
| --- | --- |
| `TypeCorrect` | `Spec => []TypeOK` |
| `ViewingsApart` | `Spec => []NoDoubleViewing` |
| `SlotPromiseKept` | `Spec => KeepsTheSlotPromise` |

`NoDoubleViewing` is inductive with the types: only `Create` adds an interval, and
its guard is that of the invariant. For the promise each action is mapped in a lemma of its own:
`Reserve` is a stutter if the lock still lasts and takes a free slot if not,
and `Tick` expires exactly the slots whose lock ends with it.

`EscrowPromise_proofs` adds, under the same assumption,

| Theorem | Statement |
| --- | --- |
| `DepositPromiseKept` | `Spec => KeepsThePromise` |

The promise sees the agreements, their stages and the wallets, the escrow's own balance not
among them. Lemmas say what a token transfer is to the wallets (into the escrow,
out of it, past it) and what a change of state is to the stages; then each action has a
lemma that names the promise's step. What keeps the storage alive is a stutter, and so is a gift
of nothing. `AssetIsSet` is needed again: a stage speaks of the token agreed.

`BookingWorkflow_proofs` proves, for any number of bookings, slots, requests and
codes (`WorkflowAssumption`: ids, slots and deposits are of their kinds, a code is positive
and lives at least one tick):

| Theorem | Statement |
| --- | --- |
| `TypeCorrect` | `Spec => []TypeOK` |
| `PathKept` | `Spec => StatusMovesAlongThePath` |
| `BookingsDistinct` | `Spec => []BookingsAreDistinct` |
| `PaymentsFit` | `Spec => []PaymentsFitTheStatus` |
| `LedgerBacks` | `Spec => []LedgerBacksTheStatus` |
| `ReceiptsTrue` | `Spec => []ReceiptsAreTrue` |
| `PresenceProved` | `Spec => []PresenceIsProved` |
| `HistoryTrue` | `Spec => []HistoryNeverLies` |

The argument is about what a handler that waits may still believe. `Base` is the types and
`Served`: whatever a request has seen of row, ledger and challenge is still so,
because ledger, codes spent and progress of a row only grow (`Kept`), whoever
moves. The status itself is not among what is believed, which is why each commit is
conditional; nor is that a slot found free still is, which is why `BookingsDistinct` rests on
what the insert refuses and not on what `FindSlot` read. `Books` says that payments, status and ledger agree, and is inductive
given `Base`; the receipts follow from it. `Presence` adds that of the requests that
present one code at most one is past spending it, and `Told` that what a
request has written but not yet put into the history is not in it.

`WalletAuth_proofs` proves, for any number of processes, requests, challenges, wallets and
origins (`AuthAssumption`: allowed origins are origins, lives are positive):

| Theorem | Statement |
| --- | --- |
| `TypeCorrect` | `Spec => []TypeOK` |
| `SessionsOncePerChallenge` | `Spec => []OneSessionPerChallenge` |
| `SessionsEarned` | `Spec => []SessionsAreEarned` |
| `LoginPromiseKept` | `Spec => KeepsTheLoginPromise` |

The invariant follows a challenge from one await to the next: copies in memory are of what the
table holds but for the mark (`Copies`), what is about to be stored is new
(`Stores`), and a request that waits for its commit has read a challenge signed by its wallet
(`Reads`, `Commits`). For the promise, `IssueStore` issues, `Sign` signs, and a
`Commit` opens a session if it finds the row unused; everything else, a copy marked in memory included,
is a stutter.

`WalletPages_proofs` proves, for any number of tabs, connections, wallets and bookings
(`PagesAssumption`: forms are in tabs, and nothing is no wallet and no session):

| Theorem | Statement |
| --- | --- |
| `TypeCorrect` | `Spec => []TypeOK` |
| `WalletsLoggedIn` | `Spec => []VerifiedWalletsLoggedIn` |
| `TabAgrees` | `Spec => []ActingTabAgrees` |
| `OneNameEach` | `Spec => []OneNamePerBooking` |

Again what a waiting connection knows stays true (`Ready`): its challenge is its address's
and, once verified, a session is open. `OneName` is what a form carries from the
booking to the payment. The steps are taken in two halves, dialogs and pages, each of which
leaves the other's part alone.

`VisitDeposit_proofs` proves, for any number of bookings, accounts, pages and requests
(`CompositionAssumption`: those of the parts, ids of one kind, and visits at times the
contract is offered):

| Theorem | Statement |
| --- | --- |
| `DatabaseFollows` | `Spec => []DatabaseFollowsTheContract` |
| `TermsCarried` | `Spec => []TermsAreTheBookings` |
| `ReleaseFollows` | `Spec => []ReleaseFollowsCheckIn` |
| `UnpayableStays` | `Spec => []UnpayableGoesNowhere` |
| `ApiSeesItsLedger` | `Spec => TheApiSeesItsLedger` |
| `VisitPromiseKept` | `Spec => KeepsTheVisitPromise` |
| `PromiseMeans` | `KeepsTheVisitPromise => [](Promise!PaidIsSo /\ Promise!RecordedIsSo)` |
| `WholeSolvent` | `Spec => []Chain!Solvent` |
| `ReleasesAreEarned` | `Spec => []ReleaseRestsOnACode`: a release has a code of its booking, spent, behind it |

The proof reuses those of the parts. Every step of the whole is a step or a stutter of the
contract, and one of the API over the ledger's events (`View`), so `Faithful`, `Base`
and `Books` hold of the whole (`Whole`). What is new is between them: what a page saw
stays true while it is open (`PagesFit`: a page offers `confirm_visit` only for a booking that is
checked in, and such a booking stays so), and every escrow is of one stored booking
on its terms (`EscrowsAreStored`). Together they are inductive (`Agree`). A release
follows a check-in because the page that signs it does. A deposit outside the
contract's bounds has no escrow, hence no event, hence no payment.

For the promise, a step is taken apart by what it does to the database and to the contract's
storage. A commit of the API is one of the promise's records (`ApiKeepsVisit`), and
`Agree` supplies its guard: what is recorded is stored in the contract, so the deposit
has moved already. A page's call that is included is a move of the deposit
(`CallKeepsVisit`): the contract's own lemmas give the step of `DepositPromise`, and
what is added is that its terms are the booking's (`EscrowsAreStored`, and `HostsHost`: the host
stored is the host of the viewing; neither is so by the request, in which a client may name any host, but by what
`FindSlot` found), that a release finds its check-in recorded, and what
the deposit counts as afterwards. The funding event decides between a deposit given back
and a booking called off, since the contract calls both `Refunded`. All other steps leave
the promise's variables alone.

`PromiseMeans` is proved from the promise alone: it needs that no two bookings share a
deposit and that a deposit is *held* exactly while it counts as deposited (`Promised`). The last
two theorems carry results of the parts over: `ContractRuns` and `ApiRuns` say that
the whole is a behaviour of contract and API as they are by themselves, so every
theorem above about either of them holds here, too.

Only model-checked are the liveness properties `DepositComesBack`,
`PaymentIsRecorded` and `SettlementIsRecorded`: liveness under fairness is beyond the
prover used. Every other property of a passing run is proved. `Deployment` has no theorem: its one
run refutes. That each promise can be kept to the
end (that a step it asks for is enabled) is not stated: `ENABLED` is beyond the prover as well,
and the liveness runs are what shows it.

## Not modelled

* Property queries and property pages (`property.service.ts`, `property.controller.ts`,
  `property-list.tsx`, `property-detail.tsx`): reads that change nothing. Which
  slots they offer is the condition of `SlotIsFree`, which `FindSlot` checks again.
* The services without a database: `AppModule` always provides it, and only tests
  construct them so.
* `packages/stellar`: bindings generated for an earlier interface of the
  contract, with states and entry points `lib.rs` does not have.
* Routing, layout, static files and their hashes, the connection to
  the database, migration and seed scripts: input and output without state of their own.
* The network the wallet gate asks for, which is fixed when the pages are built:
  it decides who may connect, and nothing that is signed depends on it. In `WalletPages`
  a wrong network is one of the failures.
* Token signatures and digests: taken to be unforgeable.

## Plan

Done: the contract, the API, the pages, their composition, sessions, slots,
configuration and the wallet dialog, in that order, the proofs of their safety, and
the promise of the whole.
Left: two bookings in the liveness runs of `VisitDeposit`, with the pages of a
renter who books twice; the safety of any number of bookings is proved.
