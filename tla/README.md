# StarkWager in TLA+

TLA+ models of the StarkWager contracts (`contracts/`, Cairo) and of the backend that
accompanies them (`backend/`, NestJS over PostgreSQL), TLC configurations that check them
on small instances, and theorems about them whose proofs TLAPS checks.

Paths below are relative to the repository; `PROJECT.json` maps each definition to the
lines it models, each run to what it checks, and each hazard to the properties that would
notice it going wrong.

## 1. The system

| component | state it keeps | operations that change it | interacts with |
|---|---|---|---|
| Escrow contract (`contracts/src/escrow/escrow.cairo`) | `user_balance` (in-app wallets), `wager_stake` (pots) | `deposit_to_wallet`, `withdraw_from_wallet`, `fund_wager`, `distribute_funds`, `refund_wager`, all reserved to `WAGER_ROLE` | pulls and sends STRK |
| Wager contract (`contracts/src/wager/wager.cairo`) | wagers, participant lists, membership and claim mappings, votes, the escrow address, the admin role | `fund_wallet`, `withdraw_from_wallet`, `create_wager`, `join_wager`, `submit_outcome`, `resolve_wager`, `cancel_wager`, `set_escrow_address`, `renounce_role` | calls the escrow; reads STRK balances and the block timestamp |
| STRK token (external) | balances and allowances | `transfer`, `approve`, `transfer_from` | called by users and by the escrow |
| Wager claims (`backend/src/wager-claim`) | `wagers.status`, `wager_claims` | create, accept, reject a claim | database only |
| Indexer webhook (`backend/src/indexer`) | cursors, messages, events | `consumeIndexerMsg` | posted to by an Apibara sink (`indexer/script.js`), through the global AuthGuard |
| Auth and users (`backend/src/auth`, `backend/src/users`) | `users`, the JWTs handed out | log in or register, refresh, create, rename, set the picture | asks the wallet's contract about a signature |
| Wager invitations (`backend/src/wagerInvitations`) | `invitations` | create an invitation | reads users and wagers; follows renames by a foreign key |
| Wager creation, hashtags, categories (`backend/src/wager`, `hashtags`, `category`) | `wagers`, `hashtags`, `categories` | create one wager, create many in a transaction, create a hashtag, create and remove a category | guards read categories; foreign keys and the index on hashtags |
| Notifications (`backend/src/notification`) | `notifications` | create, mark as read, delete; list and view | database only |
| E-mail queue (`backend/src/email-notification`, `common/sendgrid`) | jobs in Redis | two processors, `sendOnboardingEmail` | Bull's queue, SendGrid |
| Websocket gateway (`backend/src/websocket`) | `connectedClients` beside socket.io's rooms | connect, disconnect, join, leave, message, two broadcasts | socket.io |
| Guards, pagination, exception filter (`backend/src/common`) | none | | every request |
| Configuration, deployment, contract events | | | section 7 |

The contracts and the backend do not call each other: the frontend sends transactions and
requests to both, and the indexer only stores the chain's events. The models keep them
apart for the same reason. Inside the backend, the services share the database and hardly a
row: those that do are modelled together (claims with the status of a wager; wagers with
hashtags and categories; accounts with tokens; e-mails and sockets with the restarts of the
process they live in).

What is hard about each, and what makes it correct:

* **Contracts.** A transaction is atomic, so nothing interleaves *inside* one; what is hard
  is the long sequences of legal calls: joining late, voting before the opponent joins,
  cancelling what was ruled on, ruling on what was cancelled, replacing the escrow while a
  wager is open; and money that moves through three places (token account, in-app wallet,
  pot) in one call that may fail at any assert. Correct means: the participants' list, count,
  mapping and ballots agree; opponents hold opposite claims; agreement decides; a pot is
  paid once, whole, to the right one; and no wallet loses money but to its owner or a stake.
* **Claims, invitations, accounts, notifications.** Every handler is a chain of awaited
  database calls with no transaction, so two handlers interleave at each `await` and one may
  stop between two writes. Correct means: what a handler read still holds when it acts on
  it, or the database refuses and the caller is told what it would have been told anyway.
* **Tokens.** They are signed calls after the row was read and are believed until they expire,
  while usernames and roles change. Correct means: a token names the account of its address,
  and its role is out of date only if the role changed after it was read.
* **Indexer.** The sink repeats batches, gives up on answers that come late and restarts from
  an earlier batch, while the webhook stores a batch in several writes, and lets nobody in
  without a token. Correct means: what the sink has moved past is stored, and no batch is
  refused for ever for what an earlier post of it left behind.
* **Bulk creation.** A READ COMMITTED transaction that checks names without an index and
  inserts hashtags with one: it sees its own writes, waits for those of others, deadlocks;
  its categories may go between the guard and the insert. Correct means: all or nothing, and
  nothing refers to a row that was rolled back or removed.
* **Listings.** A page is a count and a read, and a client goes through pages while rows come
  and go. Correct means: it misses nothing that was there all along, unless a row left.
* **E-mails.** The process may die with a job, SendGrid's answer may be lost or never come.
  Correct means: every job ends unless a call of SendGrid hangs, a copy too many takes a
  restart, and what is reported sent was sent.
* **Sockets.** The service keeps a map beside socket.io's rooms, and clients choose the names
  of rooms. Correct means: map and rooms agree on whom a broadcast reaches.

## 2. Modules

| module | what it is |
|---|---|
| `Escrow` | the escrow's functions and the token's as pure operators on a *vault* (the token and all escrows): `CanX` is the conjunction of X's asserts and `X` the vault after it. No variables. |
| `EscrowContract` | one variable, the vault `books`; the holder of `WAGER_ROLE` calls anything with anything. What the escrow guarantees by itself. |
| `StrkWager` | the wager contract, one action per external function, composed with `Escrow`: the vault is passed through every call a transaction makes. |
| `StakePot` | abstract specification: a wager is a pot of equal stakes of distinct backers, paid once, whole, to one of them. |
| `StrkWagerRefinement` | the mapping under which `StrkWager` implements `StakePot`, and the hypothesis `OneEscrow` it needs. |
| `WagerClaim` | the claim service, one action per awaited call. |
| `Indexer` | the webhook and the sink that posts to it. |
| `UserTable` | the constants and assumptions that `Accounts` and `Invitation`, which both work on the users table, share. |
| `Accounts` | logins, registrations, refreshes, renames, roles, guards and the expiry of tokens. |
| `Invitation` | the guard, the duplicate check and the insert of an invitation, while users are renamed. |
| `BulkWagers` | `POST /wager/create` and `/wager/bulk-create` with their guards, the interactive transaction at READ COMMITTED, hashtags and categories. |
| `Http` | the exception filter and the arithmetic of pages as pure operators. Used by the two modules around it. |
| `NotificationBox` | abstract specification: each call on a notification takes effect in one step. |
| `Notifications` | the notification service, one action per statement, and a client that walks the pages. Implements `NotificationBox`. |
| `EmailQueue` | the processors and SendgridService over Bull's queue. |
| `Websocket` | the gateway and its service over socket.io's rooms. |
| `Delivery` | composes the two: they take their steps apart and die together. |
| `*Proofs` | theorems, section 6: one module per component, except that `UserProofs` speaks of `Accounts` and `Invitation`, and `EscrowProofs` holds the lemmas about the escrow's functions that `StrkWagerProofs` uses too. |
| `MC*` | instances for TLC. |

### How they correspond to the code

**Escrow / EscrowContract.** `vault.user_balance`, `vault.wager_stake` are the two storage
maps of each escrow; `vault.strk` and `vault.allowance` the token's. `refund_wager` takes a
span of participants that may repeat one; `Occurrences` counts how often its loop credits
each. `u256` arithmetic is exact here: the asserts the code has are what keeps subtraction
from underflowing, and `BooksTypeOK` (every balance is a natural number) says so. Overflow would
need more STRK than exists.

**StrkWager.** One action is one transaction. `wager_participants` is the list the code
keeps as a count and an indexed map; `wager_participants_mapping`, `wager_outcome_votes` and
`wager_outcome_submitted` are the sets of pairs that map to true. A stake is paid by
`StakePaidBy`: check the total, top the in-app wallet up by what is missing, move the stake
to the pot. `_check_resolution` returns the set of outcomes both participants voted for (none
or one). `now` is the block timestamp, moved on by `NextBlock`. Storage nobody has written
reads as zeros and first variants (`NoWager`). Category, title, terms and events are left
out: no function reads them.

**WagerClaim, Accounts, Invitation, Notifications.** A request is a slot with a program counter
that names the awaited call it is about to make; a handler that throws frees its slot.
`WagerClaim.Die` is a call that rejects, or a restart, between two writes. A row that has a
unique index is modelled as a function of the indexed column (claims by wager) or checked by
`IndexesAllow` (users). An invitation stores a username, which its foreign key (ON UPDATE CASCADE)
rewrites when the user is renamed: `Cascaded` in `changeUsername`; `invited`, whom the row was made
for, is history. In `Accounts`, `outdated` and `late` are
history: the tokens and requests that hold a role read before it changed; no step reads them.
Likewise the fields `unseen`, `grew` and `torn` of a walk in `Notifications`.

**Indexer.** `CreateMessage` is one nested write and so one transaction; `connectOrCreate` is
a look-up by `orderKey` and a create, which fails when someone else creates the cursor in between, or
when another cursor has its `uniqueKey`, which has an index too. The `uniqueKey`s of a chain are
chosen once, by `Init`. The events follow one by one. A response counts only if the sink still waits
for it.

The webhook (`indexer.controller.ts:4`) has no `@Public`, so the global AuthGuard (`auth.module.ts:31`)
wants a bearer token with every post. The configuration of the sink (`indexer/script.js:20`) sends no
header at all: **as the repository stands, every post is answered 401 and no batch passes**; this is
the initial state of `Indexer`, with `bearer` false, and without `Authorize` it is all that happens.
`Authorize` is an operator who gives the sink a token and `Expire` the end of it
(`auth.module.ts:19`), any number of times.

**BulkWagers.** A call carries the hashtags it still has to connect, the one it is inserting
and those it has inserted and not committed. `InsertHashtag` waits while another open
transaction has inserted the same name. The database client is external: `connect` of a
hashtag that is missing is P2025, a unique index refuses with P2002, a foreign key with P2003,
and a timeout or deadlock with P2028 or P2034, for which the filter has no status but 500
(`Http.StatusOf`). `removeCategory` waits for a transaction that has inserted a wager of the
category, since its foreign key check holds the row. `taken` and `seen` record what existed when
the guard let a call through, `posted` the hashtags that were posted by themselves; no step reads
them, three properties do.

**EmailQueue.** Bull is external and written from the options the module registers: a job
whose processor throws is delayed and tried again up to `attempts`, one whose worker died is
taken again up to `maxStalledCount`. The processors never throw, so of the two only stalls occur
for a job that has a processor. Nothing in the repository adds a job: `Enqueue` is an input, and a
job has data (one without would throw at `email-notification.processor.ts:15` or `:37`, outside the
`try`, and fail by its attempts; no producer makes one). A call of SendGrid may have no answer:
`sendgrid.service.ts` sets no timeout for its client, and no step of the model ends such a call
but a restart. `EmailRestart` assumes that something starts the process again;
`docker-compose.prod.yml` does not.

**Websocket.** socket.io is external: a socket is first in the room of its own id, rooms go
with their sockets, and `client.broadcast` leaves out the room that has the sender's id as its
name. Clients and `broadcastToRoom` name any room, a socket's id included. `gaveUp` are the sockets
that have left the room of their own id. `told` is what the clients were told by the events `joinedRoom` and `leftRoom`; `last` is
the broadcast of the last step and whom it reached.

Each action's mutated variants (`CreateUpsert`, `CallFailsLogged`, ...) stand before the
definition they vary and are marked `MUTANT`. They are used by nothing: they document, for each
property, a plausible slip in the code that the property would notice.

## 3. Runs

| run | module, cfg | question | states |
|---|---|---|---|
| `escrow_alone` | `MCEscrowContract` | does the escrow keep its books whatever the role holder calls? | 1,740 |
| `wager_life` | `MCStrkWager` | three users join, vote, cancel, an admin rules and replaces the escrow: are participants, claims and the decision consistent and final, and where are the stakes? | 793,860 |
| `wager_money` | `MCStrkWagerRefinement` | is every unit of STRK accounted for, and is `StakePot` implemented? | 213,264 |
| `release` | `MCStrkWager`, `...Release.cfg` | does a resolution release the stakes? (violated, section 5) | |
| `claims` | `MCWagerClaim` | do a wager's status and its claim stay related when handlers interleave and die? | 514,464 |
| `claims_reject` | `MCWagerClaim`, `...Reject.cfg` | are only pending claims rejected? (violated) | |
| `indexer` | `MCIndexer` | is what the sink passed stored, and does it pass everything while it has a token? | 882,560 |
| `accounts` | `MCAccounts` | does an address get one account, and does every token name it, with its role? | 1,491,315 |
| `invitations` | `MCInvitation` | how many duplicates can overlap cause, and what does a self-invitation take? | 14,286 |
| `bulk_wagers` | `MCBulkWagers` | is a payload created as a whole, on what is committed, and refused for a reason? | 2,486,179 |
| `notifications` | `MCNotifications` | are two-statement calls seen as one step, and does a walk of the pages miss anything? | 634,834 |
| `delivery` | `MCDelivery` | how often is a mail sent, does its job end, and whom does a broadcast reach, across restarts? | 460,600 |

What the properties say is written above each in its module. The ones a reader may look for:

* `StakeAccounting`: an open pot is one stake per participant; a cancelled one is empty; a
  resolved one is empty or whole. `PotsPayWhomTheyShould`: whenever a pot shrinks it is
  emptied, all of it, into the wallet of the winner or the refunded creator.
* `NoSecondPayout`, `DecisionFinal`: what was decided cannot be paid, joined, voted on or
  decided again. `cancel_wager` excludes only `Cancelled` and `resolve_wager` excludes only
  `Resolved`, so these hold by the interplay of the counts and not by one guard.
* `ConsensusDecides`: a vote may be cast before the opponent joins; the second vote decides
  whichever came first.
* `StakesAcrossEscrows`: what remains true when the escrow is replaced.
* `HalfAcceptedIsInFlight`, `CompletedIsSettled`: the state between `acceptClaim`'s two
  updates lasts only as long as the handler that made it.
* `ClaimsStartOnActiveWagers`, `NobodySettlesTheirOwn`: what a handler checked some calls ago
  still holds when it writes.
* `PassedIsStored`, `NoHoles`, `OneRowPerPost`: at least once, in order within a post, and no
  more often than the batch was posted. Exactly once does not hold: a repeated post stores
  its events again, which nothing in the code promises to avoid. `EveryBatchPasses` has two
  antecedents, that the sink has a token for good from some time on and that no two cursors of the
  chain have one `uniqueKey`: without the first no post is let in, without the second the same
  transaction is refused again and again.
* `AllOrNothing`: every wager of a payload that was answered 201 is there and none of another, and
  every hashtag there was posted by itself or is one of a payload that was created: a call that is
  refused or aborted at any statement leaves none behind.
* `RolesAreCurrent`: a demoted admin keeps a token that passes RolesGuard, but only one whose
  role was read before the demotion: the next refresh or login sets it right.
* `ClashOnlyByOverlap`, `DuplicatesOnlyByOverlap`, `SelfInvitationTakesTwoRenames`: how far the
  checks that no index backs up still reach. `ConflictOnlyByOverlap`: a 409 for a bulk payload
  is never the payload's own doing. `DeadlockTakesTwoTags`: payloads that share one hashtag
  never wait for each other in a circle.
* `CallsAreAtomic`: whoever loses the race of a look-up and a delete gets the 404 it would
  have had by coming later, thanks to what the exception filter makes of P2025.
  `WalkMissesNothing`: what a listing guarantees without a snapshot.
* `CopiesTakeAStall`, `EachJobEnds`, `SuccessIsDelivered`: a mail is sent once and once more per
  stall at most; a job ends by its result, its attempts or its stalls, if every call of SendGrid
  comes to an end; no mail is reported sent that was not, though one that was may be reported failed.
* `HearsTheOthers`, `RoomTraffic`: a message reaches all other clients but those that joined the room
  of the sender's id, and the sender itself only after it has left that room; the broadcasts of the
  service reach whom the clients believe they reach, and one to a socket's id also that socket, which
  is in that room without having been told.

Deadlock checking is off where the instance runs out of work: `indexer` (the sink has passed
the last batch), `invitations` (no invitation ids or renames left) and `bulk_wagers` (each call
is made once).

## 4. Bounds and fairness

* `wager_life` has three users because the hard joins are a race for the second seat and a late
  join of a group, and two escrows between which the admin goes back and forth; one STRK each,
  since money is `wager_money`'s question. `wager_money` has two users with two STRK and stakes
  of one and two, so a stake comes from the wallet, from the token account, or from both, with
  an approval that may cover only part. `MaxTime = 1` gives votes before and after the
  resolution time. Amounts include 0 where zero is accepted. `Funds` bounds the money;
  `MaxWagers` the ids. With one id, wagers next to each other are not exercised in `StrkWager`:
  that is what the theorems, which hold for every `MaxWagers`, are for.
* `claims`: one wager (handlers share no row but the wager's), three handlers, so an accept, a
  reject and a create overlap, and two deaths. Requests come without limit.
* `indexer`: two batches share a cursor; three handlers let two late posts overlap a current
  one; three faults let a post fail, its repetition be given up and the sink restart. Tokens come and
  go without bound. The chain has a `uniqueKey` per cursor, or one that is repeated; `MaxPosts = 6`
  bounds the posts of the batch such a chain refuses for good, and no batch of the other is posted
  more than five times.
* `accounts`: two ids, two addresses, two names and two handlers: two logins of one address
  race, and others register, rename, are promoted and demoted between their calls. Two ids are
  enough because two addresses have at most two rows, by the property itself; were it to fail,
  the two ids would be taken by one address. Role changes and expiries have no bound.
* `invitations`: `Ids` and `MaxRenames` bound the rows and the renames; two handlers are what
  the duplicate needs, two renames what the self-invitation needs.
* `bulk_wagers`: payloads of up to two wagers (`MaxWagers`) with either of two names, each with a
  category of its own, and any of two hashtags, reach a repeated name in one payload, opposite
  insertion orders, a rollback after an insert, and a category that goes while the other wager's
  is looked up. Two calls, because what a property says of calls it says of one or two. Wagers
  without hashtags and with an empty list behave alike past the DTO except in `createWager`,
  which has the first.
* `notifications`: `MaxRows = 3` is a full page of two and a partial one; the rows come in any
  order of their keys, since ids are random. One filter: a row that is marked as read leaves the
  walk of the unread, which a deletion does for any filter.
* `delivery`: one mail (mails share only the two workers), the `attempts` of the code, two stalls (the
  code's `maxStalledCount` is three: each stall takes the steps of the one before) and one restart more
  than the stalls allow, so that a job does run out of them. Two
  sockets and one room besides the rooms of their ids; a socket id is used once.

Symmetry sets are interchangeable model values that no definition tells apart; no run with a
liveness property uses symmetry. `notifications` checks a safety refinement under it:
`NotificationBox` has the same symmetric constants.

Fairness. `WagerClaim.FairSpec`: weak fairness of each request's steps; the event loop resumes a
handler whose database call has answered, and a call that never answers is a failure, which
`CompletedIsSettled` excludes by name. `Indexer.FairSpec`: the same for handlers, and the sink
goes on posting, which is what a webhook sink does; faults are bounded, so "once faults stop"
is what `EveryBatchPasses` says. That the sink gets a token is in no fairness: it is an antecedent.
`EmailQueue.EmailFairness`: weak fairness of the steps the queue owes a job (taking it, failing one
that has no processor, promoting it after its backoff, looking for stalls); Bull runs these from
timers and its connection. It does not oblige SendGrid to accept anything or to answer, nor anybody to
enqueue: with no timeout set, a call that hangs keeps its job active for ever. `EachJobEnds` says
so: its antecedent, `SendsAreAnswered`, is that each call comes to an end. `MaxRestarts` bounds the restarts, so `EachJobEnds` speaks of a process that
stops dying some time; it need not for the job to end, since its stalls run out first.
The contracts, the sockets and the other endpoints get no fairness: nobody is obliged to send
anything, and no liveness is claimed of them.

## 5. What disagrees with the code

Two runs TLC refutes, of a sentence the repository states:

* `release` / `ReleasedToWinner`. `backend/docs/overview.mdx:18` promises "Automated fund
  release to winners". `resolve_wager` moves no money, and `submit_outcome` and `join_wager`
  refuse a resolved wager, so the pot of two or more participants stays: one user creates a wager,
  another joins, the admin rules, and both stakes are in the escrow for good. (A resolved wager of its
  creator alone can still be cancelled, so the property speaks of two or more.)
* `claims_reject` / `OnlyPendingRejected`. `wager-claim.service.ts:115`, 'Only pending claims can
  be rejected': a reject that read the claim before it was accepted overwrites the acceptance,
  and a completed wager keeps a rejected claim.

Others that the models describe as the code has them, met while they were written:

* `wagerInvitation.controller.ts:37`, "Ensure user is not invited more than once to the same
  wager": two overlapping requests both find no invitation. `DuplicatesOnlyByOverlap` says that
  this is the only way.
* `indexer/script.js:20` gives the sink a URL and no header, while `indexer.controller.ts:4` is behind
  AuthGuard: every post is a 401 until the sink is given a token, and again when it expires.
* `websocket.gateway.ts:47`, "to all connected clients except the sender": to socket.io the
  sender's id is the name of a room, which clients may join and leave. `HearsTheOthers` says
  what remains.
* `wager.service.ts:15` maps the hashtags of a payload in `createWager`, while the DTO makes them
  optional: without them `createWager` throws, and the request is a 500.
* `wager.guard.ts:123` formats errors by their `constraints`, which an error about a nested wager
  of a bulk payload does not have: a bad payload is then a 500 (`BulkWagers.Invalid`).
* `token.dto.ts:10` has no decorator, so the validation pipe of `app.module.ts:59`, which keeps only
  decorated fields, strips the refresh token and the endpoint refuses. `Accounts` models the
  service, with its token.
* The DTO of a login takes the signature as a string, while `auth.service.ts:76` reads its `r` and
  `s`: a login with a signature is refused (`Accounts.isValidSignature`).
* `auth.controller.ts:19`: the controller is public, so AuthGuard sets no `req.user` and
  `GET /auth` throws. `users.controller.ts:46`: `GET :address` comes after `GET :id` and is never
  reached. Neither changes state and neither is modelled.
* `swagger.decorator.ts:16`, "AND (wagers must contain all hashtags)": the filter is `every`, which
  asks that each hashtag of a wager be listed. Not modelled: the filter reads only.
* `email-notification.module.ts:29`, `attempts: 3`: the processors catch their errors, so no mail
  is tried again. `CopiesTakeAStall` includes it.

## 6. Theorems

For every value of the constants (any number of users, wagers, escrows, requests, rows, faults),
from the named assumptions on the constants in each module and nothing else. Every safety invariant,
action property and refinement that a run finds to hold is also proved. Three assumptions say
that a set is finite: `FiniteAccountsAssumption` (users and escrows, since totals are sums over
them), `HandlersAssumption` and `RequestsAssumption` (requests in flight, since properties count them).

**Escrow** (`EscrowProofs`): `BooksTypeCorrect`, `AlwaysSolvent`, `PotsAlwaysPayInFull`.
`Solvency` is inductive with the type. Its sums are folds over the users and the wagers; the
lemmas about them (what one changed summand does to a sum, that a sum of natural numbers is one and
is no less than its parts) rest on `NatInduces`, induction over the natural numbers for a predicate given
as a set, which follows from the least element of what is left; `PartialSums` uses it to show that the
recursion behind the fold has a solution. The hard step is `refund_wager`, whose list may name a
participant any number of times: each is credited the stake once per `Occurrences`, and by induction
on the part of the list refunded (`RefundedTotal`) that adds up to the stake times the list's length.

**Wager contract** (`StrkWagerProofs`): `TypeCorrect`, `Inductive`, `ParticipantsAlwaysAgree`,
`ClaimsAlwaysOppose`, `ConsensusAlwaysDecides`, `PotsAlwaysAddUp`, `StakesNeverLost`, and of steps
`NeverASecondPayout`, `DecisionsAreFinal`, `WalletsNeverLose`, `PotsPayTheRightAccount`.

* None of the invariants is inductive alone, so `IndInv` conjoins them with `TypeOK` and
  `UncreatedIsBlank`: `create_wager` writes over what an unused id reads as, and the other
  conjuncts speak of ids by mode and state; `OpposingClaims` needs the list to be free of
  duplicates; a second vote decides for the right one only because the claims oppose; and the
  accounting of a pot needs the count to be that of the list. The proof goes by invariants
  (`AgreeStep`, `OpposingStep`, `ConsensusStep`, `AccountStep`) and under each by action, with frame
  lemmas for the actions that touch none of its variables.
* `StakesNeverLost` is about the sum over all escrows, for any number of them and any switching:
  the pot of the current escrow is the one summand a transaction may change. That a cancelled
  wager holds nothing anywhere follows because the refund out of the current escrow is its one stake,
  and over all escrows there was no more.
* `PotsPayTheRightAccount` needs the invariant for its last clause: with one escrow, what is paid is
  the stake times the number of participants.
* `StakePotImplemented` (`OneEscrow => (Spec => ImplementsStakePot)`): a wager's creation, a join, a
  ruling, a payout, a refund, and what wallets gain or lose by deposits and withdrawals, each maps
  to its step of `StakePot`; votes that decide nothing, changes of role or address and steps of
  the token stutter. `OneEscrow` is what the promise is made for: with a second escrow `StakePot`
  fails, and `StakesAcrossEscrows` is what stays.

**Claims** (`WagerClaimProofs`): `TypeCorrect`, `AcceptedAlwaysMeansCompleted`,
`HalfAcceptedAlwaysInFlight` and the action properties `FirstClaimAlwaysStands`,
`NobodyEverSettlesTheirOwn`, `ClaimsAlwaysStartOnActiveWagers`. The strengthening,
`ReadsStillHold`, says what each handler may rely on of what it read: past the first read of a create
the wager is active or already claimed, past that of an accept or reject the claim is there and
somebody else's, past an accept's first write the wager is completed.

**Indexer** (`IndexerProofs`): `TypeCorrect`, `PassedAlwaysStored`, `NeverAHole`,
`RowsWithinPosts`. For the first two, a handler has stored the message and the events before the one
it is at, and the sink only waits for a handler that serves the batch it is at, so a late answer to
an abandoned post never moves it. The last two count, and `CountInv` counts requests with rows: the
rows of an event and the requests about to store it are together no more than the rows of what comes
before it (`Prefixes`); the rows of an event and the requests that have yet to store it are no more
than the posts (`Posted`). `CursorsFound` says that the cursors a request found missing are all
its batch lacks, so a message is never there without its cursors. A post the guard refuses changes
nothing (`RefusedPost`), and the proofs use of the `uniqueKey`s only that they stay.

**Accounts and invitations** (`UserProofs`): `TypeCorrect`, `AccountsAlwaysUnique`,
`TokensAlwaysNameTheirAccount`, `RolesAlwaysCurrent`. Strengthening: a request about to sign holds
the id of a row that has its address, and its role unless it is in `late`. For invitations
`FewDuplicateInvitations` and `SelfInvitationsTakeTwoRenames`. Strengthening: the invitations of a user to a
wager and the requests about to make another are together no more than the handlers (`Bounded`): a
request gets there only when there is no invitation yet, which it looks for by a name the row has too,
since the cascade keeps rows and users alike (`FollowsUser`); and past the guard the name is not the inviting
user's, and until a first rename somebody has it (`NotTheirs`), so that one rename cannot hand it over.

**Bulk creation** (`BulkWagersProofs`): `WagersTypeCorrect`, `PayloadsAreAtomic`,
`NamesClashOnlyByOverlap`, `NothingDangles`, `ConflictsHaveACause`, `DeadlocksNeedTwoTags`, for payloads
of any length. `IndInv` has one record of what a call may rely on (`Sound`), in parts: where it is in
its payload (`Placed`); that the hashtags it deals with are those of the wager it is at, and the one it
inserts is new to it (`Dealing`); that the names it has looked up differ and were not taken
(`Unclashed`); that what it has inserted has its hashtags, but for those still to do, and a category that
its foreign key keeps (`Connected`); that the guard has seen every category (`Vouched`). `Remembered`
says that what the guard saw is still there. A removal or a commit of someone else keeps each part, which is
where the isolation level comes in.

**Notifications** (`NotificationsProofs`): `TypeCorrect`; `Implements`, that `Notifications` refines
`NotificationBox`: a look-up that finds nothing and a view are steps of the box, a look-up that finds
its row is a stutter, and the second statement is the step, which answers 404 when the row has gone
since. `WalksMissNothing`: the place of a row is the number of listed rows before it; unless a row
left, what the walk has not shown is not before its page; unless one came, what it has shown is
(`Walking`). A row that comes in moves others back, one that leaves moves them forward, by one each.
`EachRowHasOnePage`: for every listing and limit, the pages 1 to `TotalPages` hold each row once and no
further page holds any.

**E-mails and sockets** (`DeliveryProofs`): `CopiesTakeAStallAlways`, `SuccessIsDeliveredAlways`,
`HearsTheOthersAlways`, `RoomTrafficAlways`. `Awaited` says who waits for SendGrid and that a job with a
processor is with SendGrid as long as it is active; `Paid`, that a job that waits has had at most
one copy per stall. `SocketInv`: the service's map is the set of open sockets, and a client is in the
room of its own id unless it gave it up, and in any other room exactly if it was told so.

Only model-checked: liveness under fairness (`CompletedIsSettled`, `EveryBatchPasses`, `EachJobEnds`),
which is out of the prover's reach, as is ENABLED; and the two properties of section 5, which TLC refutes.

## 7. Not modelled

* Reads that change nothing and answer what they find: profiles, single wagers, statistics, and
  the filter of `getAllWagers`. The pages of listings are modelled once, for notifications; wagers
  and users are counted and read in the same way.
* Configuration, start-up, environment variables, logging; of the exception filter, the texts.
* Texts of e-mails and SendGrid's unused `getTemplate` and `validateEmail`.
* E-mail addresses of users, except as a reason for an insert to fail; the JWT in an invitation,
  which nothing reads.
* Events of the contracts, deployment files, documentation.
* Chain reorganisations and messages with more than one block in the indexer: only the events
  of the first block of a batch are stored (`indexer.service.ts:38`), but what the sink posts then
  is not visible in the repository, so no property covers it.
* The columns of the schema that no property tells apart, and the history of migrations.

## 8. What is left

1. Refinements that are stated by properties only so far: that a bulk payload is one atomic step
   of an abstract table of wagers (`AllOrNothing` says so of states), and that a queue which delivers
   each mail at least once per job that ends well is implemented by `EmailQueue`.
2. An abstract specification of the claim service (a wager is settled by one atomic step) and how
   far the service implements it when nothing fails.
3. A model of reorganisations in the indexer, once the messages of the sink are recorded in the
   repository; and of the producers of e-mails and broadcasts, once it has any.
