# Verification of The Regulation Reckoning

TLA+ modules, TLC configurations and TLAPS proofs for The Regulation Reckoning:
a bounty platform on Stellar/Soroban (two Rust contracts), a backend that
indexes the contracts' events and the regulations of the industry (TypeScript,
SQLite), a dashboard and an SDK.  Sources are named relative to the repository.

## 1. The system

| Part | State it keeps | Operations |
|---|---|---|
| Bounty contract, `contracts/bounty/src/lib.rs` | bounties with their milestones, reviews, disputes, votes; signers, threshold, proposals; the escrow account's token balances | `init`, `create_bounty`, `claim`, `reclaim`, `submit_review`, `open_dispute`, `vote_on_dispute`; `propose`, `approve`, `revoke`, `cancel`; actions of proposals: Release, Reclaim, SetReviewers, ResolveDispute, SetSigners |
| Reputation registry, `contracts/contributors/src/lib.rs` | admin and allowed caller, replay guards per (subject, issue, milestone), `Stats` and `Rep` per account, a count of contributors | `init`, `set_allowed_caller`, `record`, `record_review`, `record_dispute`; queries and `score_of` |
| Indexer, `backend/src/services/indexer.ts` | event log, cursor, last ledger, seven derived tables | a pass (`indexOnce`) after a submission, on request and from the command line; rebuild of the tables |
| Soroban client, `backend/src/services/soroban.ts`; `src/lib/tx.ts`, `wallet.ts` | none of its own: the network's transactions | build, sign (in the wallet), submit, poll; fetch events |
| Regulations, `backend/src/services/regulations.ts`, `ingest/` | policies, revisions of regulations, alerts, ingestion runs | detect changes, acknowledge, ingest |
| HTTP API, `backend/src/routes/api.ts`; rate limiter | one window per client; the event bus | requests, server-sent events |
| Read side: `reputation.ts`, `jurisdictions.ts`, `analytics.ts`, `horizon.ts` | none | queries |
| Dashboard, SDK: `src/`, `sdk/` | what the panels show, loads and runs under way | loads, clicks, the build-sign-submit flow, the event stream's client |

How they interact: the bounty contract calls the token contracts and the
registry inside its own transactions; both contracts emit events; the indexer
pulls the events and rebuilds tables that the API serves; the dashboard asks the
API to build a transaction, has the wallet sign it and the API submit it, which
starts an indexer pass.

What is hard here:

* **Contract**: every transaction is atomic, so the difficulty is not inside one
  call but in long sequences of legal calls by several parties: a dispute that
  overtakes a release, reviewers and signers replaced between a vote and the
  decision it counts for, bounties that share one escrow account, a registry
  that is initialised late or rotated away.  The replay guards, the `released`
  flag, `released_amount`, the vote counters and the quorum are all derived from
  other state and have to agree with it.
* **Indexer**: passes overlap across an `await`; the log, the cursor and the
  seven tables are written in separate transactions; a crash or error can fall
  between any two.
* **Relay**: the submission can time out while the transaction is included; the
  answer can get lost on the way; two requests of an account can be built on one
  sequence number; twenty actions are translated from named fields to positions.
* **Read side**: answers combine derived tables that lag, events of transactions
  that were cut by a page, and reads of the ledger.
* **Regulations**: every statement of change detection commits on its own, the
  server and `npm run ingest` are two processes, and either can be killed.
* **Event stream**: clients only hear of anything by reconnecting, through a rate
  limiter that all clients of an address share.
* **Dashboard**: loads overlap, answers come in any order, and a reload takes away
  the panels of transactions that are under way.

What makes each part correct: money leaves the escrow only for the milestones it
belongs to, to the right party, with the decision that it needs; nobody is locked out; reputation
records exactly what was paid, and nothing is double-counted; the derived tables
are the fold of the log, and the log misses nothing; each change of a regulation
raises its alert.  `PROJECT.json` lists the individual hazards with their lines.

## 2. Modules

| Module | Models | State |
|---|---|---|
| `ReputationRegistry` | the registry contract | `reg`, its storage as one record |
| `Escrow` | settlement side of the bounty contract, extends the registry | `config`, `bounty`, `review`, `dispute`, `ballot`, `balance`; history `paid`, `returned` |
| `BountyContract` | the whole contract: `Escrow` under proposals, approvals and signers | adds `signers`, `threshold`, `proposal` |
| `Settlement` | abstract: the fate of each milestone's money, and the money that moves with it | `fate`, `terms`, `funds` |
| `Indexer` | the event log, the cursor and the derived tables under passes that overlap, fail and crash | `log`, `cursor`, `lastLedger`, `table`, `pass`; external `chain`, `latest` |
| `ReadModel` | `BountyContract` with the events it emits, the seven derived tables and the answers composed of them | adds `view`, `pending` |
| `RelayPromise` | abstract: what whoever runs a transaction is told, and its fate | `outcome` |
| `TxRelay` | build, sign, submit and poll between client, server and network; the arguments of every action | `script`, `flow`, `sequence`, `executed`, `spent` |
| `Dashboard` | the app's loads and the panels that make transactions, on `RelayPromise` | `app`, `pending`, `view`, `asking`, `run`, `standing`, ... |
| `Regulations` | classification, change detection, revisions, alerts, policy rows | `dataset`, `history`, `alerts`, `policies`, `job` |
| `Ingestion` | `Regulations` and the issues, started at boot, on request and by the command line, with kills and failed writes | adds `server`, `github`, `issues`, `issueJob` |
| `HistoryPanel` | the regulation history panel in front of `Ingestion` | adds `flows`, `shown` |
| `RateLimiter` | the windows of the rate limiter | `windows`; observed `recent`, `promised` |
| `EventStream` | the event stream behind the limiter, and its client | adds `lastSseEventId`, `stream` |
| `MC*` | instances for TLC | |
| `SumTheorems` | sums over finite sets, and induction over sets | |
| `EscrowProofs`, `BountyContractProofs` | theorems about the contracts | |
| `IndexerProofs`, `ReadModelProofs`, `TxRelayProofs`, `RegulationsProofs`, `EventStreamProofs` | theorems about the backend and the front end | |

### Correspondence with the contracts

*One action is one transaction.*  Soroban rolls a transaction back as a whole
when the contract returns an error, when a token transfer lacks the balance, or
when the registry call panics.  An action is therefore enabled exactly when the
whole call succeeds; failed calls are stuttering steps.  The registry's writes
are operators on a registry value (`Recorded`, `ReviewsRecorded`,
`DisputeRecorded`, each with its guard `...Allowed`): the registry's own actions
apply one of them, the escrow composes several inside one transaction, as
`apply_release` does with `record` and one `record_review` per approving
reviewer.

*Storage keys are function domains.*  `bounty`, `review` and `ballot` are
functions whose domain is the set of keys stored so far; `dispute` and
`proposal` are sequences because their ids are counters that start at 1.  The
milestones of a bounty are the list of amounts and the set `settled` (the
`released` flag of each milestone), counted from 1 where the code counts from 0.

*Governance.*  In `Escrow`, `execute_action` may run at any time with any
proposable action: a contract whose signers agree to everything.
`BountyContract` adds who decides.  That the second implements the first is the
property `ImplementsEscrow`, so whatever holds of the escrow holds under
governance.

*History variables.*  `paid` and `returned` record what the token transfers did;
no guard reads them.

*Left out.*  Signature checks (`require_auth`: an action's caller argument is the
account that signed), storage TTL, events, getters, the u32 saturation of the
counters (2^32 calls); i128 arithmetic saturates at the constant `MaxI128`.
Tokens are external: a balance per account, no minting, no failure other than a
missing balance.

### Correspondence with the indexer

A pass reads the cursor (`indexOnce`), awaits the RPC (`fetchContractEvents`),
and then runs without another await: one action per database transaction
(`persistEvents`, `rebuild` per table, `setCursor`, `setLastLedger`), with the
read that precedes a rebuild (`loadEvents`) as an action of its own because it is
outside the rebuild's transaction.  `HasThread` keeps the passes of one process
from interleaving there; `npm run index` is another process and does interleave.
`PassFails` is the catch of `indexOnce` reached from any point, `Crash` the death
of a process.  No timer starts passes: `startIndexer` calls `recordAudit`
(indexer.ts 796), which indexer.ts does not import (18-22), so it throws before the
first pass and before `setInterval`, and `main` exits (server.ts 56, 70-73).  A server
that listens is one whose indexer is disabled; its passes are those that `POST
/api/tx/submit` and the admin's reindexing start, and `indexOnce(p)` may happen but
need not.  In `Ingestion` this is `StopAtIndexer`: where the indexer has something to
do (`left.indexes`), the boot ends with the server down.  An event is its position in the order of the RPC's ids; the RPC
filters by contract, skips what comes before the cursor, and answers at most
`PageLimit` events.  What the tables say about the events is the subject of
`ReadModel`: here a table is the set of events it was last derived from.

### Correspondence with the read side

`ReadModel` extends `BountyContract`: each action of the contract appends to
`pending` the events that `execute_action` and the entry points publish, in their
order, and an indexing step folds the oldest of them into `view`.  The code
rebuilds a table by folding over the whole log; the fold is kept as the table.
`CaughtUp` folds in what is pending, and most properties compare it with the
contract's state.  The answers (`readBounty`, `AnsweredReleases`,
`readReputation`, ...) are operators over the tables and the ledger, sets where a
read may fail or where two reads may fall before and after a transaction.
What the code loses is in the model: a milestone paid by a dispute publishes no
`milestone_released`; `bounty_released` is an event of the first contract version
that this one never emits; payouts, reviews and disputes of the registry share one
dedup key; the quorum is taken from the first row of the index; `dispute_*` events
store the dispute's id as the issue; whether a bounty is released is decided by
comparing doubles (`Number`, indexer.ts 230), which beyond 2^53 round.  Writes of other
contracts to the registry are left out of `ReadModel`; they would publish the same
events.

### Correspondence with the relay and the dashboard

A flow of `TxRelay` is one `runTx` (or one call of the SDK, or a bare request)
with its server side and its transaction.  `GetAccount`, `Simulate`, `Sign`,
`Send` and `Poll` are the awaits of `buildContractTransaction`, the wallet and
`submitSignedTransaction`; `Deadline` is the 30 s of the poll, `Expire` the 180 s
of the time bound, `PollFails` a failed RPC call, `LoseAnswer` a broken connection
or the SDK's 20 s.  `Apply` and `Drop` are the network.  `CanBePooled` is the
account's sequence number and one pending transaction per account;
`TRY_AGAIN_LATER` is polled until the deadline, as in the code.  A request is a
record of named fields; `JsonOf` is what the front end or SDK makes of them,
`actionToInvocation` the table of entry points and positions, `Call` the encoded
arguments.  Number words have `WordBits` bits.

`Dashboard` does not extend the relay but its promise: a run proceeds by
`RelayPromise` alone, which `TxRelay` is shown to implement.  A panel that the app
takes away loses its state; calls under way go on, so that `standing` says whose
panel is still there.

### Correspondence with ingestion

A job is one call of `ingestPolicies`, cut at every statement that commits on its
own (`Compare`, `AddRevision`, `insertAlert`, `persistPolicies`), because another
process can get in between; inside one process it is uninterrupted.  `contentHash`
is equality of the snapshot up to the order of its lists.  `kills`, `failures` and
`alone` (no other job wrote since this one began) are observed, not state of the
program.  The two files `audit.ts` and `db.ts` are only used as the code around
them uses them: an audit record may throw after everything is stored.

### Correspondence with the event stream

The backend is compiled to CommonJS, `wireSseBridge` replaces
`publishSseEventId` in the module's exports, and the indexer calls its own
function, not the export: the bus is never created, and every subscription throws
after the head of the answer, with the newest id, is sent.  `Handle` is that
answer; `ReceiveAll` is a body that something between the two ends properly,
`Receive` one that breaks off.  `close` sets the retry to infinity and aborts,
which the catch answers with one more connection after 30 s: a closed client goes
on.  Windows and the last id are in memory (`Restart`).

## 3. Runs

The contract forces nobody to act, so its specifications state no fairness and
its properties are safety properties.  The runs of contract, indexer, ingestion and
relay disable deadlock checking because the bounded instances do end (all bounties
closed, all counters used up, every request answered).

| Run | Instance | What it shows |
|---|---|---|
| `reviewed` | 1 bounty of 2 milestones, 4 accounts, panels of 0, 1 and 2 reviewers and malformed ones, 1 dispute, registry | votes match the ballots behind them; reputation is earned (`ReputationIsEarned`: backed by payments, charged to those who opened the dispute) |
| `shared` | 2 bounties of 2 milestones, 2 tokens, 3 disputes, contributor may be the funder | an open dispute holds its milestone, alone, paid milestones are settled and closed bounties have nothing left (`SettlementInv`); books and balances exact for every bounty and token (`BooksBalance`); closed bounties are final; money goes to the parties only; refinement of `Settlement` (`MoneyMovesWithFate`): every transfer is of milestones whose fate it decides and by their worth, only the resolution moves what is disputed, and only what a dispute refunded leaves twice |
| `rotation` | 1 bounty of 2 milestones, the funder reviews, registry initialised late and rotated between two callers | no payment without its credit; counters equal the guards behind them and the two aggregates agree (`RegistryConsistent`); rotation never rewrites history |
| `governance` | 3 proposals about 2 bounties of one milestone, either of which may be disputed, signer sets of one and two out of three accounts, 4 `SetSigners` vectors of which 2 are rejected, a panel | signers and reviewers can always decide (`NobodyIsLockedOut`); a proposal decides once; a milestone is paid, a claimed bounty refunded, a panel or the signers changed only by the proposal that says just that, of that issue and with that outcome (`DecisionsNeedProposals`) |
| `indexer` | two passes of the server and one of the command line, 2 ledgers with up to 2 events each (also of failed calls and without a name), pages of 2, 2 tables, one fault, no start ledger | nothing in scope is missing below the cursor and below any stored event; the server's tables follow the log and never go back; every event is stored as long as passes are asked for |
| `readmodel` | a reviewed bounty of 2 milestones with a dispute, 2 proposals, the registry; events indexed one by one, transactions made while one transaction's events are pending | what each table knows of the ledger and where it lags; no answer is ahead of the ledger; answers about the same question agree; refinement of `Escrow` (`ImplementsEscrow`), with proposals about everything that the escrow does |
| `relay` | every action once through panel, SDK and bare request; colliding pairs of one account and pairs of two accounts; with no script, 2 runs of a dashboard over 2 bounties with one click | the relay implements its promise, what is executed is what was asked, submissions end and fates are decided; no panel shows a verified state from before a confirmed run, and the dashboard comes back |
| `stream` | one client, other requests from its address, 2 events, a restart, a lost answer, `close`; a window of 3 ticks and 3 requests, retries of 1 to 3 | requests are limited, waiting as told helps, reconnecting alone is never refused, the newest event arrives |
| `ingestion` | policies that are new, escalate, are reworded, reordered, invalid or listed twice; 2 processes, 6 budgets of jobs, edits, faults and clicks, a GitHub without a fetchable issue, a server that is to index; a panel | revisions are a true, immutable account; every change has its alert; jobs repair what others left; tables fill where there is something to fill them with; the panel shows what is stored |

Fairness.  *Indexer* (`FairSpec`): an RPC call is answered or fails, and synchronous
code runs to its end.  That passes start is not assumed of the code, which has no
timer that does it; `EveryEventIndexed` and `TablesCatchUp` say so themselves
(`PassesKeepStarting`: transactions keep being submitted, or the admin keeps asking).
Failures are bounded by
`MaxFaults`: with failing calls for ever nothing would be indexed.  No page is full
of events of failed calls in these instances, because then the code would ask for
that page for ever (a hazard).  *Relay*: the server goes on with a request it has,
timers run, time bounds pass, and the network drops what is past its bound.
Signing, inclusion and every failure are unfair: nobody has to sign and the network
need not include anything.  *Dashboard*: requests are answered or fail, and
synchronous code goes on; no answer about milestones need ever arrive, no run need
ever be told anything.  *Stream*: time passes, timers fire, requests are answered;
how often an answer is lost is bounded.  *Ingestion*: synchronous code runs to its
end, GitHub answers or fails, a server that is down, also because it exited, is started
again (docker-compose.yml 4, `restart: unless-stopped`); the panel has no fairness at
all.

Why these bounds are enough.  Two milestones are what it takes for a bounty to be
partly settled; two issues and two tokens what it takes to confuse them (also for
proposals: the two issues of `governance` are interchangeable, which its symmetry
set uses, and sound because the run checks no liveness); three
disputes allow one reopened after another was decided while a third is open on
the other milestone.  A panel can be grown, replaced and emptied.  Three
proposals allow two rotations with a third proposal open across both, and a proposal
about each bounty with a rotation between them.
`MaxDisputes`, `MaxProposals` and `MaxMilestones` are the only bounds on
behaviour of the contract; `Wallet` is large enough for both bounties (except in the
runs that want a shortage).  Two tables stand for seven: what matters is a failure
before, between and after rebuilds.  In `readmodel` one transaction's events may be
pending when the next is made, which cuts every transaction at every event and lets
the index lag by more than one transaction.  Of its two lists of milestones one has a
total that a double holds (`MaxExact` is 4) and one a total that is rounded, so that
the row is released before the ledger is.  Words of 2 bits make amounts of 7, 9
and -9 need both words of an i128 and its sign.  Two flows are what can collide on a
sequence number, on a claim, a vote or an approval.  Two runs of the dashboard let
one's reload meet the other.  The limiter's 60 s and 120 requests and the stream's
1 to 30 s are scaled to 3 ticks, 3 requests and 1 to 3 ticks, which keeps the ends
of windows and of waits at the same instants.  `FetchLimit` is 2 for 500, so that
one more issue than fits is a third.

Related invariants are listed as one named conjunction, whose parts have names of
their own in the modules.  Of the type invariants only `EscrowTypeOK` is listed:
saturation makes it more than a matter of types.  The others are definitions of
their modules, hold in the same configurations, and are what the proofs start from.

Three more runs are expected to be violated.  Each compares a sentence of the
repository with what the code does:

| Run | Documented | What happens |
|---|---|---|
| `overdraft` | Reclaim refunds "the remaining escrow" (lib.rs 1303) | `remaining_escrow` is `amount - released_amount`; a milestone refunded by a dispute is not in `released_amount`, so a later Reclaim pays it again, from the escrow of other bounties; a bounty alone in the contract cannot be reclaimed |
| `stale` | no execution "with stale approvals after the set changed" (1125) | approvals of removed signers are counted |
| `catchup` | a database failure rolls back and the next attempt repeats the batch (indexer.ts 738) | the events are committed before the tables are rebuilt; after a fault in between the next attempt inserts nothing, rebuilds nothing, and moves the cursor on |

`AccountsExact` and `EscrowBalanced` describe the code as it is (the second
refund of `overdraft` included), so the balance of the escrow is explained to the
last unit.

## 4. Proofs

Every theorem holds for every value of the constants that the named assumptions of
the modules admit (`EscrowConstants`, `RegistryConstants`, `MaxProposalsIsNat`,
`IndexerConstants`, `DatasetAssumption`, `ScriptAssumption`, ...); TLC evaluates all
of them in the runs.  The strengthened invariants were checked by TLC before they were
proved.

### Sums: `SumTheorems`

The community modules define sums by a fold over a finite set, a function defined by
recursion on subsets.  Induction over data cannot be had from the library here (its
theorems take an operator as parameter), but it can be stated over a *set* instead: a
set of naturals with 0 and closed under successor holds every natural
(`NaturalInduction`), a family of finite sets with the empty set and closed under
adding an element holds every finite set (`SetInduction`).  From these: the fold exists
(`FoldExists`), it does not matter which element is taken first (`FoldsAgree`), a sum
gains or loses the summand of an added, removed or changed element (`SumUnfold`,
`SumAdd`, `SumChange`, `SumSplit`), and is bounded when its summands are (`SumAtMost`,
`SumBound`).

### The registry, in `EscrowProofs`

* `RegTypeCorrect`: the type invariant for every set of accounts, issues and writing
  contracts.
* `RegistryAlwaysConsistent`: `RegistryConsistent`.  A counter is the cardinality of a
  set of replay guards, and each write adds one guard that was not there.  The loops
  over reviewers add several guards of *different* accounts, so each account's set
  grows by at most one.
* `HistoryIsKept`: no write and no rotation removes a guard or lowers a total.

The lemmas are about what one write does to a registry value (`Recorded`,
`ReviewsRecorded`, `DisputeRecorded`), so that the escrow reuses them for writes that
happen inside its own transactions.

### The escrow: `EscrowProofs`

* `EscrowTypeCorrect`: the type invariant.  Its content is arithmetic: balances
  and refunds stay naturals and `released_amount` stays within an i128 because it
  saturates.
* `SettlementCorrect`: `SettlementInv`, the conjunction of
  `OpenDisputeHoldsMilestone`, `OneOpenDispute`, `ReleasedMeansAllSettled` and
  `PaidAreSettled`, is inductive together with the type invariant.
  `DisputesHold`, `DisputesAreSingle` and `ClosedWhenSettled` are its parts.
* `EscrowKeepsRegistryConsistent`, `EscrowKeepsHistory`: the registry's two theorems
  for the registry as the escrow uses it, with other contracts writing to it.
* `VotesAreBallots`: the vote counters of a dispute count its ballots.  A ballot is
  stored under the dispute's id, and no ballot refers to a dispute not yet opened.
* `AgreedTermsAreFinal`, `PartiesReceive`: action properties; each action has a lemma
  that says what it leaves alone and whose balances it raises.
* `QuorumIsReachable`: a panel with duplicates is refused, so its length, which bounds
  the quorum, is the number of those who can approve.
* `TotalIsSum`, `TotalInRange`: adding up the milestones with saturation at every step
  gives their sum up to the largest i128, which is never zero.
* `PaymentsAreCredited`: while the contract runs with a registry, every payment has its
  credit: release and the winning resolution write both in one transaction, and guards
  are never removed.

Why the conjunction of `SettlementInv`: a resolution settles its milestone; that no
*other* open dispute loses its milestone needs `OneOpenDispute`.  A bounty is closed
when all milestones are settled; that an open dispute keeps it open needs
`ReleasedMeansAllSettled`.  `PaidAreSettled` excludes a second payment and is what the
refinement of `Settlement` rests on.  Each action has one lemma for the type invariant
and one for `SettlementInv`; `SettlingKeepsInv` is the argument shared by everything
that settles milestones.

### The money, in `BountyContractProofs`

* `MoneyFollowsFate`: the escrow implements `Settlement`, for any bounties that share
  any tokens.  `Settlement` holds what is locked of each token and lets it go only in a
  step that changes the fate of the milestones it is for, by their worth.  What was paid
  never changes again, and what is disputed only by the resolution.  It does not say that
  money leaves once, because that is not so: `RefundRest` moves whatever was not *paid*,
  and turns what a dispute had refunded into "refunded twice" (the run `overdraft`).
  The refinement mapping reads the fate of a milestone off `settled`, `paid`, `refunded`
  and the disputes, and the funds off the token balances; each action has a lemma saying
  which `Settlement` step it is (`create_bounty` locks, `open_dispute` contests,
  `apply_release` pays, a resolution decides, both reclaims refund the rest) or that it
  changes neither.  That `remaining_escrow` is the total less the worth of what was paid
  is `AccountsExact`.
* `BooksAlwaysBalance`: every bounty's `released_amount` and refunds are exactly the
  sums of what was moved for it, and in every token the contract's balance is what was
  locked less what left, for any number of bounties, tokens, milestones and amounts,
  saturation and the second refund of `overdraft` included.
* `ReputationEarnedHere`: `ReputationIsEarned`, under the stated hypothesis that this
  contract is the only one allowed to write (`Caller = {ThisBounty}`), which is what
  the property is about and what the run `reviewed` instantiates.
* `TotalsCoverPayouts`: without that hypothesis, a registry that is configured credits
  every contributor with at least what each of their bounties has paid out.

The invariant `BooksInv` adds to `BooksBalance` what makes it inductive: the milestone
of a decided dispute is settled (so that it is refunded once), a reclaimed bounty is
closed (so that the reclaim is its last entry), the bounties are finitely many, and an
issue without a bounty has no entry in the books.  Everything that leaves the
escrow goes through one lemma (`LeavingBalanced`).  `EarnedInv` says where each
guard of the registry comes from (a payment, an approval of a paid milestone, a lost
dispute) and that each total is the saturated sum over an account's guards; saturating
at every step gives the same as saturating the sum because amounts are positive.

### The whole contract, in `BountyContractProofs`

* `GovernanceCorrect`: `GovernanceInv`, the governance's type invariant, that no
  proposal counts anybody twice (`ApprovalsAreDistinct`), and that the threshold is
  between 1 and the number of distinct signers (`SignersCanDecide`).  `revoke` takes
  an approval out with a loop; `WithoutParts` is proved about that loop by induction.
* `GovernanceOnlyRestricts`: the contract implements `Escrow`.  A proposal that executes
  is `execute_action` with an action that is proposable, which is where the type
  invariant of the stored proposals is needed; all other steps of governance stutter.
* `ContractKeepsEscrowSafe`: hence the escrow's theorems hold of the contract.
* `EverybodyCanDecide`, `DecidedForGood`, `SignersDecide`: `NobodyIsLockedOut`,
  `ProposalsDecideOnce`, `DecisionsNeedProposals`.  The last says of each payment, each
  refund of a claimed bounty, each change of a panel and of the signers that the same
  transaction executes the proposal that says just that (the issue, the milestone, the
  outcome of the dispute, the new members), and that each approval was given by a signer
  of its time.  It needs `ApprovalsAreDistinct`, for the code compares the length of a
  list with the threshold.  It does not say that those who approved are still signers
  when the proposal runs, which is not so (the run `stale`).

### The indexer: `IndexerProofs`

* `NoEventIsSkipped`, for any number of passes in any processes, any ledgers, page
  limit, failures and crashes.  The invariant is about prefixes: below the cursor,
  below every stored event, and below everything a pass has found and the cursor it is
  about to write, every event from the start ledger on is stored or among what the pass
  has found.  `NothingSkipped` itself is not inductive, because it says nothing of the
  passes under way.  A page is a prefix of what follows the cursor (`PageIsPrefix`, by
  the cardinalities that define it), ledgers do not decrease along the chain, and the
  chain grows only at its end.
* `TablesAreRebuilt`: `TablesFollowLog`.  Of the passes in one process at most one is
  past its await (`OwnProcess`), and while no fault has happened and the command line
  has not run, a table that is behind the log is one that this pass is still to write.
* `TablesOnlyGrow`: with the server alone no step takes a table back, faults included,
  because a pass writes what it loaded and the log cannot have shrunk.
* `IndexerTypes`: nothing that a pass holds or a table shows is beyond the chain, or
  beyond the log (`RangeInv`): a pass that is about to write the last ledger as its
  cursor has found something there.

### The read side: `ReadModelProofs`

The tables are compared with the ledger once they are caught up.  `CaughtUp` is a fold
of one function over a sequence, which the community modules define by recursion on
sets; that the fold over a concatenation is the fold of the folds (`FoldedConcat`) is
proved by induction over a set of lengths.  So a pass leaves `CaughtUp` as it is,
wherever it cuts (`IndexKeepsCaughtUp`), and a transaction continues it by what it
emits (`EmitExtendsCaughtUp`).  The invariants are each about one table or two, and each has one lemma per event.

* `IndexingOnlyReads`: every run of the read model is one of the contract.
* `EndpointsAgree`: `AnswersAgree`, from the registry's consistency and
  `TotalsCoverPayouts`.
* `DecisionsStayKnown`: `DecisionsAreKnown`.  `DecidedInv` says that reviews, disputes
  and panels are those of the ledger, `ProposalsInv` that each proposal has its row and
  each approval that stands is in it; that somebody approves again after revoking needs
  the guard against duplicates in the rebuild.
* `RowsFollowTheLedger`: `BountyRowsFollowTheLedger`.  `RowTells` says of one row what it
  knows of one bounty, given whether a dispute paid or decided one of its milestones.
  A row is released by comparing doubles.  That it is released when the bounty is needs
  the books (a bounty that closed by releases alone has released its amount,
  `AllClosedInFull`); that it is not released sooner, while doubles are exact, needs that
  the sum over fewer milestones is smaller (`ProperSum`).
* `SettlementsAreReadable`: `SettlementsAreReconstructible`.  `MilestonesInv` says that
  what was paid is what has a row or was decided for the contributor, and never both.
* `IndexNeverOverstates`: `ReputationIsNeverOverstated`.  `ReputationInv` compares the row
  of each account with its record in the registry: the guards the index knows are the
  union of the three sets of guards of the registry, one record counts for each, and no
  counter exceeds the registry's.  When an execution credits several reviewers the
  records are taken in one by one (`ReviewsTell`, by induction over the list), and two
  reviewers of one milestone are two accounts, so that neither hides the other.
* `AnswersOnlyLag`: `AnswersAreNeverAhead`, which is about the tables as they are between
  two passes.  Rows are only added and what they show is not taken back, so a table is
  never ahead of itself caught up (`Behind`, by induction over the events), and what
  that shows the invariants above bound.  The exception is a bounty that is shown as
  released: every release computes that flag anew, from doubles, so that it lasts is not
  a matter of the row alone.  `StagesInv` says therefore that no place where a page may end shows a bounty as
  released before it is: a transaction changes the bounties table by one event at most
  (`OneBounty`), so a cut within its events shows the table from before it or the one from
  after it (`OneBountyFold`), and for both of them it is `ExactlyClosed`.
* `ReadTypes`: no table, however late, has a row about a bounty, payment, panel, review,
  dispute or proposal that the ledger does not know.  As above, from `Behind`; that
  panels in the table are of listed bounties is `PanelsNamed`.

### The relay and the dashboard: `TxRelayProofs`

* `RelayKeepsItsPromise`: the relay implements `RelayPromise`, for any scripts,
  accounts and word sizes: what a client is told and what becomes of its transaction
  never change again, a confirmation is told only of what took effect, a refusal only
  of what never will.  The invariant ties the client's step to the server's, and the
  server's to the transaction: the server is over with nothing sent, or it polls what
  it sent; a refusal code is only ever given before the send, or after a failure on the
  ledger; whatever is `applied` is in `executed`.
* `ConfirmedTookEffect`: its consequence for the panels.
* `ExecutedMeansAsked`: `ExecutedAsAsked`.  `RequestInv` says of each flow that its
  request is still the one it started with, and of every transaction that its call is
  the encoding of that request.  The rest is about operators: a builder's fields are
  the parameters that the entry point has at their positions (`FieldsAreParameters`),
  two words of any size give an amount back with its sign, if it has an encoding
  (`WordsSayTheAmount`), so each parameter that is read is the field that was filled in
  (`ArgumentSaysTheField`), and the call says what was asked (`CallSaysWhatWasAsked`).
* `VerifiedViewsAreCurrent`: `VerifiedViewsKeepUp`, for the dashboard on `RelayPromise`
  instead of the relay: by `RelayKeepsItsPromise` no more is needed.  Every answer to a
  load knows the transactions that were confirmed when it was asked for; `DashInv`
  keeps this of the answers under way, of what is shown, and of the runs that wait for
  the reload they caused.
* `RelayTypes`: every call on the ledger, even one that was not sent by the relay, has as
  many arguments as its entry point has parameters, and naturals for indices, ids and
  counts.
* `DashboardTypes`: the page is never loading with nothing under way, has panels only
  while it is ready, and asks and answers only about listed bounties; loads are no more
  than the opening, the clicks and the runs that are over.  That a page with no bounties
  selects none is the guard of `Loaded` that this needs.

### Regulations: `RegulationsProofs`

* `HistoryTellsTheChange` and `HistoryIsAppendOnly`, for any policies, files, jobs,
  kills and failed writes.  The invariant says what a job that is about to write has in
  hand: the version it saw is there, its difference is the one between that version and
  its record, and it is not empty.  This stays true while other jobs write, because
  rows are never replaced; `ON CONFLICT DO NOTHING` then makes the late writer's row
  vanish instead of lying.
* `EveryChangeIsAlerted`: `EveryRevisionIsAlerted`, while nothing was killed and no write
  failed.  Not inductive alone, since revision and alert commit separately: `AlertsInv`
  adds that each later revision has its alert *or* a job that is about to raise it
  (`AllRaised`), and that such a job still has the rows it will describe.  That an
  alert is as loud as the severity rose is `ClassTellsTheRise`, about classification.
* `UndisturbedJobsConverge`: `JobsConverge`.  As long as nobody else wrote, the latest
  revision of each policy that the job has been through is the one it noted, and says
  what the last record of that policy so far says (`Settled`); between a revision and
  its alert the policy at hand is excepted (`AloneOK`).  A file may list a policy twice:
  the later record takes over.  That one of them is the last needs the greatest element
  of a finite set (`GreatestIs`, by well-founded induction).
* `PanelShowsWhatIsStored`: `ShownIsStored`, for answers that come late, in any order
  or not at all.  `PanelInv` says the same of every answer under way (`FlowOK`); it
  lasts because stored rows never change and acknowledgement is not taken back.
* `PanelDisturbsNothing`: the theorems about ingestion above, with the panel's
  acknowledgements in it.
* `IngestionTypes`: every alert and every current policy names a revision that is stored,
  however jobs are cut short and overlap, and no job runs past its file.  For that a job
  that is about to raise an alert has its revision stored, and what a job noted as
  written is (`ReferencesInv`).  An issue is one from GitHub just if it is none of the
  seed's (`IssuesInv`).

### The limiter and the stream: `EventStreamProofs`

* `LimitHolds`: `RequestsAreLimited`.  The code counts in windows, the property in the
  ages of requests.  `LimiterInv` says what the sums over the ages are at both ends of
  a window: what a live window has counted is what was admitted since it began, and no
  more than the limit is left of what came before; without one, everything together is
  not more than the limit.  A tick shifts the ages (`SumShifted`, by induction).
* `WhoWaitedIsAdmitted`: `WaitingHelps`.  The wait that was named covers what is left
  of the window (`WaitInv`), because rounding is upwards (`RoundedUp`).
* `ReconnectingIsFree`: `ReconnectsAreAdmitted`, under the hypothesis `StreamsFit`: the
  clients of an address times the requests that one can make in a window, one per first
  wait, are no more than the limit.  With the defaults (60 s, 120 requests, waits from
  1 s) that is two tabs; the run has it with equality.  The invariant bounds what each client
  can have asked since the window began by the time that passed and the wait it is in
  (`CanHaveAsked`), and the window's count by the sum over the clients (`OnlyTheirs`).
* `StreamTypes`: the type invariant.

### Assumed, and only model-checked

Assumed, besides what the constants are: a list of milestones is not empty and none of
its amounts is zero, which `create_bounty` checks; doubles are exact up to a largest
integer and never reverse an order (`NumberAssumption`); a file of regulations is a sequence of records whose ids are policies;
the requests that panels and the SDK make are sensible (`ScriptAssumption`: naturals
within what the server cuts them to, flags 0 or 1, the fields of their action, an amount that is an integer), which the
forms and types in front of them ensure; a power of 2 is a positive natural
(`WordAssumption`: the provers do not know exponents); the ids of `data/seed-issues.json` are no numbers of
issues (`IngestionAssumption`).

Only model-checked: liveness, which is out of the prover's reach (`EveryEventIndexed`,
`SubmissionsAreSettled`, `DashboardComesBack`, `NewsArrives`, `TablesFill`).  Every invariant
and every action property of the passing runs is a theorem.

## 5. Other disagreements with what the repository says

Met while modelling, stated in the modules under "What the documentation says and
the code does not do", and not among the runs:

* `ResolutionBackedByReviewers` (`Escrow`; `MCEscrow_panel.cfg` refutes it): votes of
  replaced reviewers count against the quorum of the new panel, where lib.rs 1338
  says a resolution is backed by the reviewer quorum.
* `NoApprovedProposalWaits` (`BountyContract`; `MCBountyContract_waiting.cfg`): a
  proposal executes "as soon as the threshold is reached" (546), but lowering the
  threshold executes nothing, and those who approved cannot approve again.
* `ChangeIsShownForwards` (`HistoryPanel`; `MCHistoryPanel_forwards.cfg`): the panel
  takes the last two of a list that is newest first, so that "Latest change"
  (RegulationHistoryPanel.tsx 168) is the oldest one, with Before and After swapped.
* `BuildersAreUnderstood` (`TxRelay`): the builders of `src/src/lib/api.ts` name
  fields that the server does not read, which docs/API.md 417 does not suggest.  No
  panel uses them.
* `VerifiedAnswersMatchTheLedger` (`ReadModel`): superseded reviewers and their quorum
  are in the answer that is marked as verified (api.ts 6-10).
* `ActionsAreForWhatIsShown` (`Dashboard`): while another bounty loads, the buttons
  beside the milestones of one act on the other.
* `EscalationsAreCritical` (`Ingestion`; `MCHistoryPanel_critical.cfg`): "a severity
  escalation is critical" (regulations.ts 10-11), but by one level it is a warning
  (138-139), as docs/DATA.md 59 has it.
* `ServerListens` (`Ingestion`; `MCHistoryPanel_listen.cfg`): the server ingests, starts
  the indexer and then listens (server.ts 2-3), but with a contract configured and the
  indexer enabled `startIndexer` throws, because indexer.ts does not import the
  `recordAudit` that it calls (796), and the process exits.  The "periodic indexer loop"
  (791) never starts.
* An answer of GitHub without a fetchable issue counts as a success, so that the issues
  table stays empty and the seed is not taken (ingest/issues.ts 141-146): `TablesFill`
  has to except it.
* "Transaction confirmed" (BountyForm.tsx 232, components.test.tsx 326) is set in a
  panel that the reload it causes takes away.
* A submission "kicks an immediate indexer pass so the dashboard reflects the change"
  (api.ts 913); nothing awaits it, and the dashboard reloads at once.

## 6. Not modelled

* `jurisdictions.ts`, `analytics.ts`, `horizon.ts` and the routes that return rows as
  they are: read-only queries and grouping.
* Storage schema, configuration, logging, metrics, the audit log: I/O with no protocol
  of their own.  That an audit record may throw is a choice where it is called.
* Presentation (`src/src/components` other than the state of the panels named above),
  the SDK's typed reads, wallets other than as somebody who may sign.
* Of the contracts: TTL, signature checks, getters.  Of the relay: fees, and an RPC
  that accepts a request and neither answers nor fails.
* Connection of a live bus to a stream (`eventsBus$`, `wireSseBridge`): in this build it
  never happens.

Known and not among the hazards of `PROJECT.json`, because they need no particular
order of events or another hazard there has the same cause: issues that are closed
on GitHub stay open in their table, and one issue that is not valid discards all
the issues of an answer (ingest/issues.ts 107, 131; both in `Ingestion`); the
milestone panel keeps its form over a change of bounty (MilestonePanel.tsx 175,
338); a closed event source connects once more (lib/api.ts 437, described in
section 2); a ledger without events is logged as a gap (indexer.ts 77); a bounty of
more than 2^53 units can be shown as released before it is, because the index compares
doubles (indexer.ts 230, in `ReadModel`); the total of a milestone list saturates at the largest i128 (lib.rs 678); a panel that votes
half and half leaves the dispute open until the signers change the panel (lib.rs
1363).

## 7. Plan

Done: the contract, the registry, the indexer, the read model, the relay, the
dashboard, ingestion and the stream, with the proofs of section 4: every property of
the passing runs that is not about liveness is a theorem.

Left: what section 6 lists, first of all the read-only routes (`analytics.ts`,
`jurisdictions.ts`), whose grouping could be stated over the tables of `ReadModel`.
