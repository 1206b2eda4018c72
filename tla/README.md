# PoolPass in TLA+

PoolPass lets an issuer accredit investors privately: a Merkle root of
accreditation leaves is kept on chain, an investor proves membership and a cap
in zero knowledge, and one contract call checks the proof, burns a nullifier,
takes mock USDC and mints pool shares. This directory holds a formal model of
that system, the TLC configurations that check it on small instances, and
proofs, checked by TLAPS, of theorems that hold for every value of the
constants. Paths below are relative to the repository root.

## The system

| Component | State | Operations | What is hard |
|---|---|---|---|
| PoolPass contract, `contracts/poolpass` | issuer, depth, root, epoch, total, nullifiers, commitments | `initialize`, `update_accredited_set`, `advance_epoch`, `subscribe` | nullifier written before two cross-contract calls that may fail; field elements read as u64/u32; words of 32 bytes read as field elements here and compared as bytes there; proofs outliving a root or an epoch |
| Token, `contracts/mock-token` (USDC and shares) | admin, balances | `mint`, `transfer`, `set_admin` | overflow limits, self transfer, admin handover |
| Circuit, `circuits/poolpass.circom` | none | membership, cap, nullifier | comparator without range checks |
| Issuer API, `services/api` | accreditation file, per-service queue, faucet claims | `POST /accredit`, `/faucet`, `/prove`, `/verify`, reads | awaits between file, network and file; transactions that outlive their poll; crashes; several services over one file |
| Indexer, `services/indexer` | cursor and events in one file | `runOnce` | page limit, retention window, concurrent runs |
| Investor's pages, `web/components`, `web/lib` | dialog, proof console and its worker, wallet, cached queries | connect, accredit, import, prove, subscribe, verify | answers that arrive late or after an edit, poll timeout and resubmission, account changed under way |
| Issuer's page, `web/app/issuer` | rows, tree, committed epoch, cached pool | CSV, commit, advance, download | a commit answered after the CSV changed or another roster came |
| Events view, `web/lib/events-live.ts`, `web/app/api/events` | copy of the indexer's file, query cache | fetch, merge, optimistic rows | copy, page and window must fit together; answers from nodes that lag |
| Merkle code, `src/merkle`, `web/lib/zk/merkle.ts`, `merkle-tools` | none | build, path, verify | three implementations that must agree with circuit and contract |
| Encodings, `src/serialization`, `web/lib/zk/serialize.ts`, `groth16.rs` | none | proofs, keys, public signals, amounts | offsets, halves of G2 points, decimal digits |
| Deployment, `scripts` | registry file, key store | resumable deployment steps, trials | crash between transaction and registry, transactions that settle after their script died |

They interact as follows. The API signs `update_accredited_set` with the
issuer's key, after reading the accreditation file and before rewriting it; the
issuer's console in the browser sends the same call and `advance_epoch` from
the same account. The browser proves against the root and epoch in its package
and calls `subscribe`, which calls `transfer` on the USDC token and `mint` on
the share token. The indexer polls the contract's events into a file which the
API and the web app merge with live results.

What makes each component right: the contract settles each nullifier word at
most once, and each secret at most once in an epoch where the host takes
canonical words only, within the cap of a leaf in the root of that epoch, all
or nothing, and its total, its events and its escrow agree; the token keeps balances within
range; the accreditation service never loses a leaf it acknowledged, answers
with roots and epochs that were really committed, and answers at all; the
indexer misses no event and repeats none but for what its page and its window
leave out; in the browser a proof that finishes late is for the amount on the
form, and an edit of the amount never leaves one at hand. (A package that is
loaded, or the dialog reopened, can: the contract then refuses the
submission.) `PROJECT.json` lists every component
and every hazard with its line.

## Modules

| Module | What it is |
|---|---|
| `TokenOps` | when a token call succeeds and what balances it leaves (`contracts/mock-token/src/lib.rs`) |
| `SubscriptionLedger` | abstract specification: roster, epoch, settled subscriptions, total, escrow |
| `PoolPass` | the contract with its two tokens and the circuit's predicate; implements `SubscriptionLedger` |
| `Accreditation` | `POST /accredit`: services, queue, file, contract writer, issuer account, issuer console |
| `Faucet` | `POST /faucet`: claims, cooldown, release, restart, and its mint on the network |
| `Indexer` | the indexer command: cursor, clamp, page, merge, file, against the chain's events |
| `EventsView` | extends `Indexer`: the web app's copy of its file, the events route, the API's reads, the query cache |
| `MerkleTree` | build, path and climb at the circuit's depth, in the scripts, the browser, the tools, the circuit and the contract |
| `ContractCalls` | extends `MerkleTree`: contract calls from a browser, and the network that applies them or not |
| `IssuerConsole`, `SubscribeModal` (over `Wallet`), `VerifyPage` | the three pages, each over `ContractCalls` |
| `InvestorFlow` | composes the three pages over one chain |
| `Deployment` | the five scripts over one registry and one network |
| `Encoding`, `Errors` | serialized proofs, keys, signals and amounts; what the text of an error is taken for (no state) |
| `MC...` | small constants for TLC, one module per specification that is run |
| `PoolPassProofs`, `PoolPassRosterProofs` | theorems about `PoolPass`: its accounts; its rosters, its action properties and the refinement |
| `AccreditationProofs`, `FaucetProofs` | theorems about these services |
| `EventsViewProofs` | theorems about `Indexer` and `EventsView` |
| `InvestorFlowProofs` | theorems about `MerkleTree`, and about the pages that `InvestorFlow` composes |
| `DeploymentProofs` | theorems about `Deployment` |
| `EncodingProofs` | theorems about `Encoding` and `Errors` |

### PoolPass

`ledger` is one record with what the chain holds: the contract's storage keys
(`DataKey`), both balance maps, the share token's admin, and three histories
used by the properties only (`events`, the `Subscribed` events; `rootOf`, the
root of each epoch; `gifts` and `loose`, what entered escrow or share supply
other than through `subscribe`). `call` is the running `subscribe`, with the
ledger as it was when it began.

| Action | Code |
|---|---|
| `Initialize` | `lib.rs` `initialize` |
| `UpdateAccreditedSet`, `AdvanceEpoch` | the entry points of those names |
| `SubscribeEnter` | `subscribe` up to `mark_commitment`; the checks and their order are `SubscribeError`, in which a nullifier word that the host does not take is a trap |
| `SubscribeTransfer`, `SubscribeMint`, `SubscribeTally` | the rest of `subscribe`, one step per contract call |
| `SubscribeFails` | its three later error returns: the host drops every write |
| `HostAborts` | an invocation stopped by its resource limits at any step |
| `UsdcMint`, `UsdcTransfer`, `ShareMint`, `ShareTransfer`, `ShareSetAdmin` | calls on the tokens that come from the faucet, holders and the deployer |

An invocation is serial on the network, so other actions wait while `call` is
running; the steps exist so that the failure between them is a behaviour of the
model. Properties read `Committed`, the ledger other transactions can see.

Abstractions: Poseidon is collision free, so a root is the vector of its leaves
and a nullifier the pair of secret and epoch; a proof exists exactly for the
statements the circuit accepts; a leaf is a secret with a cap; entry lifetimes (`extend_ttl`) are not modelled,
the network restores an archived entry before a call can use it.
`WithinCap` is the comparator as circomlib computes it, in the field and
without range checks, so the model contains the field elements that wrap
around it, and `AmountMatches` the width check that stops them.

A public input is a word of 32 bytes. `groth16.rs:49` and
`poseidon.rs:25` read a word as a field element; `lib.rs:118-121` stores and
looks up the bytes. A field element has more than one word, because the order
is less than 2^256, so the two are kept apart for the nullifier: `Words` pairs
an element with a multiple of the order (`wraps`), the circuit and the
commitment see the element, `NullifierFresh` the word. No line of the contract
compares a word with the order (`docs/serialization.md:9` gives that to what
comes before the invocation, and `be32` does it for the clients), and how the
host's field functions treat such a word is not in this repository. It is a
constant, `AdmittedWraps`: the multiples with which the host takes a word
(`HostTakes`); any other word ends the invocation. For the other inputs the
difference does not matter: the root must equal the stored word, which is an
output of Poseidon, and `signal_u64` and `signal_u32` refuse bytes above their
integer.

### Accreditation

`chain` is the issuer account's sequence number with the roster of every epoch,
`pending` the signed transactions the network may still apply, `file` the
accreditation file, `queue` and `job` each service's promise chain and running
`addSerialized`, `client` the requests with their answers. A job goes through
`account`, `send`, `poll`, `info`, `save`, `reply`, one await each. `Fail` is a
rejection at any await, the poll that gives up included; `Crash` loses queues
and jobs and keeps file, chain and pending transactions. A transaction applies
only with the account's next sequence number, which is what protects the roster
from transactions the writer gave up on.

The store is one JSON file renamed into place, so `Save` is one step. The
comparison of roots in `addSerialized` cannot fail, because contract and
service compute the root of the same leaves, and is left out.

### Faucet

`claims` is the `faucetClaims` map, `requests` every well-formed request with
the step its mint is at, `network` the mints that were sent. `Accept` and
`Refuse` are the synchronous part of the handler; `Sign`, `Send` and `Grant`
are the contract writer's awaits, `Fail` a rejection at any of them with the
catch block, `Apply` and `Expire` the network, `Tick` the clock and `Crash` a
restart, which forgets the claims. A rejected `sendTransaction` may have
reached the network, and a sent mint applies or not whatever its poll saw.

### Indexer

`log` is the chain as a sequence of ledgers, each a sequence of events with
their success flag; `store` the file; `run` the step of the running command.
`RunOnce`, `GetLatest`, `GetEvents`, `LoadAgain` and `Rename` follow `runOnce`,
`fetchPage` and `EventStore.merge` await by await, `Die` is a failed request or
a killed process at any of them. `Seen` lets each request be answered by a node
that lags. `passedOver` remembers, for the properties, what a command asked for
and was not given. Event ids are unique, so the map by id and the sort make a
set of the stored events.

### EventsView

`snapshot` is the copy of the indexer's file that a build makes
(`sync-config.mjs`), `query` the request under way, `cache` the browser's
query. `Fetch`, `RouteEvents` and `RouteFails` are `GET /api/events` with its
fallback to the copy; `ApiReads`, `ApiEvents` and `ApiFallsBack` what the API
does for `GET /pools`; `ShowOptimistic` puts a row into the cache after a
subscription, `Receive` merges an answer (`mergeOptimisticEvents`), `GiveUp`
is a request that fails or is cancelled. The node that answers the second
request of a route may be behind the one that answered the first. `missed`
remembers, for the property only, what a page was too short for or a window too
narrow. The list and the verify page share a query key, and only the list's
query merges.

### MerkleTree

`Up`, `Levels` and `Root` build a tree of eight leaves, `PathFor` cuts a path and
`Climb`, `VerifyPath` walk it, with levels and siblings where the code has
loops; `BuildsTree` and `BuildsTreeInBrowser` are what the two `buildTree`
accept, and `GeneratedPath` is the tool `generate_path.js`. A hash stands for
what it was computed from.

### The web app: ContractCalls, IssuerConsole, SubscribeModal, Wallet, VerifyPage, InvestorFlow

`ContractCalls` is `invoke` of `web/lib/stellar/client.ts`: `GetAccount`,
`Simulate`, `Sign`, `Send`, a bounded number of `PollOn`, then `Returns`,
`Throws`, or a rejection at any await. `chain` holds rosters by epoch, spent
nullifiers, sequence numbers and transactions; `Land` applies one, as a success
or a failure, as long as its number is the account's next. Of the contract it
keeps what admits a call and what the call leaves; `PoolPass` has the rest.

| Module | State | Actions |
|---|---|---|
| `IssuerConsole` | `console`: rows, committed epoch, cached epoch; `files`: packages | `ParseCsv`, `OnCommit`, `CommitReturns`, `CommitThrows`, `CommitRefetched`, `PoolRefetched`, `OnAdvance`, `DownloadPackage` |
| `SubscribeModal` | `modal`: tab, package, amount, proof, result, files being read; `prover`: the console with its worker; `accreditation`: the file and requests | `OpenModal`, `CloseModal`, `Reset`, `SelectTab`, `EnterAmount`, `RequestAccreditation`, `AccreditationCommitted`, `OnAccredited`, `PastePackage`, `ChooseFile`, `FileArrives`, `FileFails`, `RunInBrowser`, `Generate`, `RunFallback`, `ProofArrives`, `ProofFails`, `OnSubmit`, `SubmitReturns`, `SubmitThrows` |
| `Wallet` | `wallet`: address and questions under way; `extension`: selected account | `PageAsks`, `Connect`, `ExtensionAnswers`, `SetAddress`, `AskingFails`, `Disconnect`, `SelectAccount`, `SignXdr` |
| `VerifyPage` | `page`: key, subscription found, proofs, checks, verdicts | `OpenPage`, `EventsArrive`, `TxProofArrives`, `RunCheck`, `VerdictArrives`, `CheckFails` |

React state that depends on what is mounted is written once: `Becomes` gives
the dialog its next state, and `ProverAfter` and `AccreditationAfter` drop the
console (key: the amount) and the panel when they leave the page. Two handlers
wait before they act, and are two steps: a proof in the browser assembles its
inputs (`RunInBrowser`) before the console is busy (`Generate`), so that more
than one may be started; and the text of a file is read (`ChooseFile`) before
its package is loaded (`FileArrives`), on whatever tab the investor is by then.
`InvestorFlow` composes the pages with the network and the accreditation service. The verify
page keeps a verdict with the transaction it is about because the query that
holds the arguments has the transaction's hash as its key.

### Deployment

A script is a list of steps (`DeployScript`, `MarketScript`, `E2EScript`,
`SmokeScript`, `SetupScript`). A step is looked at (`PassOver` when it is not
needed, `Fail` when a check throws), sent (`Decide`), settled (`Settle`), its
evidence written (`Record`) and then the contract (`Write`). `Interrupt` ends a
run anywhere, and the transaction it was sending may settle later
(`LateSettles`), also in the middle of another run. `Generate` makes an account
whose funding may fail, `Rebuild` changes the sources between runs, so that the
registered hashes do not fit. `IndexerStartLedger` is what
`services/indexer/deployments.ts` makes of the registry.

The deployments start from a blank machine or from accounts that are funded; an
account the friendbot funds late is not modelled. `scripts/deploy.ts:47` takes the next
transaction of an account for its own, which may be a late one: runs that a
late transaction came into are excused from `PassedDeploymentWorks`.

### Encoding and Errors

These have operators only, and theorems instead of runs. A word of 32 bytes is
the number in it; the serializers of the scripts and of the browser write the
same words, `KeyRead`, `ProofRead` and `LengthsFit` are the contract's reader,
`DeserializeProof` the browser's. Amounts are a whole part and seven digits;
`FormatBaseUnits` is the form's default, `FormatMockUsdc` what the pages show,
with commas, which `onImport` takes out again (`TypedIn`). In `Errors` a text is
the sequence of marks the patterns of `errors.ts` and of `e2e.ts` look for.

## Runs

| Run | Constants | What it shows |
|---|---|---|
| `pool` | 2 investors (symmetric), 2 secrets, rosters of 2 and 4 leaves, circuit depth 1, field order 11, u64 max 3, u32 max 2, i128 max 3, three words for a nullifier, of which the host takes two | accounts, marks, caps, replay by word, roll back, refinement |
| `accreditation` | 1 service, 3 leaves, capacity 2, 3 requests, 1 console transaction, 1 crash | acknowledged leaves, replies, file, liveness |
| `two_services_epoch` | 2 services, 2 requests | finding, see below |
| `two_services_file` | 2 services, 2 requests | finding, see below |
| `stale_path` | 1 service, 3 requests | finding, see below |
| `faucet` | 2 addresses (symmetric), 3 requests, cooldown 2, time 0..4, 1 crash | one mint under way per cooldown, refusals have a reason |
| `faucet_cap` | 2 addresses, 2 requests, no crash | finding, see below |
| `indexer` | 1 command, 5 ledgers of at most 2 events, page 2, window 2, lag 1 | nothing lost but by page or clamp, nothing removed |
| `indexer_page` | as `indexer`, window 5 | finding, see below |
| `events` | 4 ledgers, page 1, window 2, lag 1, 1 row, 1 build | answers are complete, rows last until indexed, and are indexed |
| `investor_flow` | 4 identities, 2 accounts, 3 epochs, 1 poll, eight budgets | no second payment, proofs fit the form, packages prove, verdicts are on what was paid, submissions end |
| `deploy` | 1 marketplace pool, 4 runs, 2 interruptions, 1 rebuild, 5 contracts | what is published works, what is orphaned, when a rerun fails |

Bounds of `pool`. Two secrets and two investors let either investor use either
secret, so a nullifier is retried by the same and by another caller; three
epochs let a secret settle twice legitimately and reach the last epoch;
balances up to 3 make every overflow check fire within a few calls; the field
of order 11 is the smallest prime one with room for the comparator's extra bit
over u64 = 0..3, and the inputs hold one amount just too wide and the field
element -1. Depth 2 is a pool the circuit does not fit. Of one nullifier, that
of the first secret in epoch 1, the inputs hold two more words, with the amount 1
and a full roster: one the host takes, which meets the canonical word, retries
and failures before and after, and one it does not.

Bounds of `accreditation`. Three requests are one whose transaction is given
up, one that overtakes it and one that finds the result: with the console and
the crash they meet every pair of steps that share file or account. Capacity 2
is reached by two of them. Terminal states are the ends of those bounds, and a
pool or an API without requests is at rest, so deadlock is not checked; the same
holds of every other run.

Bounds of `faucet`. Time covers two cooldowns and both of their edges; three
requests are one that fails late, the one that replaces it and the one that
must then be refused or accepted.

Bounds of `indexer`. Pages of 2 are overfull with two ledgers, a window of 2 is
left behind by three, and five ledgers hold four commands one after the other;
ledger 1 is before the first deployment. `indexer_page` takes the window out, so
that only the page can lose an event.

Bounds of `events`. A page of 1 is overfull with one ledger, and four ledgers
leave the window behind; one build lets the copy be older than the file and
newer. Two more bounds are on the schedule: the API reads the file only before
the last build, and the browser has one request under way at a time (the query
client sees to that for one query, not for several).

Bounds of `investor_flow`. Clicks are what grows without bound, so each
behaviour draws one of eight budgets of them (`MCInvestorFlow`): an investor who
submits twice after a failure (`Retrying`), one who changes package and amount
(`Changing`), one with the issuer's package (`HandedOver`), an issuer with two
commits and an advance (`BusyIssuer`), one the service overtakes
(`OvertakenIssuer`), an investor accredited twice (`Accrediting`), one who
changes accounts under way (`Switching`) and one whose subscriptions are
verified (`Verifying`). One poll stands for thirty: what matters is that polling
ends before or after the transaction is applied. Three epochs are the first,
one the proof is made for and one that makes it stale. The network's steps have
no budget. Budgets that give the issuer and the investor everything at once are
out of reach of TLC.

Bounds of `deploy`. Four runs are two that are interrupted, one that repairs and
one that uses the result, in any order of the five scripts; five contracts are
those of one full deployment with two orphans, or of a deployment after a
rebuild. One marketplace pool stands for three: they take the same steps one
after the other and share only the mock USDC.

Properties with their meaning are commented in the modules; `PROJECT.json`
names for each a mutation of the code's definition that TLC finds with it.

## Fairness

- `accreditation`: weak fairness of each service's next step. Each await
  settles (an answer or a network error), the poll loop ends after 40 attempts,
  and the queue continues after a rejection (`accreditation.ts:28`). Nothing is
  assumed of the network or the console, and `Crash` is never forced.
- `investor_flow`: weak fairness of the answer to a sent transaction and of the
  polls: an HTTP request ends in an answer or an error, and the loop counts its
  polls. The wallet may never answer, and the transaction may never be applied: a
  submission ends all the same once it was signed.
- `events`: ledgers close and requests end (weak fairness), and infinitely many
  of the list's polls are answered by nodes that are up to date (strong
  fairness: in between, answers may fail or come from nodes that lag).
  `OptimisticIsReplaced` promises something only for events that stay within
  a page of the copy and of the tip.

## Findings

- `two_services_epoch`, `two_services_file`: the API makes one
  `AccreditationService` for requests without `poolId` and one per pool
  (`services/api/server.ts:28-33`); for the first pool both have the same file
  and signer (`services/api/config.ts:222-232`) and separate queues. Concurrent
  requests through both lose an acknowledged leaf, or pair a root with an epoch
  that had another, which the backend design says cannot happen
  (`docs/superpowers/specs/2026-06-23-poolpass-backend-design.md:42`).
  Sharing one service per file removes the first. With one service only the
  issuer's own console can still come between commit and epoch
  (`ReplyFollowsOwnCommit`).
- `stale_path`: `web/lib/errors.ts:16` advises a fresh Merkle path after
  `RootMismatch`; `/accredit` refuses a known leaf, and no endpoint returns a
  path for it.
- `faucet_cap`: the faucet gives the claim of a rejected mint back
  (`services/api/server.ts:78-81`), but the writer also rejects when a read
  fails after the transaction was sent (`services/api/stellar.ts:87`). The mint
  applies, the retry's mint applies, and the address has more than the cap of
  `FRONTEND_INTEGRATION.md:136` within one window.
- `indexer_page`: one page of 100 events is read (`services/indexer/cli.ts:41`)
  and the cursor moves to the latest ledger: the rest of the events is never
  fetched, although "the indexer keeps successful contract calls"
  (`FRONTEND_INTEGRATION.md:97`).

What the passing runs had to allow for, and nothing documents otherwise:

- A nullifier word at or above the field order. `pool` takes a host that
  accepts two words of a nullifier. `OneSettlementPerNullifier` and
  `ImplementsPromise` therefore speak of words: in an epoch a secret settles at
  most once under each word the host takes. That it settles once, which is what
  the replay check is for, holds when the host refuses all but canonical words
  (theorem `OnceInAnEpoch`), and TLC finds it violated with the constants of
  `pool`. Whether the deployed host refuses such words cannot be told from the
  repository. A comparison of the nullifier with the order in `subscribe` would
  make it hold of the contract alone.
- With `Processes = {1, 2}` the indexer also loses events when two commands
  overlap between the second load and the rename (`services/indexer/store.ts:25-32`).
  The command is documented as a single operation started by hand.
- A package that is imported while a proof is at hand keeps the proof
  (`web/components/invest/subscribe-modal.tsx:98`, where an edit of the amount drops it, `:295`):
  `StaleOnlyByPackage` permits that, and reopening the dialog, and nothing
  else. The contract refuses such a proof. `ProofArrivesForItsAmount` is about
  the amount too: a proof of the package before may arrive after another one was
  loaded with the same amount.
- `FailsOnlyWhenStuck` names the states in which a script fails for good: it
  permits them (an account that is not funded, the mock USDC registered and not
  initialized, a token of another pool, evidence that cannot be found, a leaf
  filed by a lost trial) and catches a step that is skipped or repeated
  otherwise. `PassedDeploymentWorks` does not see which hash is recorded.
- `CommittedEpochIsOfTheTree` exempts commits that another CSV, another roster
  or a failed refetch came after, `KeptUnlessPassedOver` what the clamp and a
  full page leave out, and `RowStaysUntilIndexed` the verify page's query.
- A request for accreditation whose answer is lost is refused when it is
  repeated; no property promises its owner the path.
- A package downloaded before anything was committed carries the cached pool's
  epoch, or 1 (`web/app/issuer/page.tsx:140`).
- The verify page's query forgets optimistic rows (`web/app/verify/[txOrCommitment]/page.tsx:38`).
- A second trial of a pool fails on its own leaf when the first one died before
  its evidence was written (`scripts/self-serve-smoke.ts:66`), and after a redeployment
  the trial of the former pool still counts as recorded.
- An `e2e.ts` that was interrupted after its transactions were sent cannot find
  its evidence again (`scripts/e2e.ts:185`); a key that was generated but not funded is
  never funded (`src/stellar/identities.ts:53`).
- `scripts/deploy-marketplace.ts:421-427` cannot fail: the error for an over-cap proof
  that succeeds is thrown inside the `try` whose `catch` reports the rejection.
- The scripts' `buildTree` refuses a repeated `investor_id` and the browser's
  does not; the issuer page builds from leaves and checks neither.
- Amounts from a thousand on are shown with commas, which the form refuses when
  they are copied into it (`AmountsSurvive`).

## Proofs

Eight modules of proofs. They hold for any numbers of investors, addresses,
requests, ledgers and so on, and any inputs that satisfy the assumptions named
in the modules; TLC's bounds are constants of the specifications, and the
theorems are about every value of them.

`PoolPass`, under `AddressAssumption` (addresses are distinct),
`InputAssumption` (inputs are well formed), `WordAssumption` (the host takes
canonical words, and perhaps others), `WidthAssumption` (the field is
larger than twice the u64 range) and `I128MaxAssumption`, which hold of the real
constants:

- `TypeCorrect`: `TypeOK`. Balances and the epoch stay within their integers
  because every addition is guarded.
- `SettlementCorrect`: the inductive invariant `SettlementInv`. The properties
  speak of the committed ledger only, and are not inductive: in the middle of a
  call the nullifier is stored and the payment moved before the event exists.
  `SettlementInv` states the accounts of the saved ledger and, by `InFlight`,
  exactly how the running ledger differs from it at each step.
- `NoDoubleSettlement`, `MarksFollowPayment`, `EscrowHoldsTotal`, `TallyIsSafe`
  follow from it. `NoDoubleSettlement` is about words, for every
  `AdmittedWraps`. The last one needs `EscrowHoldsTotal`: the pool's balance,
  which has its own overflow check, bounds the total from above.
- `SharesAreBacked`: `SharesBacked`, from `SharesInFlight`, which says at which
  step of `subscribe` the shares of the running call exist already. The property
  sums over a map, for any finite set of holders: the library's fold takes its
  elements in an order of its own, and that the sum moves with one balance is shown
  on a smallest set for which it would not (`SmallestSubset`, from `WFMin`).
- `ComparatorIsSound`, `ComparatorIsComplete`: for amounts (caps) that fit u64
  the comparison in the field is the comparison of integers. With
  `AmountMatches` this is why the missing range check does no harm.
- `OnceInAnEpoch`: `OneSettlementPerSecret`, under the further assumption
  `AdmittedWraps = {0}`. `SettlementInv` carries that settled words are words
  the host takes (`SettledWordsAdmitted`); where there is one for an element,
  two settlements of a secret in an epoch would be of one word. Without the
  assumption the theorem is false, as TLC shows.
- `CapsAreKept`: `SettledWithinCap`, from the inductive invariant `RosterInv`.
  The property looks up the root of a past epoch, so the invariant says that
  the history of roots ends with the stored one and that settled epochs lie
  within it; and it carries the leaf found on entry to `subscribe`
  (`EntryIsEntitled`) through the calls to the event.
- `SubscribeIsAtomic`, `RostersMoveWithEpochs`: the action properties
  `AllOrNothing` (with `InvestorInFlight`, the investor's side of `InFlight`)
  and `RosterMovesWithEpoch`.
- `EligibleAreAdmitted`: `EligibleIsAdmitted`, because a stored root fills a tree
  of the pool's depth (`PublishedRoots`), marks follow payments, and the
  comparator is complete.
- `PoolPassImplementsPromise`: every behaviour of `PoolPass` is one of
  `SubscriptionLedger` under the mapping of `Promise`: a new epoch is `Accredit`,
  the tally is `Settle`, USDC sent to the pool is `Deposit`, anything else a
  stutter. The names under which the abstract ledger lets a secret settle once each
  in an epoch are the words the host takes (`Names <- AdmittedWraps`), and one
  where it takes the canonical one only. The abstract ledger's "not yet settled" follows from the stored
  nullifiers by `SettlementInv` and `RosterInv` together.

`Accreditation`: `TypeCorrect` for any number of services; the others assume
`OneService`, without which the two runs of two services refute them.
`FiledStays`, `RepliesFollowCommits`, `FileNeverAhead` and
`CommitsKeepAcknowledged` come from one inductive invariant. A leaf could be
lost in the file or by a commit of an older roster, so it says: who waits for an
answer, and that none waits twice (`Base`); a transaction that can still be
applied was signed with a number that is not used up (`Sent`, `Numbered`); what
the running job has read is what the file holds (`Works`); what it is about to
commit or save contains every acknowledged leaf (`Holding`); and what it is about
to save or answer was committed (`Committed`). A transaction given up on cannot
undo a later commit, because the commit used its number.

`Faucet`: `TypeCorrect`, `CooldownHolds` and `RefusalsHaveACause`, from `IInv`:
since the last restart, a live request within its window has a claim as recent
as itself (`Covered`), live requests of one address are a cooldown apart
(`Spaced`), a claim is that of a live request (`Backed`), and a restart separates
the requests before it from those after (`Gone`). `OneGrantPerWindow` alone is
not inductive: it does not say what the map of claims means.

`Indexer`: `TypeCorrect` for any commands; `NothingIsLost` and `FileOnlyGrows`
assume `OneCommand`, from `IInv`: a running command still holds what it read
when it started (`Alone`), which a second command would break.

`EventsView`: `AnswersAreComplete`, under `OneCommand`, from `ViewInv`: the file, its
copy and what a query has of them hold what the chain has up to their cursor, but
for what is remembered as passed over, and up to the first ledger that is asked
for nothing but what is counted as missed is left out. `RowsStay`, without assumptions: between
two steps only an answer to the list's query, which holds the event, or to the
verify page's takes a row away.

`MerkleTree`: `PathVerifies` (a path leads from its leaf to the root),
`PathBinds` (from no other leaf), `GeneratedPathVerifies`,
`DistinctInvestorsSuffice` and `PathBelongsToOneRecord`, for every tree of eight
leaves, level by level.

`InvestorFlow`, under `ActorAssumption`, `DataAssumption` and `BoundAssumption`, which
name the actors and say that caps, amounts and budgets are numbers, for any
investors, accounts, packages and epochs:

- `FlowTypeCorrect`: `TypeOK`. The inductive `Typed` adds which fields a package,
  a proof and a transaction of each kind have.
- `PaysOnce`: `NotPaidTwice`, from `PaidOnce`: a nullifier on the chain is that of
  exactly one applied subscription, whatever account sent it.
- `ConfirmedWasApplied`: a call returns only what a poll found applied, and the
  dialog takes its result from that call.
- `StartedProofsProve`, `LateProofsAreOfTheForm`, `EditsNeverLeaveAProof`: from
  `RunsOfTheForm`, which says of a run of the prover that it was started on
  an amount it can prove, and that the form still has this amount: when the amount
  changes, the console leaves the page with its runs.
- `CommittedEpochHadTheTree`: from `OneCommit` (one call of the issuer's page at
  a time), `EarlierCommits` (what tells the transactions of earlier commits from
  that of the running one) and `CommitStands` (once that is applied, no commit is
  pending and its roster is the current one, unless the service came between).
- `VerdictsAreOnThePaid`: from `PaidOnce` and `PageIsOfItsKey`: whatever the page has
  taken up or still waits for is about an applied subscription with its key.

`Deployment`, under `MarketAssumption` (the pools' names differ) and
`AmountAssumption`, for any number of marketplace pools, where the run has one,
and any number of runs, interruptions, rebuilds and late transactions. They rest
on `RunsAreTyped` and on `Later`: no transaction, late or not, takes back what an
earlier one left for the pools.

- `InterruptionsLoseOne`: `OneOrphanPerInterruption`, from `Counted`, in which a late
  deployment counts like an orphan, as it may become one without a further
  interruption, and the contract that the run is about to register does not.
- `IndexersStartInTime`: `IndexerStartsInTime`, from `EvidenceFirst` (the ledger of
  a deployment is written before its contract), `DemoLedger` and `MarketLedgers`
  (the ledger is ahead of the contract only while a deployment is unfinished).
- `PublishedPoolsAlwaysWork`: `PublishedPoolsWork`, from `MarketDone`: for every step
  of deploy-marketplace.ts behind the running one, what it was to leave is on
  the chain (`StepsDone`); at its end this is `PoolsWork` of what it publishes, and
  `Later` keeps it so.
- `PassedDeploymentsWork`: `PassedDeploymentWorks`, the action property. `DeployDone`
  says what each step of deploy.ts left, and this survives late transactions but
  for the balance (`Minted`). That the pool's tokens are the registered ones is `Kept`: a
  contract has one name, and whatever may still initialize the registered pool,
  the running script's transaction or a late one, was sent by its issuer for tokens
  that are registered or older than the sources (`Fitting`), since a registered
  token is only replaced when it is older (`Replacing`) and a contract is
  untouched until it is registered (`Held`). That the pool of a passed
  deployment is its issuer's cannot be shown from the steps alone: a late
  `initialize` of an earlier run may have come first. `Balances` keeps the arithmetic
  of the mint within the integers.

`Encoding` and `Errors`: what is written is what is read (`DeserializeInverts`,
`ContractReadsProof`, `ContractReadsKey` for keys of any length,
`StatementIsReadBack`, `AmountsSurvive`), the length checks accept exactly the
keys that fit the inputs (`LengthsAreRight`), and an error's name is that of the
contract that was called (`OuterErrorIsNamed`, `ScriptAndPageAgree`).

Model-checked only: `FailsOnlyWhenStuck` of `Deployment`, which needs for each step
of every script what the steps before it left in the absence of late
transactions; and liveness (`EveryRequestIsAnswered`,
`SignedSubmissionEnds`, `OptimisticIsReplaced`), which like ENABLED is out of the
prover's reach. The findings are counterexamples, and TLC's. No definition is
RECURSIVE.

## Not modelled

- The pairing equation, Poseidon and the field's arithmetic: pure functions over
  large fields, taken by what they decide. Bytes below the 32 byte word.
- The gates (`contracts/gate-*`, `scripts/gate-*`): feasibility checks of host
  functions, without state.
- Pages that only show (`web/app/page.tsx`, docs, layout), the presentation and
  statistics of pools, `api-smoke.ts`, which asks each route once.
- The wallet's network flag, which is for display, and the issuer's wallet
  disconnecting: the page has no controls then.
- Two deployment scripts at once, and resets of the test network.
- Ledger entry lifetimes: the network restores an entry before a call uses it.
- Depths other than the circuit's, and the reading and writing of files by the
  command line tools.
