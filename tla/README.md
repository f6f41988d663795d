# ProofKey Work Treasury: models and proofs

This directory holds TLA+ models of the ProofKey Work Treasury (its two ledgers, the tools and scripts an operator
runs against them, and the web app), the TLC configurations that check them, and TLAPS proofs about both ledgers,
the allocation tree, the invoice book, the settlement runner, the scripts' offers and the web app. Paths below are
relative to the repository (`src/` is the Solidity source, `sdk/` the TypeScript SDK, `scripts/` the operator's
programs, `ui/` the web app).

## 1. The system

A buyer (a Safe on Ethereum) commits a budget to an *epoch*. Workers are hired against that budget on the
**source ledger**; the money itself is held by the **target ledger** on Creditcoin, which pays only what it
can prove the source ledger decided. Nobody bridges a message: anyone may take the source chain's receipts
to the target, where a native verifier attests that a transaction is on the source chain.

| Component | State it keeps | Operations | Talks to |
|---|---|---|---|
| `SourceCoordinator` (+ `SourceAccountingLib`, `SourcePolicyV1Lib`, `SourceStorage`, `WorkTypes`) | per epoch: phase, budget accounts, counters, allocation tree; per order and milestone: status, version, delivery, outcome; nonces, offers, ruling votes and floors | open, expire, release, drain, sweep, republish; offer, accept, quote, revoke, decline, expire; deliver, approve, challenge, vote, withdraw votes, settle mutually, three timeouts | emits `AllocationCreated` and `CheckpointPublished` |
| `SourceSignatureLib` | none | digests, ECDSA / ERC-1271 / direct-call authorization | wallets and Safes |
| `AllocationTree`, `AllocationCodec` | root, count, one frontier node per level, the log | initialize, append, verify, decode | used by both ledgers |
| `sdk/allocation.ts` | none | rebuild the tree from the log, build and check witnesses | must agree with the contract |
| `WorkTreasury` | free balances, epoch accounts, recognized rights, claims, checkpoints, latest checkpoint, three liability totals | deposit, fund, authenticate, import, recognize (four routes), withdraw (four routes) | calls receivers with ether |
| `NativeReceiptAuth` | authentications of source transactions | single, batch and segmented authentication, log selection | native verifier precompile |
| `PaidInvoiceBook` | invoices | record a completed WORK payment | reads the treasury |
| `sdk/settlement-runner.ts` and its script | plan, journal file | plan, send, wait, verify, resume | both chains |
| `sdk/work-authorization.ts`, `ui/participant-work.ts` | the list of work files on the device | check a work file against one finalized read of the source, say what may be delivered | source chain |
| `sdk/program-collector.ts`, `program-closeout.ts`, `payment-history.ts` | pins and rows of one collection | collect both ledgers at two finalized blocks, judge completeness, select payments | both chains |
| `scripts/source-demo.ts`, `source-branches.ts`, `public-demo.ts`, `public-branches.ts`, `public-safe-rotation.ts` | a report file: stages done, transactions recorded, one pending hash | drive an epoch through its scenario, resume from the report | both chains, the Safe |
| `ui/app.ts` | page, device storage, wallet session, pending calls | setup, sign a quote, deliver, execute, report, settle | wallet, both chains, the SDK |
| claim package, receipt evidence, inspector, prover client, Safe runtime, wallet, identity | none | encode, validate, fetch | files, HTTP |
| release and verification scripts | none | deploy once, compare recorded files with the chains | files, both chains |

Where the system is hard:

* **Ordering and interleaving.** All functions are open to several parties or to anyone; every deadline is a
  race between a party and whoever triggers the default; quotes, votes and Safe commands are signed at one
  state and submitted at another.
* **Accounting along many paths.** A milestone can be settled in eight ways and an order can lapse in three;
  budget is split between free, reserved, earned and returned; every path ends in assertions which, if they
  could ever fail, would strand the milestone for good.
* **Bounded resources.** The tree has 128 slots, draining allows 33 sweeps, and both must suffice for any use
  of an epoch.
* **Two chains.** Evidence is delivered late, twice, out of order, by different routes; one transaction is
  refused, forged or emitted by a look-alike.
* **External calls and rollback.** A withdrawal gives control to its receiver, which may call back into the
  unguarded part of the treasury, have an invoice recorded, and then reject everything.
* **Crash and retry** in the settlement runner and the scripts: what was sent may be unknown to the next process,
  and the chain has to say what is still to be done.
* **Late answers** in the web app: while a read, a signature or a transaction is awaited, the user edits, clicks,
  switches accounts, reloads.
* **Skewed snapshots**: two chains are read in many calls while both advance and may be answered from another fork.

`PROJECT.json` lists each hazard at its line, with the properties that cover it.

## 2. What makes each component correct

* *Source ledger*: the cap is always the sum of the four accounts; the reserve is exactly that of the open
  milestones; each settlement is paid once, to the owners its terms name; a ruling, settlement, review or
  quote binds only with current, exact authority; decision and default exclude each other; nothing open is
  ever stuck; the epoch ends closed; the last checkpoint is current.
* *Tree*: the incremental root is the rebuilt one; old witnesses stay valid; nothing else verifies.
* *Target ledger*: always solvent; the totals are the sums; each right is recognized and each claim paid once,
  and only on attested evidence of the pinned coordinator; a revert takes back exactly its own transaction;
  what was announced for a funded epoch is eventually paid.
* *Invoice book*: an invoice shows a payment that took place.
* *Settlement runner*: whatever is known to have been sent is not sent again; restarted often enough it settles
  its packet, whoever else is at work on it.
* *Operator scripts*: nothing known to have been sent is sent again; an offer that is replaced holds no budget; a
  stage in the evidence file stands on the chains; a script started again completes or is stuck in a named way.
* *Web app*: a request leaves the page as the page shows it at that moment; a delivery is sent once; a report is true
  of the two blocks it names.

## 3. Modules

| Module | Models | Notes |
|---|---|---|
| `WorkTypes` | `src/WorkTypes.sol` | limits as parameters, with the inequalities that the code's numbers satisfy (2·32+16+33+1 ≤ 128, 32+1 ≤ 33) as named assumptions |
| `SourceAccounting` | `SourceAccountingLib.sol`, internal helpers | each operation as a function from epoch record to epoch record |
| `SourceCoordinator` | `SourceCoordinator.sol`, policy and signature libraries | one action per external function; enabled exactly when the transaction would not revert |
| `SourceSafety` | properties of the source ledger | also the inductive invariant `LedgerInv` and the refinement mapping |
| `WorkBudget` | abstract specification | budget moves free → reserved → earned or free, free → returned; closes when nothing is left |
| `SourceCoordinatorProofs`, `SourceLedgerProofs` | theorems on the source ledger: accounting and refinement; who decided, and the books | see section 6 |
| `SumTheorems` | lemmas on sums over finite sets, and induction for sets | used by all proofs about totals |
| `AllocationTree` | `AllocationTree.sol`, `AllocationCodec.sol`, the builder in `sdk/allocation.ts` | hashes are free terms; `TreeProofs` holds its theorems |
| `WorkTreasury` | `WorkTreasury.sol`, `NativeReceiptAuth.sol` | one action per external function, an open external call is a state |
| `TreasurySafety` | properties of the target ledger | stated of the live ledger and of the one a revert would restore |
| `PaidInvoiceBook` | `PaidInvoiceBook.sol` | composes with the treasury, shares its rollback |
| `TreasuryProofs` | theorems on the target ledger and the invoice book | see section 6 |
| `SettlementRunner` | `sdk/settlement-runner.ts`, `scripts/settlement-runner.ts` | one action per step between two awaits that matter; the target chain around it is external |
| `PublicScripts` | the five scenario scripts as data | the steps in the order the scripts take them, per stage |
| `OperatorScripts` | the process that runs them: `scripts/safe.ts`, `proofs.ts`, the helpers of `source-demo.ts` and its siblings | report file, recovery, two chains at the grain the scripts read |
| `ScriptStages` | which steps of a program each stage rests on | an assumption on the programs, evaluated for all three; used by `ScriptProofs` |
| `ParticipantWork` | `ui/participant-work.ts`, `sdk/work-authorization.ts` | what one hash-pinned read lets a participant do |
| `ProgramEvidence` | `sdk/program-collector.ts`, `program-closeout.ts`, `payment-history.ts` | a collection as pins and rows, its verdict |
| `WorkspaceApp`, `ParticipantApp`, `EvidenceApp` | `ui/app.ts`: the page and its settings and wallet; files, quotes, deliveries, execution; reports and settlement | one action per stretch of code between two awaits |
| `AppSafety` | the app as a whole and its properties | every click, answer and outside step in every order |
| `RunnerProofs`, `ScriptProofs`, `AppProofs` | theorems on the settlement runner, the scripts and the web app | see section 6 |
| `MCSourcePolicy`, `MCSourceDispute`, `MCSourceBudget`, `MCTreasury`, `MCPaidInvoice`, `MCSettlementRunner`, `MCOperatorScripts`, `MCWorkspaceApp` | instances | terms, source histories, accounts, budgets of faults and clicks |

### How the state corresponds

*Source.* `epoch` is `_epochs[epochId]` with its tree; `orders`, `milestones`, `nonceState`, `offerForNonce`,
`votes` and `floors` are the mappings of the same name; `block` is `block.number`. Epochs share no storage, so
one epoch is modelled. An order id is the hash of its terms, hence `Terms` is a constant function. `consents`
is not storage: it is the set of signatures and queued Safe commands in existence, each bound to the digest it
was made for. Submitting one is a later step, by anyone, which is how stale authority arises. `published` is
the log of `CheckpointPublished` events. The tree is kept as the sequence of its leaves; `AllocationTree`
shows why a root may stand for that sequence.

*Target.* `ledger` is the treasury's storage plus its ether. `rights` is `_recognizedAllocations` together
with `recognizedEconomicId`; a claim is a right of kind WORK or FEE, and `paidTo` is its `withdrawn` flag and
`paidDestination`. `sent` is a history of ether that left per claim; `forced` one of ether that came without a
call. A checkpoint is stored under its log id, from which its content follows, so `checkpoints` is a set of
ids. `call` is the receiver a withdrawal waits for, with the ledger to return to if it reverts. While it is
open the functions marked `nonReentrant` are disabled, everything else may happen. `Source` is the source
chain's history as far as anyone presents it; `Attested` is what the native verifier accepts.

*Settlement runner.* `journal` is the journal file, which always equals the object in memory except between
sending a transaction and saving its hash (`run.at = "save"`). `run.plan` is what is left of the plan's actions,
computed by `Planned` from the finalized prefix of `chain`; the checks of the packet's evidence and of runtime code
are taken to pass, and `Executable` is what is left of those of calldata and identities once bytes are abstracted. A hash is the transaction's place in `sent`. The treasury is reduced to what
`WorkTreasury` says of recognizing and paying (`Succeeds`). Four things follow from the libraries the tool uses:
the signer estimates gas before it broadcasts, so a call that would revert at once is not sent; a receipt is
waited for without a timeout and after one confirmation; an account's transactions execute in nonce order; what
a reorganization takes out goes back to the pool. `lost` is a history of hashes whose process died too early.

*Operator scripts.* A script is a sequence of steps taken from the top by every process; a step whose stage is in
`report.stages` is skipped, and a step that the chain shows done is not due (`Due`). `report.pending` is the pending
entry of the report file, written after the node has answered with the hash; a process may die before that, which
`lost` remembers. The recovery of a pending entry stands in all the scripts with the same branches: `Recover`,
`Recovered` and `FoundFailed` are each mapped to a different copy, the last to the one with the exception for
acceptances. `orders` has a generation per replaced draft. A contract call does what the ledger modules say of
it at the grain the scripts read: an order is one milestone with four deadlines, of which one or several pass at a
time, the ledger is a sum over the orders, and the epoch closes when the last unit of its cap is earned or returned
(`Closes`). Its cutoffs for initialization and admission may pass at any moment (`PassCutoff`). What needs nobody's
consent is also done by others (`OthersCalls`): expiry, defaults, draining once admission is over, sweeping, expiring an
epoch that was never opened, recognitions, withdrawals, refunds, and the final authentication or import. The worker's
signature on the settlement that comes too late is made while the milestone is live or not at all (`SignSettlement`),
because `mutualDigest` reverts on a final milestone. A failed transaction of the public branches stays in their journal
(`NeverCleared`), on the target chain and, for the expiry of the successor, on the source. A source transaction is
final as soon as it is executed, since the scripts wait for its receipt and read at finalized blocks. A Safe transaction is signed for one nonce of the Safe (`source.nonce`) and
fails when another one was executed first.

*Web app.* JavaScript runs one callback at a time, so a pending call is a *task* with the item it carries, and a
task moves at its awaits. The code's generation counters (`draftRevision`, `writeRevision`, `workSelection`, ...)
never return to an old value, so a task holds *marks* and raising a counter takes the mark from every task.
`device` is localStorage, `prompts` are wallet requests whose page is gone. The source the participant reads and the
histories the collector reads are separate, since no property relates them. A collection pins one finalized block
per chain, reads by number and compares hashes at the end; a fork may replace what a number means in between.
Gaps in an RPC's answer make a report incomplete, a failed read makes it invalid.

*Where a request leaves the page.* `sendPrepared` looks at the page for the last time and calls
`signer.sendTransaction` (`app.ts:684`), and ethers then awaits the block number and a gas estimate before it asks the
wallet. The model has the two as steps of their own, `PreparedHanded` and `PreparedAsk`, with anything the user
does between them: a Clear, a Load or an edit in that time does not stop the call, and TLC reaches the states in which
a call gets to the wallet that the form no longer holds. `LeavesAsShown` therefore speaks of the moment the page gives
a request away, to the signer for a prepared call, to the wallet for the others. Those ask
the provider or `signTypedData` themselves; what lies between their check and the request is a timer of no
delay in ethers, which the model takes as one step. What the property says of a
prepared call is what the code checks: the workspace, and the form through `writeRevision`. Two things are not
watched by it. An acceptance that `prepareSignedQuote` puts in the form does not raise `writeRevision` when it ends
(`app.ts:649`), so a call on its way is not stopped though the form shows another one by then (`InForm`), where the
message at `app.ts:684` says "Prepared action changed before send". And a payment is taken from its form when it is
clicked; editing that form raises nothing.

*Atomicity.* A contract call is one step, because the chains execute transactions one at a time and revert them
whole. The exception is the external call of a withdrawal, which is split.

## 4. Runs

| Run | Instance | Shows |
|---|---|---|
| `source_policy` | one milestone, committee of three (symmetric), redelivery, two ruling nonces, two amounts, three signatures | rulings and mutual settlements bind only with current, exact, distinct signatures |
| `source_deadlines` | the same milestone, fair blocks and permissionless calls | the epoch always closes, a block never allows both a decision and its default, nothing open is stuck, reviews bind the delivery they were made for |
| `source_dispute` | two milestones in one order, partial amounts | reserve and leaves account for every settlement exactly once |
| `source_budget` | four orders, two under one nonce, one with invalid terms; releases, draining, four sweeps; tree of exactly the required size | conservation, capacity, closure, checkpoints, nonces, the inductive invariant, refinement of `WorkBudget` |
| `allocation_tree` | depth 3, two contents: every log of up to 8 leaves | incremental root = rebuilt root, published witnesses keep verifying, only members verify |
| `treasury_evidence` | five source transactions: a receipt with a look-alike event, two checkpoints in one transaction, a republication, a failed and a forged transaction | rights rest on attested evidence and are counted once; the latest checkpoint is the newest; nothing committed is lost |
| `treasury_payment` | fair relayers, a receiver that may reenter and reject for ever | announced allocations are recognized and deliverable claims paid |
| `paid_invoice` | deposits, a second epoch funded from returned money, a third with the wrong treasury, redirections, payments to the treasury itself, forced ether, invoices | solvency, totals, single payment, honest invoices |
| `settlement_runner` | a claim whose destination may reject ether, one that can be paid, a return; three mixes of rivals, crashes, a dropped transaction, a reorganization and a receiver that changes its mind | restarts never send twice what was saved, and settle the packet |
| `operator_scripts` | three programs (the two demonstrations share one, as the public one calls the source one; the branches likewise; the rotation), three or four mixes of faults each | nothing is sent twice but after a failure or a lost hash; replaced offers hold nothing; stages stand; restarted scripts complete or are stuck in a named way |
| `web_app` | two pending calls at once, two orders (one of two milestones), three setups, two accounts, two programs, nine families of scenarios | a request leaves the page as the page shows it then, no delivery is sent twice, reports and payment records are true of the blocks they name |
| `cleared_setup` | one Save and one Clear | *expected violation*, see section 5 |

The larger ones are `paid_invoice` (about 580,000 distinct states), `web_app` (440,000) and `operator_scripts`
(400,000).

Deadlock checking is off everywhere: a closed epoch whose orders are all settled, a full tree, and a treasury
whose money has left really have nothing more to do, nor has a script that completed or waits for a forgotten
transaction, nor a page whose user stops clicking.

**Bounds, and why they are enough.** `MaxBlock` is the last deadline, so all relative orders of deadlines and
acts occur, the block of each deadline itself included. Amounts of 0, 1 and 2 distinguish nothing, part and all
of a milestone. Three members are the code's committee; two are a quorum. `MaxVersion` allows two deliveries
and a challenge; at the limit the code reverts too. `MaxConsents` allows a quorum for one ruling plus one
competing vote, or a full mutual agreement plus one stale signature. `TreeCapacity` and the sweep limit are set
to the smallest values that the assumptions permit, so that any missing slot shows. `MaxPublished` limits only
`republishCheckpoint`, which changes nothing else. For the tree, depth 3 has a carry over one, two and three
levels and the full tree. In the treasury, `MaxCredited` covers both epochs and one payment of the treasury to
itself, and one unit of forced ether is enough to separate the balance from the liabilities.

The runner's packet has one claim of each fate, the troublesome one first so that it can hold up the others, and
two sends per run so that one run cannot do it all. `Budgets` bounds rivals and faults. A drop and a
reorganization, or a drop and a change of mind, do not occur together.

`MCBudgets` gives the demonstration a crash, or a drop with a call of somebody else, or a failed lookup with a
missed deadline or cutoff, or one of these with a call of somebody else; the branches a crash, or a drop with a call of
somebody else, or a missed deadline or cutoff with one; the rotation two crashes, or a crash with a call of somebody
else, or a drop with a missed deadline or cutoff, or one of these with two calls of others. `spare` is target money that is nobody's
reserve; it is what a second refund could take. In the web app a scenario couples what the device, the ledger and
the RPCs hold at first with a number of times each click and each outside event may happen; within a scenario every
order occurs. Two tasks are what a race needs: one that waits and one that overtakes it. An RPC leaves its fork at
most once. The settlement a click starts is one
transaction; what a whole plan does is in `SettlementRunner`.

**Fairness.** `source_deadlines` assumes that blocks keep coming and that a call open to anyone (expiry, sweeping,
the three timeouts, draining from the cutoff on, which a committee member may also start) is eventually made by
somebody; nothing is assumed of what only one party can do. Weak fairness suffices since each such call stays
enabled until a settlement happens. `treasury_payment` assumes that a transaction ends (weak fairness of the
receiver's return or revert) and that somebody keeps submitting recognitions and withdrawals in transactions of
their own. Strong fairness is needed: a withdrawal is disabled while another one waits for its receiver, and a
recognition made inside a call that reverts is undone, so weak fairness would let a rejecting receiver starve
everyone in the model although on the chain its transactions fail and the others are included between them.

`settlement_runner` assumes that the operator starts the tool again whenever it has ended and stops it when it waits
for a dropped transaction, that the pool's transactions execute, and that blocks become final. Nothing is assumed
of rivals.

`operator_scripts` assumes that the operator starts the script again whenever it has stopped, that transactions
still in the pool are executed, that awaited deadlines pass, and that the chains advance (proofs become available,
blocks final). The last needs strong fairness: the target attests the source while the script pauses for it, and
the script starts and ends again in between. The web app has no liveness property, since nothing obliges its user
to click.

Every property of a run has a *mutant*: a wrong form of one definition, kept beside it in its module, such as a
forgotten counter or a dropped check, under which the property fails.

## 5. What the runs found

One disagreement (`cleared_setup`). `docs/OPERATOR-WALKTHROUGH.md` says that changed inputs invalidate stale
asynchronous results and that *Clear saved setup* removes the saved workspace. The handler of *Save*
(`ui/app.ts:1127`) awaits the verification and then stores and adopts the setup without asking whether it was
cleared meanwhile, so a Clear clicked while the check is pending is undone when it ends. Two overlapping Saves
likewise leave the one that ends last. All other properties hold on all instances.

`Settles` makes one limit of the settlement runner explicit. Crashes, reorganizations and lost races never stop it
for good, but two things do (`Stuck`): a saved transaction that the network dropped, and a payment that failed
because its destination rejected it after accepting the estimate, and that is planned again once the destination
accepts. The journal then names a hash that every later run waits for or fails on, and the rest of the plan waits
with it until somebody else does that action or the operator removes the entry. The documentation promises neither
a retry nor a replacement of a transaction.

`Completes` does the same for the scripts. `Stuck` names the ways in which restarting does not help: the node forgot
the pending transaction (`NeverMined`); it failed and the public branches never clear it (`NeverCleaned`,
`public-branches.ts:35-38`, which is so of the source-side expiry of the successor as well); a later
step wants the receipt of a call whose hash no journal has (`MissingReceipt`, e.g. the sweep and committee receipts
of `source-demo.ts:769-800`); a call that only the journal says is due was made (`MadeUnrecorded`); a deadline passed
where only the demonstration's offers are replaced (`MissedDeadline`); the epoch's initialization or admission cutoff
passed, or others drained it, before the script was through with it (`MissedCutoff`); more was earned, returned or
settled than a check of the accounts still to come wants to see (`MissedAccounts`); the milestone ended before the
worker's signature was saved (`NothingToSign`, `source-branches.ts:519-524`); somebody else authenticated the final
transaction of the rotation, the script took that for the import and nobody imports the checkpoint (`NeverImported`,
`public-safe-rotation.ts:616-640`); others settled a milestone otherwise than the
script means (`OtherOutcome`); `RETURN50` was recognized too late for the demand of `public-demo.ts:112-117`
(`DemandMissed`); an offer that a failed lookup hid still holds budget (`Orphaned`, `source-demo.ts:443`). `SentOnce`
exempts calls whose hash was lost: the refund of the rotation (`public-safe-rotation.ts:653`) is then withdrawn a
second time if there is free money for it.

Modelling the web app showed some limits that no property speaks of. The guided source order (`app.ts:1076`), the
order and payment lookups have no generation guard, so the last answer wins. The handlers of closeout
authorizations and settlement files do not invalidate what was computed from the earlier ones. A delivery whose
transaction failed stays in the journal and cannot be sent again with the same content. A delivery made on the
execution panel is not journaled. The quote's acknowledgement is checked at the click only (`app.ts:592`).

## 6. Proofs

`SourceCoordinatorProofs` and `SourceLedgerProofs` prove of `Spec`, for every choice of limits, terms, amounts
and participants that meets the assumptions in `WorkTypes` and `SourceCoordinator`:

| Theorem | States |
|---|---|
| `LedgerInvariant`, `TypeCorrect` | the inductive invariant and types |
| `ClosesWhenSettled` | closed ⇔ nothing free and nothing reserved |
| `TreeNeverFull` | the slots that may still be needed never exceed the required capacity |
| `SettlementAlwaysFits` | a settlement covered by the reserve has room and passes the closing assertions |
| `SweepsSuffice` | a draining epoch with free budget has a sweep left |
| `CheckpointAlwaysCurrent` | the checkpoint published last shows the epoch as it is |
| `SettlementIsFinal` | settled milestones and written leaves stay, closed stays closed, draining admits nothing |
| `LedgerImplementsBudget` | the ledger refines `WorkBudget` |
| `AuthorityInvariant` | the inductive invariant of who decided |
| `RulingsHaveQuorum` | a ruling was voted for by two distinct members, currently and exactly |
| `SettlementsHaveConsent` | a mutual settlement was signed by both parties for that amount and nonce |
| `ReviewsBindDelivery` | an approval or challenge was commanded for that version and delivery |
| `NonceIsUsedOnce` | a worker nonce admits one order, and its state says what became of it |
| `BooksInvariant` | the inductive invariant of the books |
| `ReserveIsLive` | the reserve is the sum over the open milestones |
| `PaymentsMatchOutcomes` | a settled milestone has exactly the leaves its outcome names, and no other leaf exists |
| `CheckpointsFaithful` | every published checkpoint states the sums over the leaves it commits to |
| `StageInvariant` | the inductive invariant of the deadlines |
| `NobodyIsStranded` | from its deadline on, an open milestone has a default that anyone may execute and that cannot revert |
| `OneHandAtATime` | in every block an open milestone is either a party's to decide or anyone's to default, never both, never neither |

*Assumptions.* The limits are naturals with the two inequalities of section 3; the configuration is what
`validateConfig` accepts; the terms have their types. TLC evaluates all of them on every instance.

*Argument.* Whatever a transaction does to orders, milestones and signatures, it changes the epoch's record by
one of eight functions of `SourceAccounting`. `Moves(e, f)` lists them, and four lemmas, one per group of
actions, show that each action is a move and either publishes the new checkpoint or leaves what a checkpoint
states alone. Everything else is proved about `Moves`. The wanted invariants are not inductive by themselves: that
the tree never fills needs a bound on the leaves, which needs the count of settled milestones and of both kinds
of returns (`LeavesInv`, `CountersInv`); that the sweeps suffice needs the observation that each sweep after
the first was preceded by a settlement, with the sign of `available` as a slack (`SweepInv`); both need
closure (`ClosureInv`) and conservation. `EpochInv` collects them, `LedgerInv` adds types, that only
well-formed orders are admitted, that an open nonce has its offer, and the current checkpoint.

*Who decided.* `AuthorityInv` adds to `LedgerInv` that every recorded vote was signed and that every milestone is
`Authorized`: it has an outcome only once it is final, a ruling then has its quorum, a mutual settlement its two
signatures, an approval or challenge its command. It is inductive because signatures are never taken back and a
settled milestone's version, delivery, nonce and floors never change again (each of the functions that could change
them demands an open milestone). That the code's count of votes means two members needs the library's facts on
cardinality. `NonceInv` adds to `LedgerInv` that a worker nonce has at most one order and is in the state which
that order has; every step either leaves nonces and orders alone (`NoncesKept`) or moves one nonce on together with
its one order (`NonceMoves`).

*The books.* A total and the sum it stands for live in different places: `reserve` beside the milestones, `earned` and
`returned` beside the leaves, a checkpoint beside the prefix it was made of. `BooksInv` says they agree. `SumTheorems`
has what a step needs: a sum over a finite set changes by one summand when a member is added, removed or changes. It
unfolds the community modules' fold once, for every finite set, by an induction that speaks of sets (the library's
principles take an operator as parameter, which the provers cannot instantiate). Each move of the ledger then changes
one summand on both sides: admitting an order adds its milestones' reserves, a settlement takes one away and appends the
leaves of its outcome, a release takes away what a lapsed order had. That leaves are distinct members of the log, and
that a milestone gets leaves only in the step that settles it, comes with `PaysOnce` and `UnsettledUnpaid`.

*The deadlines.* Whether a call would go through is a question of its guard: each decision and each default of a
milestone is an action made of a named guard (`MayAccept`, `InReview`, `NoDeliveryDue`, `MayFinalize`, ...), which has
all its requirements, subtractions, room and closing assertions, and of assignments, which always succeed. So
`NeverStranded` and `DecisionExcludesDefault` speak of guards, `ENABLED` is not needed, and the fairness of
`EpochSettles` checks on the instance that the guards are all there is. `StageInv` adds to the books that a milestone is
`PENDING` exactly while its order is open and that its version starts at the acceptance (else its last delivery could
exceed the version's width). The rest is what the books already say: the reserve is a sum with the milestone in it, so
it covers the milestone (`ReserveIsLive`), and whatever is decided within the terms has room (`FitsFromInv`).

`TreeProofs` proves of `AllocationTree`, for every depth (`DepthAssumption`: at least one level) and all contents:

| Theorem | States |
|---|---|
| `TreeInvariant` | the inductive invariant of the tree |
| `RootIsBuilt` | the incremental root is the one rebuilt from the whole log |
| `ProofsVerify` | a witness for any prefix of the log verifies against the root published for it |
| `OnlyMembers` | what verifies against the current root is the allocation the log has at that index |

*Argument.* Each recursive function of the tree first gets a lemma that unfolds it. `Stable` says that a new leaf
changes only the nodes above it, `EmptyBeyond` that everything right of its path is empty; so the siblings of its path
are the frontier's nodes and empty subtrees, which is what `FrontierInv` has to say for `append` to climb to the
builder's root (`AscentFollows`, also what makes witnesses verify). The next leaf's path is on every level the same node
or the next one (`CursorNext`), which carries `FrontierInv` over. For `OnlyMembers` the argument goes down: equal hashes
have equal children, so a walk that arrives at the root has met the tree's own nodes from the leaf on
(`AscentIsUnique`), whatever siblings it was given.

`TreasuryProofs` proves of the treasury's `Spec`, and of the treasury with the invoice book
(`BookSpec`), for every source history, set of accounts and bound:

| Theorem | States |
|---|---|
| `TreasuryInvariant`, `TreasuryTypeCorrect` | the inductive invariant and types |
| `AlwaysSolvent` | the balance covers what is owed, also while a withdrawal waits for its receiver |
| `ClaimsPaidOnce` | no claim is paid twice, and what left is what is marked as paid |
| `RightsAreBacked` | authentications, checkpoints and rights go back to attested logs of the pinned coordinator |
| `TotalsAlwaysMatch` | the three liability totals are the sums of what they stand for |
| `CapIsKept` | what an epoch reserves and what it recognized make its cap; the latter is the sum of its rights |
| `LatestAlwaysNewest` | the latest checkpoint is the newest stored one |
| `NothingCommittedIsLost` | what was committed only grows, whatever reverts |
| `InvoicesShowPayments` | an invoice shows a payment, also one that may still be undone together with it |

*Assumptions.* Amounts are naturals and owners, destinations and sponsors accounts; `None` is neither; a transaction
of the source has one position on its chain and an attested position one transaction (`PositionAssumption`: without it
"newest" has no meaning); accounts and epochs are finitely many (`FiniteAssumption`: addresses and hashes are). Nothing is assumed of what the logs say, of who calls or of what a receiver does.

*Argument.* A transaction composes a few effects on the ledger: credited, received, funded, authenticated, stored,
recognized, completed, debited. The first part of `TreasuryProofs` shows of each one that it keeps a ledger `Sound`
(typed, accounted for, balanced, backed by evidence) and that the new ledger `GrewInto` from the old one. The second part
shows that every transaction composes these effects and nothing else (`StepsAdd`). The invariant is `Sound` of the
live ledger and of `call.undo`, the ledger a revert restores, together with the growth of the one from the other; a
revert then needs no argument of its own. `LatestIsNewest` needs in addition that the order of positions and log
ordinals is total and transitive on stored checkpoints. The part on the invoice book carries
`Agree(records, ledger)` for both pairs in the same way.

`RunnerProofs` proves of `SettlementRunner`, for every packet, number of restarts and behaviour of the nodes:

| Theorem | States |
|---|---|
| `RunnerInvariant` | the inductive invariant of process, journal and chain |
| `NothingSentTwice` | an action is sent again only if the process that sent it died before it saved the hash |

*Assumptions.* The packet is a sequence of claims.

*Argument.* What is to be avoided is a send for an action whose transaction is known; what the code looks at before a
send is the journal's status and what it just read from the chain. So the invariant says what the journal's statuses
are worth: an entry that counts as unsent has no hash, any other names a transaction that was made for its own action.
The action in hand is unsent from the moment the loop chose it until its hash is saved, so a second send would need a
first whose hash was lost. The planner enters as one fact only, that its actions are distinct: which actions it yields
is a fold over the packet and plays no part.

`ScriptProofs` proves of `OperatorScripts`, for every set of programs that meets its assumptions and every bound on faults:

| Theorem | States |
|---|---|
| `OffersInvariant` | the inductive invariant of the orders' terms and of where the process is |
| `BudgetIsTracked` | what holds budget is the newest generation of its order, or was hidden by a failed lookup |
| `SentInvariant` | the inductive invariant of the transactions: what they brought about and who knows their hash |
| `NothingSentAgain` | a call is sent again only after the first failed, or when its hash was lost |
| `StagesInvariant` | the inductive invariant of the stages: ledger, pay, and what each step done so far saw or did |
| `StagesNeverOverstate` | what a stage of the report says holds on the chains while it is marked |

*Assumptions.* They speak of a program's steps, and the programs are finite data written down in `PublicScripts`; TLC
evaluates them for every step of all three. `RefreshAssumption`: whatever refreshes an offer comes after the step that
drafts it, and is skipped on a restart whenever that one is. `CallsAssumption`: a label and a key name one call, and a
call about an order comes after its draft. `SweepAssumption`: a stage is marked at its end, and before a program sweeps
its epoch it has settled every order it drafts; one that refreshes offers has also seen an epoch without reserve.
`StagesAssumption`, in `ScriptStages`, says for each stage which earlier steps it rests on (`Founded`): the acceptances,
the checks of the accounts, the pause for final funding, the import, withdrawals and refund. A stage that names an
order's pay needs a check of the accounts from which that pay follows (`SeesPay`): the order is settled, the pay of every
other order worked on so far is the matter of an earlier stage, and the sum is right. It also bounds what a call may ask
for (a settlement within the budget, a withdrawal of a right the script has).

*Argument.* A refresh makes a new generation of an offer while the old one may still be accepted, by a transaction in
flight or by one whose hash was lost. `OffersInv` says of every order ever drafted that it is the newest of its offer,
was hidden by a failed lookup, or has lapsed on the chain; one that lapsed without an agreement holds no budget. A
refresh needs a draft to replace: the steps behind the process were gone through by it or their stage is marked in the
evidence file (`Drafting`), and nothing drafted is ever forgotten (`Grows`).

`SentOnce` compares two runs of a program: the one that sent a call and a later one that finds it due. `SendsRemembered`
says that a transaction which has not failed is journaled, recorded, in the process's hands or lost, so the later run
finds it recorded, hence executed. What an executed call brings about (`Effected`) is never undone, neither by the
contracts nor by the deadlines (`EffectsLast`), and it is exactly what makes the call not due, or refused by the gas
estimate (`CalledOnce`). One call needs more. A sweep is due again as soon as
free budget comes back, so that it is sent once rests on no order being live when the script sends it, and none becoming
so afterwards (`SweepsEmpty`): a draining epoch takes no offers. Others may drain the epoch earlier, so draining itself
says nothing; that no order is live at the sweep follows from what the steps before it have settled or seen
(`StepsPassed`), whether this process went through them or an earlier one marked them.

`StagesHold` speaks of what was seen once and must hold for ever. `FactsDone` attaches to every step behind the process,
or behind a marked stage, what it established (`FactOf`), and each action is shown to keep the facts there are and to add
that of the step it completes. Three matters need an argument. First, a script infers an order's pay from a sum: the
ledger holds no other pay than that of orders the script worked on, with the newest terms (`Worked`), so with the others'
pay known the sum leaves one possibility (`CheckTellsPay`, over the lemmas of `SumTheorems`). Second, a refresh gives an
order new terms, to which what was seen of the old ones does not apply: none comes after the steps whose facts speak of
that order (`RefreshesNoneDone`, `DraftsNoneWorked`). Third, that an epoch is closed is inferred from accounts that show
nothing free and nothing reserved. The contract closes an epoch in the step that earns or returns the last unit, be it
a settlement, a release, a sweep or somebody's call, so an epoch that was opened is closed exactly when earned and
returned make the cap (`Solvent`); and one that returned a part was opened.

`AppProofs` proves of `AppSafety`, for every deployment, number of pending calls, history of the two chains and order of
clicks, answers, reloads and reorganizations:

| Theorem | States |
|---|---|
| `AppInvariant` | the inductive invariant of the page |
| `SentAsShown` | a delivery, a signature or a settlement goes to the wallet as the page shows it, for the account it takes; a prepared call is of the workspace and the form when it goes to the signer, a payment of the workspace |
| `NoSecondDelivery` | a delivery is sent twice only when the wallet never told the page of the first; the journal is true to the chain |
| `ReportsTrue` | a report states what both chains had at the blocks it pinned |

*Assumptions.* `StartsAssumption`: a device has its five stores and no delivery in its journal, an RPC has one of its
histories up to some block. `HistoriesAssumption`: a history has two branches of the events that the contracts emit. That
the branches are equally long is a convention of the model and no restriction: what a branch would have beyond the other
is never final in it.

*Argument.* A call of the page is a chain of awaits, and anything may happen at each. The code guards against this with
generation counters, which the model keeps as marks that a call holds until something invalidates it. `Vouched` says for
each kind of call and each mark what it is worth: as long as the call holds it, the call works on what the page shows.
Most steps need one fact, that a step changes what a mark vouches for only when it takes that mark from every call
(`PageKept`, `QuietStep`), so the forty kinds of steps share one argument; what remains is the step that gives a request
away, where the marks still held are those the property needs. What the signer does with a prepared call afterwards is
no longer the page's, and no theorem speaks of it. `DeliveredOnce` needs to know where each delivery's hash
is: nowhere yet, in the answer on its way to the page, in the journal, or lost (`Underway`), and that one delivery is
between check and answer at a time (`Alone`). A collection reads two nodes which may reorganize between any two reads;
`Gathered` says that what it read agrees with the block it pinned or with the same height on the other branch, and
in the second case the comparison at its end (`assertStableFinalizedSnapshots`) fails.

*Only model-checked.* Liveness (`EpochSettles`, `FundedWorkIsPaid`, `Settles`, `Completes`), which the prover does not
reach. `ClearedStaysCleared` (run `cleared_setup`) does not hold: section 5.

## 7. Not modelled

* Signature recovery, EIP-712 encoding, ABI encoding and decoding: a digest is the tuple of its fields and hashing
  is injective. On the source ledger's model a signature stays valid once made; in the web app a worker's contract
  account may stop confirming a quote it signed and confirm it again (`source.honoured`, `PolicyChanges`).
* The native verifier and the prover service: external; their verdict is the constant `Attested`.
* Gas, and arithmetic beyond 256 bits: the totals are bounded by the ether in existence.
* Several source epochs at once: they share no state. The target ledger is modelled with several.
* Cross-chain composition: `SourceCoordinator` and `WorkTreasury` meet in the constant `Source`, any history of
  receipts, of which the source's real ones are some. That the treasury never recognizes more than the source
  decided follows only by putting `RightsAreBacked` beside the source's theorems; it is not stated in one module.
* Work authorization: hashing, byte encodings, and the replay of committed observations, which hold of a packet for
  ever. Closeout:
  authorization packets, evidence of Safe calls, the prefix checks between checkpoints. Payment history: the filters
  by order and economic id; a role is the owner of all claims.
* Scripts: the exact figures each stage asserts, where they are not sums the model has; proof bundles and the
  deployment; the epoch's limit of 32 milestones, of which every replaced reservation uses up one. Others make the calls listed in section 3 and no
  more: nobody submits a quote, vote or Safe command that a script signed before its own transaction does; nobody else uses
  the Safe; of an epoch that did not close with the figures a script means, others recognize and authenticate
  nothing, and the script cannot use them either. The scripts that deploy, build the release manifest or verify recorded evidence keep no state.
* Web app: the guided order reads, the readback panel, the export of trees and claims, the forms for funding and
  opening epochs and the funding call made from them, import of closeout files and authorizations, the public
  demonstration that a browser without a saved setup loads by itself (`app.ts:1199-1210`; `LoadDemo` is the same load on a
  click), and two tabs on one device (the docs ask for one).
* Claim packages, receipt evidence, the prover client, the Safe runtime and wallet adapters: stateless validation and
  encoding, or services outside the repository. Two operators sharing one journal file of the settlement runner.

## 8. How the project grew, and what is left

In this order: source ledger; its proofs; tree; target ledger with the invoice book; settlement runner; operator
scripts; web app with participant work and program evidence; proofs about who decided, the treasury and the invoices;
proofs about the books, the tree, the runner, the web app, and the scripts' offers, sends and stages.

What would add most next: an abstract journal of one epoch (allocations appended, checkpoints published), implemented
by `SourceCoordinator` and composed with `WorkTreasury` as its `Source`, to state that the treasury never recognizes
more than the source decided and that a closed epoch ends with an empty reserve; two operators on one journal
file; and the readback and import panels of the web app.
