# TLA+ models of psv

psv verifies x402 payment systems against the chain: a payment system holds a
belief about an order (paid or not), psv reads what really happened on chain and
names the divergence. This directory models the parts of it in which the order
of steps matters, checks them with TLC and proves the central results with TLAPS.

## 1. The system

| Component | State | Operations | Correct when |
|---|---|---|---|
| Reference payment system, `reference_sut/server.py` with `confirmer.py` | `orders`, a backup, the fair price; RPC answers in flight | `quote`, `pay` (submit, wait, confirm), `status`, `backup_ledger`, `restore_ledger`, `reconcile` | a paid order is backed by its own settlement, no order is settled twice, no settlement is lost |
| Live reconciliation, `rails.py` `reconcile_live` | one observation: receipt, pinned reads | a dozen JSON-RPC reads, then a verdict | the verdict is about one block, canonical and deep enough, and true of the one transaction |
| Verdicts, `divergence.py`, `chain.py`, `differential.py` | none | payment and metered verdict, grading of several systems | the verdict names a belief that loses money, and only that |
| Finality gate, `reorg.py` | none; the caller's last reads | `confirmations`, `is_final`, `assess_finality` | what is credited through the gate is never undone, and it is credited in the end |
| CLI and audit trail, `cli.py`, `run_record.py`, `report.py` | a log directory with record files and `runs.jsonl` | `psv reconcile`, `write_run_record`, `verify_run_journal` | an exit with a verdict is audited, records are never lost or overwritten, the journal never names an incomplete record |
| Token, `onchain/src/UpgradeableMockUSDC.sol` | balances, used nonces, event mode, fee | `transferWithAuthorization`, `setEventMode`, `setFeeBps` | one authorization moves funds once |
| RPC client, `anvil.py` | none | calls that time out, fail or are answered too late | a failure is never read as an answer |
| Rail registry, attestation, drift check, `rails.py`; `tools/capture_rail_attestation.py` | reviewed constants | `capture`, `check_rail_drift` | an attestation is true of the block it names, a match is only reported for the reviewed code |
| Ledger diff, `reconciliation.py` | none | `find_unreconciled`, `reconcile_asset_scoped` | every credit maps to one record |
| Helpers: `quote_option.py`, `token_quirks.py`, `safety.py`, `svm_chain.py` | none | pure functions | exact arithmetic, closed case distinctions |
| Load runner, `load.py` | per-stage results | staged, concurrent task calls | every iteration runs once, under an identifier of its own, and the report tells what happened |
| HTTP adapter, `sut.py` | an HTTP client | `quote`, `pay`, `status` | an outcome it reports says what the chain can still do |
| MCP server, post-quantum receipts, payloads, security checks, other tools | none | parsing, forwarding, cryptography | a malformed answer is refused |

How they interact: a caller's `pay` makes the reference system sign as
facilitator, broadcast to the node through `RpcClient`, wait for a receipt and ask
the confirmer for the settlement's log. The token executes the authorization. psv
observes the same chain through `reconcile_live`, compares with the system's
belief through `detect_payment_divergence` and writes a report and a run record.
An operator calibrates a rail with what the capture tool prints; the drift check
and `reconcile_live` rely on that attestation.

What is hard, and where: `pay` runs in a thread pool and has six RPC calls, each
of which can fail after the node has acted; `restore_ledger` exchanges the order
objects under the threads that hold them; `reconcile` compares an old answer with
a moving ledger; `reconcile_live` reads by block number while the chain can be
reorganised between two reads; several invocations write one journal and may be
killed, or have a full disk, at any step. PROJECT.json lists each hazard at its
line.

## 2. Modules

| Module | Models | Steps |
|---|---|---|
| `PaymentLedger` | nothing: the abstract specification of a merchant's ledger | one action per promise |
| `SutAdapter` | `PayResult`, `parse_pay` of `sut.py` | pure operators |
| `ReferenceSut` | `server.py`, `confirmer.py`, the part of `safety.py` and `quote_option.py` they call, and the chain they use; extends `SutAdapter`, implements `PaymentLedger` | one action per stretch of code between two RPC calls |
| `Divergence` | `divergence.py`, `SettlementTruth` | pure operators |
| `ForkingChain` | the token and a chain that grows and is reorganised, as an observer reads it | one action per block, one per kind of reorganisation |
| `LiveReconcile` | `reconcile_live`; extends `Divergence` and `ForkingChain` | one action per JSON-RPC read |
| `SettlementGate` | `reorg.py`, `differential.py` and the callers they are for; extends `Divergence` and `ForkingChain` | one action per JSON-RPC read of a caller |
| `RailCapture` | `capture_rail_attestation.py` and what an attestation pins; extends `ForkingChain` | one action per JSON-RPC read |
| `RailDrift` | `check_rail_drift` of a rail of the registry or of a captured one; extends `RailCapture` | one action per JSON-RPC read |
| `LedgerDiff` | `find_unreconciled`, `reconcile_asset_scoped` | one action per log of the list |
| `LoadProfile` | `run_staged_profile`, `run_profile` | one action per iteration taken, task called and call ended |
| `RunJournal` | `_cmd_reconcile` around its verdict, `run_record.py` | one action per system call that others can see |
| `MC*` | constants and symmetry sets for TLC | |
| `ReferenceSutProofs`, `ForkingChainProofs`, `LiveReconcileProofs`, `SettlementGateProofs`, `RailDriftProofs`, `LedgerDiffProofs`, `LoadProfileProofs`, `RunJournalProofs` | lemmas and theorems | |

Definitions called mutants ("Mutant: ..." in their comment) are plausible errors
in the code, each next to the definition it would replace. They are part of no
specification; they show that each property can fail.

### ReferenceSut

`orders` is `ReferenceSut.orders` restricted to quoted orders; the `rec_` orders
that reconciliation adds carry nothing but their settlement and are the set
`recovered`. `threads[t]` is a request being served: `pc` is the RPC call it waits
in (`submit` reads nonce, gas price and safety facts; `send` broadcasts; `wait`
polls the receipt; `confirm` queries logs) and `answer` what it last returned.
`live` is FALSE when a restore has replaced the order object the thread holds: its
later writes go to an object that no longer is in the ledger.

The chain is a sequence of executed settlement transactions, `mempool` the accepted
ones that are not mined. A transaction is its facilitator nonce, authorization and
one of two gas prices (the node's or the hard coded fallback): with equal nonces a
higher price replaces a lower one. `sent` is a history variable, the order each
broadcast was for. `Faults` names the RPC calls that may fail and how: `sendLost`
is a broadcast that is accepted while its answer is lost. `ConfirmWithoutWaiting` is
the set of values that the flag of this name takes: `SutConfig` is mutable and every
confirmation reads it anew (server.py:196), so one run can have both ways.

Abstractions: amounts appear as "executable" and "unsafe" authorizations (the
constants `Executable`, `Unsafe`) because payer, payee and price are fixed per
server; a log is identified by its transaction and event mode; a block holds one
settlement, as Anvil's automine does it.

`PayResponse` is the body of a thread's last answer and `Outcome(ParsePay(...))` what
a client of `sut.py` makes of it. `OutcomeIsTrue` relates that to the chain: settled
names a transaction that moved the funds, pending names one that was broadcast, and
unsettled names none or one that is mined and has failed or, the drift the
reference system is built to show, has logged another event.

### PaymentLedger

The promise behind the server, without threads, nonces, mempool or RPC: an order gets
paid in one step, by a payment that is on the chain for that order at that moment;
reconciliation adds only what it has seen there; bookings go away only in a restore,
all together. `MerchantLedger` in `ReferenceSut` is the refinement mapping: `received`
are the executed transactions with the orders they were broadcast for, `paid` and
`recovered` the ledger, `fetched` the credit list of a running `reconcile`, `saved` the
backup. Everything else a `pay` does must be a stutter.

### ForkingChain

The hash of block n is the chain's first n blocks, so equal hashes mean equal
ancestors, which is what a real hash commits to. A block carries the state after
it (balances, the authorization's use, fee, code, proxy slot, implementation code)
and has at most two transactions of the kinds in `Kinds`, enough for a race with
the settlement or an upgrade beside it. A reorganisation is seen in one of two ways:
`Drop` is `reorg_to` of `reorg.py`, which drops blocks and leaves the head behind,
also behind a block an observer holds, until `MineBlock` adds the new ones; `Fork`
is a node that has the whole new branch at once, its transactions in one of its
blocks. `Reached` and `Canonical` are what a node answers about a held block: a
number above the head has no block. `peak` is the greatest height so far and
`MaxDepth` how far below it a reorganisation can reach, whether by one cut or by
several in a row. `abandoned` is a history variable, the blocks that were canonical
once; `Flips` says whether a node may go back to one of them. Block 1 is the
attestation's reviewed block.

### LiveReconcile

`obs.pc` is the read the observer is about to make, `reads` what it has read by
block number, `obs.settlement` the block identity it will put into its evidence.
The caller passes balances from some block it saw, an authorization nonce that may
be the wrong one (`exact`), and the payment system's belief. All refusals
(`ChainEvidenceError`, `RpcError`) end in `inconclusive`, exit code 2 of the CLI.
The refusal of a settlement without parent block cannot be reached, since the
anchor block is empty.

### SettlementGate

`reorg.py` and `differential.py` are pure; what makes them right or wrong is when their
arguments were read. Three callers watch one settlement: `sighting` books with the
receipt, as the reference system does, `depth` asks `is_final`, `gate` asks
`assess_finality`. Each reads receipt, head and canonical hash in separate steps, the
hash may be unavailable, and a caller that is refused looks the receipt up again
("re-confirm inclusion"). A head that has fallen behind the settlement gives no
confirmations (reorg.py:40) and no hash. `Grades` puts the three beliefs and the
balances at the head into `run_differential`, `Metered` into `detect_metered_divergence`.

### RailCapture and RailDrift

`cap` is one run of the capture tool: the tagged block's hash, what was read at its
number, the solved EIP-712 domain and the exit code. A view call that fails is "not
exposed" (`TryCall`); the domain is a pair of name and version, a separator the pair
it was computed from. `CapturedRail` is what `render` prints.

`Valid` is `RailAttestation.__post_init__`: the check starts with every attestation
it lets through whose pins are the reviewed ones, or with the captured one, and
`drift` collects the tagged block, the answers and the report. Unlike
`reconcile_live` neither tool re-reads anything at its end; the properties therefore
speak of captures and reports whose block is (still) canonical, and
`MatchMeansReviewed` of the two together: a capture that mixed two branches names a
block that `_verify_review_anchor` no longer finds.

### LedgerDiff

A list is decoded log by log; `None` is a log that `decode_transfer_log` rejects.
Addresses and hashes are numbers because the result is sorted by them. `seen` is the
set of logs so far: a log may come again at any time, and in any order. The module
has no run: its properties are theorems, without a bound on lists or ledgers.
`reconcile_asset_scoped` is the same loop with an asset filter, which decodes every
log before it drops one of another token (`scoped`).

### LoadProfile

Workers take iterations in order; each calls the task in a step of its own, so that
calls overtake one another, and calls end in any order, by returning or by raising.
`calls` and `failures` are history variables, the identifiers the task was called
with and those of the calls that raised. `StandardProfile` gives no profile for the
arguments that `standard_profile` refuses. Latencies and rates are left out,
and so is `FacilitatorTaskPool`, which routes a call by its identifier.

### RunJournal

An append of one line is one `write` call; `journal` is the sequence of what the
appends left, each a line with its newline, the entry without it, or a part of it.
`Readable` is how `verify_run_journal` splits that into lines: an entry after a
piece without a newline is on that piece's line (`journal_glued`). A record file is
created (`O_EXCL`) and completed in separate steps so that a kill can come in
between. A record may say 0 although its invocation exits 2, because printing can
fail after it (cli.py:280); only the way from a verdict as exit code to its line is
a property. Not modelled: threads of one process (their lock makes the append one
step anyway) and the loss of unsynced directory entries in a power failure.

## 3. What TLC checks

| Run | Instance | Shows |
|---|---|---|
| `sut_sequential` | idempotent server, 2 orders, 2 authorizations, 1 thread; failing reads, sends and receipts; expiry and repricing | `SettledAtMostOnce`, `NoStrandedSettlement`, `StatusNamesTheSettlement`, `BookingIsStable`, `SettlementsGetConfirmed`: if pay calls do not overlap, no order is settled twice, no settlement is lost and callers that repeat a pending pay get the order paid |
| `sut_concurrent` | default server, 2 orders, 2 authorizations, 2 threads, failing log queries, replacement by gas price | `TypeOK`, `PaidIsBacked`, `NoSharedSettlement`, `OutcomeIsTrue`, `ImplementsLedger` |
| `sut_reconcile` | a recurring reconciliation job beside pay calls that confirm with and without waiting, 1 order, 2 authorizations of which the token executes one, lost send answers, failing receipts and log queries, event drift, a restore, a reorganisation | `CreditsGetBooked`, `ImplementsLedger` |
| `live_reconcile` | other transfers to the payee in and around the settlement's block, fees, replayed authorization, proxy upgrade, 1 reorganisation of any depth, the head going back or not | `TypeOK`, `OneSnapshot`, `VerdictIsTrue`, `OnlyReviewedCode` |
| `settlement_gate` | 4 blocks, 2 confirmations, 2 reorganisations of depth 1 that may return to an abandoned block or leave the head behind the settlement, a fee | `TypeOK`, `CreditSurvives`, `GradesAreTrue`, `GateCatchesUp` |
| `rail_drift` | a capture with failing views, or every valid attestation; upgrade, patched implementation, redeployment, 1 reorganisation of any depth | `TypeOK`, `CaptureIsTrue`, `ReportIsTrue`, `MatchMeansReviewed` |
| `load_profile` | `standard_profile(2, 4)` with 3 failing calls; a profile with an invalid second stage | `TypeOK`, `EachOnce`, `EvidenceIsTrue`, `RunEnds` |
| `journal_audit` | 3 invocations, 2 names, a kill, every failure, a short append | `TypeOK`, `AuditLossIsConfined`, `EntriesResolve`, `RecordsKept`, `AllExit` |

Runs that must fail, each a place where the code does not do what its comments,
docs or tests say (details under "findings" in PROJECT.json):

| Run | Property | What happens |
|---|---|---|
| `sut_logs_lost` | `NoStrandedSettlement` | `pending_tx` is cleared before the log query; the query fails and the paid order is forgotten |
| `sut_double_booking` | `NoDoubleBooking` | reconciliation books a credit whose `pay` is still being confirmed |
| `live_sweep` | `VerdictIsTrue` | the payee spends in the settlement's block: `underpaid_credit` for a full payment |
| `journal_glued` | `EntriesStayIntact` | a short append leaves no newline; the next invocation exits with its verdict and its line cannot be read |

Known limits of the code about which nothing is claimed, and which have no run of
their own: `SettledAtMostOnce` is for pay calls that do not overlap, since two calls
for one order can both pass the idempotency checks of server.py:152-171 before either
has broadcast; `CreditsGetBooked` is about credits with a legacy Transfer log, since
`reconcile` looks for that event only (server.py:272-276) and never finds the credit
of a token whose event has drifted, although docs/sc1-abi-drift.md:113-114 and
docs/d3-reconciliation.md:45-46 count on it; and two calls can be at one facilitator
of a pool although there are as many facilitators as workers (load.py:184).

Bounds. Two pay calls, two orders and two authorizations are the smallest instance
in which calls share an order, an authorization or a facilitator nonce; `MaxAttempts
= 2` allows one retry of a broadcast order. A broadcast whose answer is lost is
checked with one thread (`sut_reconcile`); the theorems cover it with any number.
Three blocks hold the anchor, the settlement's parent or the settlement, and a
confirmation on top; the reads themselves are never bounded. `settlement_gate` has
one block more, so that a settlement can be replaced, mined again and get its two
confirmations; `MaxDepth = 3` of the other runs bounds nothing at their height.
Rollbacks of an upgrade are left to the theorems: with them `rail_drift` takes four
times as long. Orders, authorizations and threads of
`sut_concurrent` are only compared for equality, so permuting them is sound. Three
invocations for two names make the names run out.
`MaxClock`, `MaxRestores`, `MaxReorgs`, `MaxHeight`, `MaxShort`, `MaxKills` and
`MaxFailures` bound the environment only. Deadlock is not checked where the
environment's bounds let the system come to rest.

Fairness. `FairSpec` of `ReferenceSut`: the node mines what it accepted; a running
request goes on, because every RPC call has a timeout; a receipt or log query that
is made again and again succeeds at some time (strong fairness: faults do not last
for ever); callers repeat a pay that was answered `settlement_pending`, which is
what that answer asks of them; and the reconciliation job is run again and again.
`Mine` is fair, `Reorg` is not. `FairSpec` of `SettlementGate`: blocks keep coming,
the caller polls, and the block at the settlement's height is not unavailable for
ever. `Spec` of `RunJournal`: a process that is not killed takes its next step,
since file system calls return. `Spec` of `LoadProfile`: the runner and its workers
go on, and a task call ends or raises, since its RPC calls have timeouts. Safety
properties use no fairness.

## 4. What is proved

For all values of the constants, with TLAPS:

| Theorem | Statement | Argument |
|---|---|---|
| `ReferenceSutProofs!TypeCorrect` | `[]TypeOK` | `IdentityInv`: a call in flight holds the order, authorization, transaction and receipt its next step uses, and a booking is made with the hash the call waited for; backup and restore carry whole ledgers |
| `PaidOrdersAreBacked` | `[]PaidIsBacked` if `MaxReorgs = 0` | `BackedInv`, see below |
| `SettlementsAreNotShared` | `[]NoSharedSettlement` if `MaxReorgs = 0` | from `BackedInv`: a transaction has been broadcast for one order only |
| `ServerImplementsLedger` | `ImplementsLedger` | `SentInv`; every action maps to one of `PaymentLedger`'s or to a stutter |
| `OutcomesAreTrue` | `[]OutcomeIsTrue` if `MaxReorgs = 0`, `TRUE \notin ConfirmWithoutWaiting`, `IdempotentPay => OneCaller` | `TruthInv`: what a call carries towards its answer is already true, and stays so |
| `StatusIsTheSettlement`, `BookingsAreStable` | `[]StatusNamesTheSettlement`, `BookingIsStable` if `IdempotentPay`, `OneCaller` | `NamedInv`: a paid order is in no call's hands, and an order in flight names the call's transaction |
| `NeverSettledTwice`, `NoSettlementIsStranded` | `[]SettledAtMostOnce`, `[]NoStrandedSettlement` if `Undisturbed` | `AccountInv`: each broadcast has reverted or is held by a record or a call, and at most one per order has not reverted |
| `LiveReconcileProofs!TypeCorrect` | `[]TypeOK` | `TypeInv` adds that the anchor block is empty, so a settlement has a parent |
| `VerdictsAreFinal` | `[]VerdictIsFinal` | `FinalInv`: the last comparison saw the block canonical, the head read before its receipt was `MinConfirmations - 1` blocks above it and `TagLag` below the peak, which never goes down; `DeepStays`: no cut reaches it |
| `EvidenceIsOneSnapshot` | `[]OneSnapshot` if `~Flips` | `SnapInv`: a held block is canonical and all reads are its own, or it is abandoned for ever and the last check fails |
| `VerdictsAreOnReviewedCode` | `[]OnlyReviewedCode` if `~Flips` | `TrueInv`: every read that is passed is the held block's and has passed its check |
| `VerdictsAreTrue` | `[]VerdictIsTrue` if `~Flips`, `"sweep" \notin Kinds` | `TrueInv` with `Attributed`: a block without another transfer of the payee changes its balance by what the settlement credited |
| `SettlementGateProofs!TypeCorrect` | `[]TypeOK` | the peak never goes down, so a held block's number and head stay below it |
| `CreditsSurvive` | `[]CreditSurvives` | a credited block is canonical and at least `MinConfirmations - 1` blocks below the peak, where no cut reaches (`DeepStays`); it needs no `~Flips` |
| `GradingIsTrue` | `[]GradesAreTrue` if `Quiet` | `BankInv`: at every block of the chain the balances are the first block's, moved once if a settlement has succeeded up to there |
| `RailDriftProofs!TypeCorrect` | `[]TypeOK` | the peak never goes down, so a tagged number is always one the chain has had |
| `CapturesAreTrue`, `ReportsAreTrue` | `[]CaptureIsTrue`, `[]ReportIsTrue` if `~Flips` | `DriftInv`: a tagged block is canonical and all answers are its own, or it is abandoned for ever |
| `MatchesMeanReviewed` | `[]MatchMeansReviewed` if `~Flips` | `DriftInv` holds the reviewed block too: found on the chain by the anchor lookup, it was never abandoned, so the capture's answers are its own |
| `LedgerDiffProofs!TypeCorrect` | `[]TypeOK` | from `DiffInv` |
| `InconsistentListsAreRefused` | `[]FailsClosed` | `DiffInv`: the observations are exactly the logs in scope, and a list that is still being read is consistent |
| `MissingCreditsAreExact` | `[]DiffIsExact` | `DiffInv` when the list ends, and the definition of a sorted list |
| `ResultOrderIsTotal` | `[]OrderIsTotal` | two credits of one chain with equal keys have one identity, and an identity is observed once |
| `LoadProfileProofs!TypeCorrect` | `[]TypeOK` | from `LoadInv` |
| `IdentifiersAreUnique` | `[]EachOnce` | `LoadInv`: the calls made are all up to the offset and those iterations of the running stage that were taken and are not still to be called |
| `ReportsAreTrue` | `[]EvidenceIsTrue` | `EvidenceInv`: the offset is the size of the earlier stages, so no later failure has an identifier of theirs |
| `RunJournalProofs!TypeCorrect`, `JournalLinesResolve`, `RecordsAreKept` | `[]TypeOK`, `[]EntriesResolve`, `RecordsKept` | `TrailInv`: a writing run owns its file, every append was for a complete file |
| `VerdictsAreAudited` | `[]AuditLossIsConfined` | `AuditInv`: a run that will exit with a verdict has appended a whole line of its own |

`PaidIsBacked` is not inductive: what `_confirm` writes is what the thread carries,
and what a restore brings back is what a backup held. `BackedInv` therefore says
that a waiting thread's transaction was broadcast for its order, that a confirming
thread's receipt is the block of that transaction, that paid orders in the ledger
and in the backup have their settlement on chain, and that the node never takes one
transaction twice (`SentOnce`): that is why two orders cannot share a hash. With
reorganisations the theorem is false by design: the reference system books at the
first sighting (docs/r-reorg-finality.md).

The refinement needs none of that: `PaymentLedger` speaks of the moment of booking.
`SentInv` says of that moment only that a call waits for a transaction broadcast for
its own order and that the chain holds broadcast transactions in the order of the
facilitator's nonces, so that the receipt a call has read is that transaction's, or
is gone; this holds across reorganisations, restores and orphaned calls.

Conditions on the other results of the server, and why they are there:
- `OneCaller` (one `pay` in flight) for `StatusIsTheSettlement` and
  `BookingsAreStable`: a second call for the order overwrites `submitted_tx`, and on
  an idempotent server, for `OutcomesAreTrue`, `pending_tx`. Without idempotence a
  call answers only for its own broadcast, and any number may overlap.
- `TRUE \notin ConfirmWithoutWaiting` for `OutcomesAreTrue`: the premature
  confirmation answers "unsettled" for a transaction that is still in the mempool, by
  design.
- `Undisturbed` for `SettledAtMostOnce` and `NoStrandedSettlement` is the conjunction
  of the conditions of `sut_sequential` that are not sizes: `IdempotentPay`,
  `OneCaller`, `TRUE \notin ConfirmWithoutWaiting`, no reorganisation, restore or
  drifted event, and neither a lost answer to a broadcast (`sendLost`) nor a failing log query
  (`logs`); reads, sends and receipts may fail. Each excluded event strands or
  repeats a settlement: `sut_logs_lost` shows it for the log query, and after a
  restore the backup does not know what was broadcast since.

`AccountInv` is needed because neither property is inductive: that a new broadcast
is safe depends on the last one having reverted, which the code concludes from a
receipt it read two steps ago; the invariant says who still knows of each broadcast
in between (the record's `pending_tx`, or the waiting or confirming call).

`~Flips` is needed too: `reconcile_live` compares the block's identity before and
after its reads, and a node that leaves the block and comes back in between passes
both comparisons with reads of another branch. `ForkingChainProofs` holds what all
observers need: equal hashes mean equal blocks, a step of the chain either leaves a
block canonical or abandons it, no step removes a block `MaxDepth` or more below
the peak (`DeepStays`), and what a block does to the payee's balance is
attributable to the transfers it logs. `"sweep" \notin Kinds` excludes a spend of
the payee in the settlement's block, for which `VerdictIsTrue` is false
(`live_sweep`); gifts, replays, fees and upgrades are allowed. `Quiet` lets any
administrative act and the settlement change the token, but no other transfer:
`run_differential` is given balances, and has no way to tell a gift from the
settlement. `BankInv` speaks of every block and not of the head only, because a
reorganisation cuts the chain anywhere.

`StageStart`, the first identifier of a stage, is the number of iterations before it
(a cardinality, not a recursive sum, so that it can be reasoned about); `EvidenceInv`
carries that this set is finite.

Assumptions: the `ASSUME`s of the modules give constants their types and keep `None`
apart from records and ledgers; the amount asked of a grading may be missing
(`Required = None`, as in `differential.py`). TLC evaluates them in every run.

Only proved: `VerdictIsFinal`, which says something only where no reorganisation
reaches an observed block, and so nothing in the instance of `live_reconcile`; and
the properties of `LedgerDiff`.

Only model-checked: liveness (`CreditsGetBooked`, `SettlementsGetConfirmed`,
`GateCatchesUp`, `AllExit`, `RunEnds`), which is out of the prover's reach. Every
other property of a passing run is a theorem.

## 5. Not modelled

ABI encoding, signature recovery, key handling, redaction, report rendering,
argument parsing, the format checks on the fields of RPC and HTTP answers (they end
in the same error as a failed call) and the maintenance tools: encodings, static
checks and cryptography without state. The MCP server forwards to operations
modelled here. `token_quirks.py`, `svm_chain.py`, `simulate_attacker` and the
post-quantum receipts are pure conversions whose reference definition would be the
code again. The number a log has in its block, part of a settlement's identity, does
not change in a reorganisation here. PROJECT.json gives the reason for each part.

## 6. Plan

In order of what would hurt most if it were wrong. Done: `ReferenceSut` with the
client's reading of its answers and the abstract ledger it implements,
`LiveReconcile`, `SettlementGate`, `RailCapture` and `RailDrift` on `ForkingChain`,
`RunJournal`, `LedgerDiff`, `LoadProfile`, and the proofs of section 4. Left:

1. The log index in a settlement identity across a reorganisation
   (`reconciliation.py:71`), with `LedgerDiff` over `ForkingChain`.
2. Theorems with weaker conditions: `NoStrandedSettlement` with a lost answer to a
   broadcast, for orders that a later `reconcile` recovers; `MatchMeansReviewed` and
   `OneSnapshot` with `Flips`, for an observer whose block never left the chain.
