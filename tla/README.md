# Aspis: TLA+ models and proofs

Aspis is a private-payment system on Solana. Three on-chain programs hold the
money and its rules; host-side crates hold the wallet, the relayer and the
deployment tools. This directory models the parts whose correctness depends on
order: who may do what, after what, how often, and what a crash, a fork or a
late transaction leaves behind. TLC checks the models on small instances, and
TLAPS proves the most important properties for every value of the constants.

Paths below are relative to `src/`.

## 1. The system

| Part | State | Operations | What makes it hard |
| --- | --- | --- | --- |
| **Registry** `programs/aspis-registry` | one registry account per Pool (authority, generation, pause, frozen), one entry account per profile and release | initialize, schedule, activate, retire, pause, unpause, freeze | signed instructions delivered late or twice; retirements that name each other; u64 limits |
| **Pool** `programs/aspis-pool` | note tree, root-history pages, nullifier markers, token vault, prepared plans | initialize, deposit, private transfer, withdrawal, prepare, settle, cancel | plans prepared against a state that has moved on; page rollover; notes that share a nullifier; the verifier changing between prepare and settle |
| **Pair forest** `programs/aspis-pool/src/pair_forest.rs` (feature-gated) | eight lanes, each a tree of note pairs with its own pages; checkpoints over all lanes | initialize, deposit, checkpoint, spend | a spend is proved against a checkpoint and applied to a lane that has moved on |
| **Verifier** `programs/aspis-verifier` | proof accounts, single-note pools with nullifier markers, authorization receipts | create, upload, seal, verify, pay, close; receipt initialize, finalize, close | accounts changed, closed, revived or credited between two instructions, or inside one transaction |
| **Relayer** `crates/aspis-pool-wallet-v1` (`relayer*.rs`, `operator_*.rs`, `durable_state.rs`) | a queue file, an execution journal file, their copies in memory | admit, cancel, requeue, advance by one step, change policy, open | crashes between any two steps; replaces that fail half-way; lost sends; forks; expiry |
| **V1 wallet** (`finalized_indexer.rs`, `scan_state.rs`, `durable_state.rs`, `durable_witness_state.rs`) | scan cursor with notes and plans in one file, witnesses in another | ingest a block, roll back, prune, store a delivery, reopen | forks behind recorded spends; two files that must agree after a crash |
| **V2 wallet** (`lane_forest_wallet_txn_v2.rs`, `wallet_monotonic_v2.rs`, `wallet_v2_runtime.rs`) | one file, an external monotonic store | activate, apply a finalized operation in three phases, tentative sightings, recover | lost answers of a compare-and-commit; power loss; an old copy put back |
| **Migration** (`wallet_store_migration_v2.rs`, `wallet_populated_migration_v2.rs`) | authority journal, tombstones in the legacy stores, target file | prepare, install, commit ownership, retire, recover | a legacy process that goes on writing |
| **Mainnet executor** `xtask` (`spend_devnet/v5.rs`, `spend_mainnet_journal.rs`) | a hash-chained journal of signed wires, an evidence file | send, reconcile, replace, resume, complete | a send whose answer is lost; a wire that lands late; a stop at any step |
| **Statement, core, prover** `crates/aspis-statement`, `aspis-core`, `aspis-prover` | none | pure computation over fields | soundness of a proof system, treated in Lean under `AspisFormal` and `aeneas-verif` |

The parts interact along these seams. The Pool reads the Registry on every
spend, and again when a prepared plan settles. The Pool reads the Verifier's
receipts when it prepares and when it settles. The Relayer and the mainnet
executor submit through the cluster and learn of the result only by observing
it. The wallets follow the finalized chain; the migration hands the V1 files
over to the V2 file.

`PROJECT.json` lists every part with its status, and every hazard at the line
where it bites.

## 2. Modules

| Module | Models |
| --- | --- |
| `VerifierRegistry` | the Registry program and the Pool's reading of it |
| `PoolNotes` | notes, values and what a spend may append |
| `PoolV1` | the Pool program with direct and prepared spends, and its environment |
| `PairForest` | the lane forest: deposits, checkpoints and spends |
| `ShieldedLedger` | the abstract specification: what a Pool promises |
| `PoolV1Ledger` | the refinement mapping from `PoolV1` to `ShieldedLedger` |
| `VerifierAccounts` | proof accounts, single-note pools, markers, receipts, and transactions of several instructions |
| `RelayerExecution` | queue, journal and coordinator of the relayer, with the cluster |
| `MerkleFrontier` | the incremental Merkle tree and its witnesses, with a reference tree |
| `WalletScan` | the V1 wallet file and witness journal over a forking chain |
| `MonotonicStore` | the external compare-and-commit store (external code, from its trait) |
| `WalletChain` | the finalized chain as the V2 wallet applies it: terminals, lanes, notes |
| `WalletTransaction` | the V2 wallet file, its coordinator and its store |
| `WalletLedger` | the abstract specification: a log of operations that only grows |
| `WalletMigration` | the handoff from the legacy stores to the V2 file |
| `MainnetExecution` | the mainnet executor, its journal and the cluster |
| `MC*` | instances for TLC |
| `*Proofs` | theorems |

Definitions keep the names of the functions they model, without the version
suffix. Each model has a few definitions marked *Mutant* or *Faulty variant*:
what the handler would be with one plausible mistake. No specification uses
them; they are there to show that the properties notice the mistake.

### VerifierRegistry

`processor.rs` of the registry program. An instruction is one action: Solana
executes it atomically, and an error changes nothing. `Governed` is the part
that all governance handlers share: authority, generation, not frozen, and the
increment. The history variables `scheduled` and `applied` record when an entry
was scheduled and which signed instructions took effect. The environment moves
the clock, upgrades programs and revokes upgrade authorities. Constant `Family`
selects the V1 accounts or the V2 accounts, which also attest that the deployed
program cannot be upgraded. `authenticate_verifier_selection` is the Pool's test
of whether it may use an entry.

### PoolV1

`processor.rs`, `transition.rs`, `history.rs`, `vault.rs`, `nullifier.rs`,
`anchor.rs` and `prepared_settlement*.rs` of the Pool. One handler is one action.

* The tree is the sequence of its leaves; a root is the leaf sequence it commits
  to. This takes hashes to be injective. `next_leaf_index`, which is the root
  sequence as well, is the length.
* A page is `Absent`, `Zeroed` (created and not written) or `Written` with its
  roots. A plan carries the images it was prepared from and those it will write.
* A note's serial stands for its owner and salt. The nullifier in `format.rs`
  does not depend on the value, so two notes may share it; the models allow it.
* A proof is accepted exactly when the payment relation holds of its statement.
  Receipts appear and are closed at any time, and the set `active` of releases
  that the Registry lets the Pool select changes at any time. This is weaker
  than what the Verifier and the Registry do, so what holds here holds with them.

`ShieldedLedger` has three variables, notes, spent serials and custody, and
three actions, deposit, spend and donate. `PoolV1Ledger` states that the Pool
implements it.

### PairForest

`pair_forest.rs` of the Pool with `pair_forest_accounts.rs`, `pair_trace.rs` and
`v7_pair_forest_dispatch.rs`. A lane is the sequence of its pairs, with root
pages of its own; the lane of a deposit follows from its commitment and that of
a spend from its nullifier. Any caller may take a checkpoint when a lane has
progressed since the last one. A spend names a retained checkpoint for the note
and the live snapshot of the lane it appends to; `verify_statement` is what the
verifier makes of the two. The refinement maps the notes of all lanes to the
ledger's.

### VerifierAccounts

`lifecycle.rs`, `atomic_payment.rs`, `v5_full_transaction.rs`,
`v7_transaction.rs` and `v7_pool_receipt.rs`. An account is its owner, its
lamports and its data. A transaction is a sequence of instructions over a
working copy that is committed as a whole, with the runtime's rent check and its
purge of empty accounts, or dropped. So an account may be paid out and credited
again before it is purged. A proof is bytes that prove one statement under one
profile; bytes are a sequence of chunks.

### RelayerExecution

`durable_state.rs` (the queue), `relayer_execution_journal.rs`,
`operator_execution.rs` (the coordinator) and `relayer_execution_port.rs`. Each
store is a file and a copy in memory. A replace makes the new image the file and
then the copy; with `ReplaceFaults` it may fail after the rename, which leaves
the old copy in use, as the code does. `advance_relayer_execution_v1` makes one
step per call, and each of its branches is an action. Observing a signature takes
two actions, because the code reads the status first and the block height by a
second request, and the cluster moves in between. A finalized status becomes an
outcome only when its block joins the scan state (`JoinsScan`): the block must be
the head of the scan, or the next one, which the join ingests. `scanned` is the
height of that head; `ScanBlock` is the caller, which scans with the same state
and may go past a block that was never joined. `Crash` may happen in any state;
`open_or_create` restarts from the files, possibly under a startup receipt with a
later checkpoint. The cluster lands transactions, leaves forks and
finalizes blocks.

`validate_relayer_state` has the limits that a start checks. The code also
checks every entry by itself: unique ids, and a plan and an admission that agree
with each other. The queue is a function of the request, so ids are unique here,
and an entry is written once, from the plan and the admission just made; a
tampered file is out of scope.

Not in this model: fees, balances and signers' identities (taken to be as the
policy requires), the bytes of messages (a transaction is its request and the
last valid height of its blockhash), and disagreement between RPC providers (the
agreed answer is one honest answer, possibly old). The scan state survives a
restart and is not pruned. Callers pass the policy that the queue holds.

### WalletScan and MerkleFrontier

The chain is a tree of blocks given as a constant; a block is a sequence of
deposits, transitions and plan steps. `IngestBlock` hands any block to the
wallet, which accepts it as the next one, as a replay, or as the first block of
another branch after a rollback to their common ancestor. It writes the wallet
file; the witness journal is written by a second action, and a crash or a failed
replace may come between. `WalletFits` and `JournalFits` are the limits that the
two encoders impose, in numbers of records and in bytes; a store refuses what
would exceed one. `Rebuilt` and `MissingStep` are the caller's procedure after a
restart, taken from `tests/v7_scanner_durable_restart.rs:676`. `MerkleFrontier` is the tree itself: `append_one` and
`append_two` over a frontier of left siblings, and the update of the paths of
tracked notes. `StoresFollowBranch` compares its roots and paths with
`ReferenceNode`, the tree computed from the leaves.

### WalletTransaction, WalletChain, MonotonicStore, WalletLedger

The image of the V2 file is its records, the tentative sightings and the history
of generations that the store compares. A replacement is four actions: reserve
in the store, rename, sync the directory, commit in the store. `disk` is what
survives a power loss and `view` what a process reads. Any of the four may
fail or lose its answer. A failure poisons the handle; opening again
(`reconcile_monotonic`) commits or aborts the reservation by what the file is.
`RestoreBackup` puts an older copy of the file back. The model is of protected
wallets, those with a store. `WalletLedger` is the
specification for readers: a log that is extended by one operation at a time.

### WalletMigration

One directory holds the legacy stores, the authority journal and the target. A
rename is visible at once and durable after the next sync; a power loss keeps a
prefix of the renames since the last sync. A legacy store is opened in three
steps, as its constructors do: look at the authority, take the lock, look again.
The migrator goes through the phases Prepared, TargetInstalled,
OwnershipCommitted and LegacyRetired, each a guarded write, and can be restarted
in each; a phase may only be written again or followed by the next
(`PhasePersisted`). Recovering a finished handoff takes two steps: the target is
read under its lock (`ReadBoundTarget`, the image is `seen`), and after the lock
is dropped the store is reconciled by what was read and the tombstones are
verified (`VerifyRetired`). The V2 wallet may start in between; it updates its
file in three steps, reserve, rename, and sync with commit. `acked` is what
legacy callers were told is written.

### MainnetExecution

`spend_devnet/v5.rs` and `spend_mainnet_journal.rs`. A payment is a series of
steps (create, upload each chunk, seal, pay); a wire is a step and a signing
attempt. The executor's control is `proc.at`; each RPC read and each journal
append of `reconcile_journal_wire` is an action of its own, so the cluster may
move between any two. The journal is the state its reducer computes. A run ends
with three writes: the evidence file, the journal's checkpoint that names it, and
`run_completed`; `closing` says how far the last two are, and a later start makes
the ones that are missing (`RecoverCommitted`). `anchored` says whether the lock
anchor matches the last entry; a stop between the two writes tears them apart. The cluster includes wires
while their blockhash is valid, drops unfinalized blocks and finalizes.

## 3. What the runs check

| Run | Instance | Properties |
| --- | --- | --- |
| `registry_v1` | one profile, two releases, two statement versions, u64 of 0..5 | a retired entry leaves a usable replacement; activation delay; an instruction applies at most once; the last selectable release is never taken away |
| `registry_v2` | upgradeable programs, two hashes | the code that is selected is the code that was attested |
| `pool_direct` | 4 leaves, pages of 2, three serials, values 0..2, vault up to 4, a forged anchor | solvency, refinement of the ledger |
| `pool_plans` | 3 leaves, pages of 3, two slots, two plans at a time, pauses | every root retained, no deposit blocked, no note stranded, dead plans never settle, a pause stops spending |
| `pair_forest` | two lanes of 4 pairs, pages of 3, two checkpoints, values 0..3, a foreign root | refinement of the ledger; a checkpoint is a state the forest was in; a note under a checkpoint can be spent |
| `verifier_accounts` | two keys, two users, three proofs of rival payments, transactions of two instructions | lamports are conserved and live accounts funded; a verified receipt is for a proof of its statement; the payments of a pool form one chain and spend a nullifier once; an account goes forward in its life |
| `relayer_faults` | two requests, every policy, limits of 2, crashes and replaces that fail half-way, no requeues | what is sent is journaled; outcomes are true; the queue on disk can be opened; a signed request without outcome is held in it |
| `relayer_service` | one request, limits of 1, pauses, requeues, a scan that may run ahead, fairness | outcomes are durable; a signed request is reconciled |
| `wallet_scan` | 8 blocks in three branches, tree of depth 2, files for 2 notes, 3 plan records and 3 blocks, 3 faults | both files are what a straight scan of their branch gives; only want of room makes a store refuse; a restart brings the files together again while the journal has room |
| `wallet_transactions` | 3 blocks, two lanes, a sighting on a fork, 2 faults of five kinds, fairness | a lane's history has no hole; what is staged is rolled forward; refinement of the log |
| `wallet_migration` | three legacy stores, 2 faults of three kinds, fairness | one owner; no acknowledged update lost; the handoff never goes back and reaches its end, with a recovery repeated beside the wallet in use |
| `mainnet_execution` | one chunk, two retries, blockhashes valid for one more block, one resumption, fairness | what the journal says is so; a wire is replaced only when it cannot succeed; each authority to send is used once; a sealed proof is complete; reconciliation ends |

*Bounds.* They are chosen so that the hard cases happen. In the Pool a spend
crosses a page boundary, the tree becomes full, the vault reaches its maximum,
two plans compete for one position and for one note, and a window closes with a
plan inside it. In the forest both lanes roll over and fill up, and one lane
moves between a checkpoint and the spend that uses it. In the Registry the
generation reaches its maximum and an activation slot would overflow. In the
Relayer a blockhash expires, a block is forked away before it is final, a
request finishes and comes back, the limits of the queue are reached, and a
landed block is behind, at and ahead of the scan. In the
V1 wallet the fork point lies before a spend, a plan is prepared on one branch
and cancelled on another, and a prune passes the fork point. Its limits are
set so that the size of the wallet file, and the blocks, appends and size of the
journal, are exceeded on the longest branch unless it is pruned, and so that a
prune can make the journal too long, because a tracked path is longer than the
block it replaces; the numbers of notes and of plan records are reached and not
exceeded. Record sizes are those of the code, with 100 bytes for a sealed note. In the V2 wallet
and the migration two faults suffice for a fault during the recovery from a
fault. In the executor a wire lands in its last block, expires, is forked away,
or lands while its successor is being considered. Three cases are beyond the
bounds and rest on the proofs: two entries that are retired in each other's
favour, which takes more generations than `registry_v1` has
(`RetirementKeepsAVerifierHolds`, `SelectionNeverLostHolds`); two payments of one
pool in a row, which take more lamports than `verifier_accounts` has
(`SpendsAreSerialHolds`); and the order of several chunks, of which
`mainnet_execution` has one (`SealedIsCompleteHolds`). Solvency and the
refinement of the ledger are run without prepared plans (`pool_direct`); with
plans they are proved (`PoolIsSolvent`, `PoolImplementsLedger`). Model values are symmetric only in
runs without liveness properties. Deadlock is checked for the Relayer;
the other models stop at a bound: time, capacity or faults used up.

*Fairness.* Four runs assume some. `relayer_service`: the operator restarts the
process and keeps calling `advance_relayer_execution_v1` as its comment tells
callers to, each request to the providers is answered in the end, and the
cluster produces and finalizes blocks; strong fairness is needed for the
coordinator's steps, since crashes and forks disable them again and again. The
caller keeps scanning while the block of a signed transaction is out of the
join's reach; it is not assumed to wait for the join once it is in reach.
`wallet_transactions`: the wallet is opened again and
`advance_recovery_v2` is called until it is done, which is what `start_v2` does.
`wallet_migration`: the operator repeats the recovery call. `mainnet_execution`:
a running executor goes on, and the chain produces and finalizes blocks; a
stopped one need not be started again. Nothing is assumed about delivery in any
of them: a wire that is never delivered expires.

## 4. Disagreements between the code and its documentation

While modelling, the code turned out not to have some properties that its
comments or documents state. Each one is written down as a definition that no
run checks. Adding it to the configuration named here makes TLC show a behaviour
of the code that violates it.

| Property | Add to | What the repository says | What the code does |
| --- | --- | --- | --- |
| `QueueReopens` (with `OperatorRequeues = TRUE` and `RateWindow = 1`) | `RelayerFaults.cfg` | `validate_relayer_state_v1` requires `queue <= max_queue_depth` (`durable_state.rs:1770`) | `requeue_inflight_v1` does not look at that limit. It writes a queue that the next start refuses. |
| `TerminalFailureIsFinal` | `RelayerService.cfg` | "A signed transaction becomes terminally failed only after its blockhash validity window has passed under an authenticated multi-provider view" (`relayer_execution_journal.rs:544`) | The status is read before the height. A transaction that lands between the two reads is recorded as failed. |
| `DuplicatesAreIdempotent` | `RelayerService.cfg` | "Duplicate request ids are idempotent." (`docs/pool-v1-operator-runbook.md:56`) | Only live queue entries are compared. A completed request is admitted again and stays until it is cancelled. |
| `OutcomesAreDurable` | `RelayerFaults.cfg` | "callers must discard any cached state, reopen the file" (`durable_state.rs:149`) | The stores return the error and keep the old copy. Their next write takes a recorded outcome off the disk. |
| `EverySignedIsReconciled` | `RelayerService.cfg` | "reconcile the exact signature through finalized confirmation or a recorded terminal failure" (`docs/pool-v1-operator-runbook.md:53`) | A finalized transaction is recorded only by joining its block to the scan state. Once the scan has gone past that block the join refuses it as stale at every call, and a signature that is found never expires. |
| `EveryRestartRecovers` | `WalletScan.cfg` | "retained finalized evidence repairs the witness deterministically before normal restart" (`docs/research/v7-wallet-security-close-20260830.md:116`) | The wallet file is committed first. When the witness journal is at a limit it refuses the same block, at each repair as well. |
| `FinishedWalletReopens` | `WalletMigration.cfg` | "Repeating this function is an exact idempotent recovery." (`wallet_populated_migration_v2.rs:503`) | Recovery reads the target and drops its lock before it reconciles the store. A wallet that starts in between and reserves its next image loses the reservation; its renamed file is then refused by the store, now and at every start. |
| `StoppedRunsReopen` | `MainnetExecution.cfg` | "Crash-resumable executor" (`docs/code-map.md:83`) | A journal entry and its lock anchor are two writes. A stop between them leaves a journal that `reopen` refuses (`spend_mainnet_journal.rs:747`). |
| `RetryIsIdempotent` | `WalletTransaction.cfg` | "retrying the same immutable ASRJ record is idempotent" (`wallet_v2_runtime.rs:310`) | A retry seals the delivered note under a fresh nonce. It differs from the record and is answered by a conflict. |
| `FileAlwaysReconciles` | `WalletTransaction.cfg` | "Recovery is deterministic roll-forward" (`lane_forest_wallet_txn_v2.rs:15`) | Opening commits the reservation of a renamed file without syncing the directory. A power loss then leaves a file older than the store, which is refused. |
| `NoTerminalSkipped` | `WalletTransaction.cfg` | "New progress must be exactly the next terminal, never a later one." (`tx_v1_finalized_rpc_v2.rs:368`) | This holds inside a block. The first terminal of a later block is accepted while terminals of the head block are missing. `LaneHistoryComplete` shows what the leaf index still guarantees. |
| `DurablePreparedRollsForward` | `WalletMigration.cfg` | "Deterministically roll a durable ASMG `Prepared` or later phase forward." (`wallet_populated_migration_v2.rs:500`) | Before the target is installed a legacy store may still change, and the recovery then refuses. |
| `AbsenceIsConclusive` | `MainnetExecution.cfg` | "Durably revokes submission authority for a wire proven expired and absent from transaction history." (`spend_mainnet_journal.rs:483`) | An original wire has no bound expiry. A blockhash younger than the finalized block reads as expired, and the wire can still land. |

One more is not a state property: the runbook asks to "automatically pause new
signing" (`docs/pool-v1-operator-runbook.md:97`), while the signing step compares
policy ids and does not look at the pause. What is signed under a pause is not
sent: the submission step does look.

## 5. What is proved

| Module | Theorem | States |
| --- | --- | --- |
| `VerifierRegistryProofs` | `RegistryInvariant`, `RegistryTypes`, `RetirementKeepsAVerifierHolds`, `ActivationDelayHolds`, `AppliedAtMostOnceHolds`, `FrozenForeverHolds` | the registry's governance |
| | `SelectedCodeIsAttestedHolds`, `SelectionNeverLostHolds` | what the Pool selects is what was attested; a selectable release stays or is replaced |
| `PoolV1Proofs` | `PoolInvariant`, `PoolTypes`, `EveryRootIsRetained`, `DepositIsNeverBlocked`, `PauseStopsEverySpend`, `DeadPlansStayDead` | the Pool's history and its plans |
| | `PoolImplementsLedger`, `PoolIsSolvent`, `NotesStayWithdrawable` | the Pool implements `ShieldedLedger`, can pay every unspent note, and accepts its withdrawal |
| `PairForestProofs` | `ForestInvariant`, `ForestCheckpointsCoherent`, `ForestImplementsLedger`, `ForestNotesNeverStranded` | the forest's checkpoints, that it implements `ShieldedLedger`, and that its notes stay spendable |
| `RelayerExecutionProofs` | `RelayerInvariant`, `SentIsAlwaysJournaled`, `OutcomesAreAlwaysTrue`, `SignedIsAlwaysHeld`, `OutcomesStayDurable`, `QueueAlwaysReopens` | the relayer's stores; `OutcomesStayDurable` without replace faults, `SignedIsAlwaysHeld` and `QueueAlwaysReopens` without operator requeues |
| `WalletTransactionProofs` | `WalletInvariant`, `ReadsNeverRollBackHolds`, `LaneHistoryCompleteHolds`, `WalletImplementsLedger` | the V2 wallet's log |
| `WalletMigrationProofs` | `MigrationInvariant`, `ReportedUpdatesSurvive`, `WalletHasOneOwner`, `DurableHandoffAdvances` | the handoff from the legacy stores |
| `VerifierAccountsProofs` | `AccountsInvariant`, `AccountsAreSoundHolds`, `VerifiedReceiptsAreTrueHolds`, `SpendsAreSerialHolds`, `AccountsAdvanceHolds` | lamports, receipts, payments and the life of the accounts |
| `MainnetExecutionProofs` | `ExecutionInvariant`, `JournalIsSoundHolds`, `OneLiveRetryHolds`, `SendAuthorityOnceHolds`, `SealedIsCompleteHolds` | the mainnet executor and its journal |

They hold for every value of the constants that satisfies the named `ASSUME`s of
the modules: any number of releases, leaves, lanes, requests, blocks, wires or
faults, and any width of an integer. TLC evaluates the assumptions in each run.
Sums are over finite sets, so `SerialAssumption` and `AddressesAssumption` ask
that the serials of a Pool and the addresses of the Verifier be finitely many.
Each proof has the same shape: the initial state satisfies an inductive invariant
`IInv`, each action preserves it, and it implies the property. TLC checked every
`IInv` before it was proved.

* **Registry.** That a retired entry has a usable replacement is kept only
  because an active entry's activation slot has passed and it has no retirement
  slot (`EntryLifecycle`). That an instruction applies at most once follows from
  `GenerationCountsInstructions`: the i-th applied instruction named generation
  i - 1. `EntriesAreAttested` ties every V2 entry to a program whose upgrade
  authority is gone; no loader action changes such a program.
* **Pool.** `PagesAreExact` says of every page exactly which roots it holds when
  the tree has a given length. `PlansAreExact` says that a plan is the append it
  was prepared for, from a prefix of the present tree. Settling writes images
  that are as old as the plan; the two together give that, if the source image
  still matches, the images written are those that a direct spend would write.
  The refinement follows action by action: a note that a receipt proves to be
  under a retained root is a leaf of the present tree.
  Solvency is proved on the ledger and carried over by the refinement. An
  appended note raises the worth of its serial by its value at most. A spend
  takes its serial off the sum, worth the note at least, and its outputs put back
  what is not paid out. The facts about sums (`SumChange`, `SumRemove`) come from
  induction over the subsets of a finite set: a smallest counterexample exists
  because strict inclusion is well-founded. `NotesStayWithdrawable` puts these
  together: every root is retained, the next page is never in the way, and a
  solvent vault can pay one of the notes it owes (`UnspentIsCovered`,
  `CoveredIsWithdrawable`). `WithdrawalIsAccepted` shows
  that the checks named there are all that `process_withdrawal` checks.
* **Pair forest.** `HistoryKept` says that each page of a lane holds exactly the
  roots of the lane's past lengths. `CheckpointsArePast` says that a checkpoint's
  lane roots are such past lengths, and that later checkpoints are not shorter in
  any lane. `MasterFollows` ties the last checkpoint to the master account. So a
  note under a checkpoint is a leaf of its lane now, whatever the lane did since.
  `ForestNotesNeverStranded` needs two facts more (`SpendInv`): every note is a
  leaf of a lane, and the page of a lane's current root ends with that root while
  no page beyond it is written, so the page that the next append needs is there
  or can be opened.
* **Relayer.** The journal's file may be ahead of the copy in memory, so neither
  determines the other. What carries the proof is one direction
  (`SignedIsOnDisk`): what memory knows to be signed is signed on disk under the
  same blockhash. Every send is of something signed in memory, a replace writes
  memory plus one change, and a crash copies the file to memory. The outcomes
  stay true because no fork reaches below the finalized height.
  The queue's file is valid whenever it is replaced, and so is the copy from
  which the next image is made; an admission or a policy change that would break
  a limit is refused. A requeue is not (section 4), hence the hypothesis of
  `QueueAlwaysReopens`. For `SignedIsAlwaysHeld` the invariant is `Held`: a
  request that is signed and has no outcome, in memory or on disk, is in flight in
  the queue and in the queue's file. A request leaves that state in three ways:
  `complete_inflight` asks for an outcome, which is on disk before it is in
  memory; a cancellation takes queued requests only; a requeue is excluded.
* **V2 wallet.** The file, the copy a process reads and a restored backup may all
  be old, so nothing is assumed of them. The proof rests on the store:
  `ReservationGrows` says that what is reserved commits the same log as what is
  current, or one operation more that applies to it, and `HandleIsCurrent` that
  an idle handle holds the store's current image. A step changes the current
  image only to the reserved one (`StoreStep`), so the log grows by one
  applicable operation at most: this is `WalletLedger`. A reader sees the log of
  an idle handle, hence a prefix of every later one. For the lanes, the leaf
  index check counts the terminals before a new one on the chain and those in the
  log. The log's terminals are distinct, in order and on the chain, so equal
  counts of finite sets make them the same terminals (`NextLeafIsComplete`).
* **Migration.** A power loss leaves the directory of the last sync or a later
  one, so the invariant speaks of every directory in `fsys`
  (`DirectoriesAreSound`) and not only of the one a process sees: its plan is its
  sources, its target starts from the plan, its tombstones name the plan. Between
  them the handoffs only go forward. A user writes to a source only while there
  is no journal and no migrator (`LocksExclude`), which keeps the sources equal to
  the plan. `MigratorKnows` says what each step of the migrator may rely on. From
  there one owner, the survival of reported updates and the order of the phases
  are facts about single directories. A recovery that is repeated after the end
  may run beside the wallet itself (`RuntimeIsAlone`). While the wallet is idle
  it holds no reservation, so the recovery leaves the store as it is
  (`ReconcileBeside`); in the middle of an update it may abort the reservation
  (section 4), which no caller has been told of yet.
* **Verifier accounts.** Each instruction is first reduced to what it does to
  each kind of account (`Touches`, `SideStep`, `Paid`). `AccountsAdvance` lists the steps that
  an account's life has (`Succeeds`, `ReceiptSucceeds`), and each instruction is
  shown to take one of them or none. A payment starts from the
  pool's present image, and that image is what the pool's last payment left
  (`LastPayment`); an account that is paid out in the same instruction is an
  upload, so it is not another pool. A marker is never removed because a live
  account holds its rent, so the runtime does not purge it. For the lamports,
  each step is a `Transfer`: it changes one balance in each of two or three
  tables by amounts that cancel (`KeyTransfer`, `MarkerTransfer`,
  `ReceiptTransfer`), or no balance (`BalancesStay`), since a purged account held
  none. A transfer leaves the total as it was (`TransferConserves`).
* **Mainnet executor.** The invariant is split into what holds of the world
  (`World`: the network, the journal, and what was sent) and of the point the
  executor is at (`ControlIsSound`). The network moves under a waiting executor;
  a lemma of its own (`NetworkSound`) shows that a wire that is out of its window
  at finality stays so (`Gone`). Finalized landings are a prefix of the landed
  ones that no fork removes; `RetriesAreSerial` says that every earlier retry of
  a step is dead in the journal. `JournalIsTrue` says that a wire the journal
  calls final or failed is so on the chain, and `AbsentIsGone` that a replacement
  it calls absent can never land. `JournalIsSound` also says that a run whose
  evidence is committed is closed by a later start, as long as the journal's
  anchor holds (`CommittedEvidenceRecovers`). The seal is signed when all chunks are final.

### Only model-checked

* Liveness: `SignedIsReconciled`, `StagedRollsForward`, `RollsForward`
  and `WiresSettle`. The prover does not handle fairness.
* `NoteNeverStranded` of `PoolV1` is stated with `ENABLED`, which the prover does
  not handle either. `NotesStayWithdrawable` proves that every check of the same
  withdrawal passes; that the step then exists is for TLC.
* `StoresFollowBranch`, `RefusedOnlyForRoom` and `RestartRecovers` of
  `WalletScan`. They compare
  the stores with a straight scan of the branch and with a reference Merkle tree,
  both computed by recursion over data. An induction over what such a recursion
  computes is out of the prover's reach.

## 6. What is not modelled

*Inside the modelled parts.*

* Pair forest: the single-tree variant (`pair_processor.rs`, `pair_dispatch.rs`,
  `pair_state.rs`) and the feature-gated audit variants; created pages that are
  not yet written, which do not arise here; account flags, aliasing and the
  token deltas, which fail an instruction as a whole.
* Verifier accounts: the read-only verifications (tag 59 and the ASVQ query),
  the probe instruction of V5 (tag 66), account flags and canonical encodings.
* Relayer: pruning, loss or replacement of the scan state that a finalized
  transaction is joined to. The checks of a single queue or journal entry
  (section 2) hold by construction.
* V1 wallet: `StoresFollowBranch` is about a caller that reports its own spends.
  Not modelled are rotation of the cipher, RPC transport, authentication of root
  pages, import and removal of witnesses, view-only notes, power loss. Two
  consequences of the code are in the model and in no property: a delivery that
  is stored after its spend was scanned stays unspent, and the handle stays in
  use after a failed replace.
* V2 wallet: ingestion of checkpoints (`lane_forest_durable_v2.rs`), also
  of the one that a finalized operation may bring along
  (`lane_forest_wallet_txn_v2.rs:2439`); the refusal to spend a view-only note
  (2420); the limit `MAX_LOGICAL_NOTES` (2461); wallets without a monotonic
  store, which `from_empty_v1` makes and which have no reservation and no
  protection against an old copy. The caller chooses which spends it reports. A sighting of a
  transaction that was abandoned blocks its finalization until a reorganization
  is reported, and after a lost answer of the reservation the handle answers
  conflicts until it is opened again; both are in the model.
* Migration: wallets with a history of prepared plans, which the code refuses.
* Mainnet executor: program deployment, cleanup-only mode, the second-attempt
  path, the devnet path and the top level of `main.rs`. The simulation and its
  checkpoint are part of the step that consumes the authority; the three
  account-creating wires are one. RPC answers come from one consistent view.

*For good.* Byte codecs and builders of instructions have no state of their own.
Field arithmetic, transcripts, FRI and the constraint systems are pure
computation out of a model checker's reach; the repository treats them in Lean
(`AspisFormal`, `aeneas-verif`). The prover, and the measurement and release
scripts, are not part of the running system.

## 7. Running

    tlc -workers 2 -config PoolDirect.cfg MCPoolV1
    tlapm PoolV1Proofs.tla

| Configuration | Module |
| --- | --- |
| `RegistryV1`, `RegistryV2` | `MCVerifierRegistry` |
| `PoolDirect`, `PoolPlans` | `MCPoolV1` |
| `PairForest` | `MCPairForest` |
| `VerifierAccounts` | `MCVerifierAccounts` |
| `RelayerFaults`, `RelayerService` | `MCRelayerExecution` |
| `WalletScan` | `MCWalletScan` |
| `WalletTransaction` | `MCWalletTransaction` |
| `WalletMigration` | `MCWalletMigration` |
| `MainnetExecution` | `MCMainnetExecution` |
