# Consolidation incentives: TLA+ verification

The repository pays validators of Gnosis Chain for consolidating. A contract
pays a fixed reward once per source validator to whoever shows, by Merkle proofs
against a beacon block root of the EIP-4788 oracle, that the validator is the
source of a pending consolidation, was activated early enough and has a
withdrawal address. Beside it are a Rust library that builds the proofs, a
service that watches the beacon chain for consolidations, a submitter of claims, a
command line tool that captures beacon states, and a generator of test vectors. This directory models them in TLA+, checks the
models with TLC and proves their safety with TLAPS.

```
tlc -workers 2 -config MCReentrancy.cfg MCContract     # a run; all are listed below
tlapm ConsolidationIncentives_proofs.tla               # the proofs
```

`PROJECT.json` maps every definition to the lines it models, and lists runs,
mutants, findings, hazards and theorems.

## 1. Inventory

Paths are below the repository root. *Hard* says where tests hardly reach.

**Reward contract**, `contracts/src/ConsolidationIncentives.sol`, set up by
`contracts/script/Deploy.s.sol`.
State: owner, implementation, `maxEpoch`, `rewardAmount`, `minClaimDelay`,
`rewarded`, its balance. Operations: `initialize`, `claimReward`, `withdraw`,
`receive`, transfer of ownership, upgrade.
Interacts with the oracle (static call) and with arbitrary accounts (calls with
value). *Hard:* the recipient of a reward or withdrawal runs in the middle of
the call and may call back in, and any frame may fail and be undone.
*Correct when:* a validator is paid at most once, to the right address, and only
when entitled; the balance is accounted for; nothing is half undone.

**Beacon roots oracle and beacon chain** (external). A ring buffer from
timestamps to parent block roots; the registry and the queue behind the roots.
*Hard:* missed slots, eviction, a state that moves on after a proof is made,
finality that stalls.

**Proof verification and generation**, `contracts/src/lib/SSZMerkleVerifier.sol`
and `prover/crates/proof-gen/src/{sparse_proof,state_prover,gindex,proof,beacon_state}.rs`.
Pure functions in two languages, and two provers in one of them, that must agree.
*Hard:* unchecked index arguments that are or-ed into generalized indices, zero
padding that equals the leaf of validator 0, off-by-ones in sparse trees, the order
of a proof's layers. *Correct when:* what the provers build passes, what passes is
true, and the provers give the same bundle or the same refusal.

**Test vectors and devnet plan**, `prover/crates/test-vectors/src/main.rs` and
`prover/crates/service/src/bin/devnet-plan.rs`. A generated state, claims that must
be paid, claims that must fail each with its error, and the calls that carry one out
on a devnet. *Hard:* several checks fail for one invalid claim and their order
decides the error. *Correct when:* every vector gets what its file says.

**Service**, `prover/crates/service/src`: the scanner task (`scanner.rs`), the
state it publishes (`state.rs`: three atomics, a concurrent map, an error), two HTTP
servers whose handlers read it (`api.rs`), and a `main` that waits for the first of
its tasks to end (`main.rs`). The scanner polls a beacon node
(`proof-gen/src/beacon_client.rs`). *Hard:* every await is a point where the node
fails, the chain moves, finality jumps or the process dies; handlers take the state
apart load by load while the scanner writes; nothing is persisted; a server may not
start. *Correct when:* a processed epoch was recorded, records are final and kept,
what stays pending is found in the end, and an answer promises no more than was done.

**Submitter**, `prover/crates/service/src/submitter.rs`, which `main.rs` does not
start yet. `submit_claim` checks the gas price, sends one transaction and waits for
its receipt. *Hard:* an answer is lost although the transaction was taken, a
transaction is executed late, in another order or never, a caller tries again.
*Correct when:* Ok means paid, and a claim made twice is paid once.

**fetch-and-prove**, `prover/crates/real-chain-test/src/main.rs`. Chooses a state
(one slot, a historical scan, or a watch over finality), fetches its block and
validators, writes a snapshot; a watch also keeps a progress file. *Hard:* a 404
means a missed slot or a pruned state; the node prunes and finalizes between
requests; writes fail half way. *Correct when:* a snapshot is of one state and a final
one, a scan finds what its window holds, a watch passes over nothing, tells every
poll and ends.

**Not modelled:** the integration tests, the Dune queries, and the vendored
forge-std; section 7 says why.

## 2. Modules

| module | models | built on |
|---|---|---|
| `ConsolidationIncentives` | contract, deployment, oracle, beacon state, call stack | |
| `ContractInvariant`, `EntitlementInvariant` | the inductive invariants of the contract, alone and with the chain it reads | `ConsolidationIncentives` |
| `ConsolidationIncentives_proofs` | their proofs, and the theorems of the contract and its chain | the invariants |
| `AbstractRewards` | what the programme promises: a table of payments and a pot | |
| `RewardsRefinement`, `RewardsRefinement_proofs` | the contract as an implementation of it, step by step | `ConsolidationIncentives` |
| `ClaimFinality`, `ClaimFinality_proofs` | the contract beside finality | `ConsolidationIncentives` |
| `Submitter` | calls of the submitter, RPC node and pool, beside the contract | `ConsolidationIncentives` |
| `SubmitterInvariant`, `Submitter_proofs` | its inductive invariant and its theorems | `Submitter`, `EntitlementInvariant` |
| `SSZMerkle` | the sparse prover and the verifiers of the Merkle proofs | |
| `ProofBundles` | both provers, with their refusals | `SSZMerkle` |
| `ClaimVectors` | test vectors and devnet plan, tried on the contract's checks | `ProofBundles` |
| `SSZMerkle_proofs` | theorems of what the verifiers accept | `SSZMerkle` |
| `ClaimVectors_proofs` | theorems of what the provers make and of the vectors | `ClaimVectors`, `SSZMerkle_proofs` |
| `Scanner` | scanner task, AppState, beacon node, restarts | |
| `Service` | the process: scanner, servers and handlers, `main` | `Scanner` |
| `ServiceInvariant`, `Service_proofs` | its inductive invariants and its theorems | `Service` |
| `FetchBase` | beacon node and `main` of fetch-and-prove | |
| `HistoricalScan`, `WatchFinalized` | its two loops | `FetchBase` |
| `FetchAndProve` | the whole program | the two loops |
| `FetchInvariant`, `FetchAndProve_proofs` | its inductive invariant and its theorems | `FetchAndProve` |
| `MCContract`, `MCFinality`, `MCSubmitter`, `MCSSZMerkle`, `MCFetch` | small instances | |

### The contract

`st` is what a revert restores: storage, balance and logs, and the traces that
calls leave outside (`paid`, `payee`, `funded`, `drawn`). `stack` holds one frame
per external call. `BeginTx` opens a transaction; while code outside the contract
is on top of the stack (`Running`), that code may call any entry point.
`ClaimReward` is `claimReward` up to and including the value transfer: its checks
in the order of the source (`CanClaim`), the mark, the transfer, and the
recipient's frame on the stack. `Return` is the rest of it (the event); `Revert`
restores what the frame saved: in the code a failed callee makes `claimReward` and
`withdraw` revert, which undoes the same state, and a callee that catches such a
failure goes on with its own frame. A call whose own checks fail has no effect
and is no step. Arguments range over every timestamp, index, epoch and credential.

A Merkle branch is abstracted to what it proves (`Proves`); that this is what the
verifier's arithmetic enforces is the question of `SSZMerkle`. Time is counted in
slots (5 seconds): the contract's seconds are multiples of it because every
timestamp is a block's. A block at time t stores its *parent's* root under t
(`OracleWrite`), so a proof made for t speaks of the state before t.
The beacon chain obeys three rules of the consensus layer: credentials gain an
address once and keep it, an activation epoch is set once, and a validator is
the source of one consolidation only.

`ClaimFinality` adds the time of the last finalized block, which the contract
cannot see, trailing the head by at most `MaxFinalityLag` slots.

### The submitter

`Submitter` puts calls of `submit_claim` in front of the contract's own module. A
call goes from `idle` over `send` and `receipt` to what it returns. `Send` is a node
that takes a transaction it could estimate; `SendFails` one that refuses, or whose
answer is lost after it took it. The pool executes (`Include`) or loses (`Drop`)
transactions in any order; between two of them everybody else uses the contract
(`Others`), and during one the recipient of the reward does. The transaction is a
call of `ClaimReward` at the bottom of the contract's stack, so everything the
contract's model can do to it, reentrancy and reverts included, happens here too.
The receipt records how it ended. `is_rewarded` reads the last committed state. There
are no reorganisations: one confirmation stands for any number.

### The Merkle proofs

`SSZMerkle` runs the algorithms themselves: `compute_subtree_root` with its cut at
the padding, the layers of a bundle, `verifyProof`, the service's own
`verify_proof_bundle` (over a model of the ssz_rs branch check), both gindex
computations, the byte reversal. SHA-256 is symbolic (a pair hashes to the pair), so it is
injective and no hash equals a chunk. Header, state, validator and consolidation keep their
real fields and depths (3, 6, 3, 1; fields 3, 11, 36, 1, 5, 0); the two lists are of
any depth (TLC's run scales them to 1), and a chunk has four bytes. Index arguments
go up to twelve bits beyond the list depth, so their bits reach every bit of a
generalized index and past its leading one. The service computes its indices in a `u64`,
whose shifts drop high bits (`U64`, `U64ShiftOr`); the run's `U64Bits` of 16 is less than
its longest paths need, so that oversized indices wrap there as they do in the code. A caller's
branches are those of the places the contract computes or of those the service does. A word has `2^WordSteps` bits, 256 in the
contract and 32 in the run, which only says how many halvings `_log2` makes. `|` and
`^ 1` are written out in arithmetic (`Or`, `Sibling`) and every recursion is a recursive
function, so that the provers can reason about them. `Merkleize` and the chunks of the SSZ
types are the reference definition against which prover and verifier are compared. A state is
either one whose other fields are unknown, or the generated one, whose 64 fields are
default containers, empty lists and zero vectors; their hashes are computed as the
generator computes them.

`ProofBundles` adds the prover of `proof.rs`, which has ssz_rs compute a branch along
a path of field names (`Prove`, the branch of the whole tree at the concatenated
index, external) and appends the header's branch. `ClaimVectors` is the generator
and the plan. Where the generator picks one consolidation of a kind, the model takes
each that fits; `Verdict` is `claimReward` from check 4 to 9 as a function to the
error it reverts with, `CarryOut` is `setRoot` and `claimReward` of the plan.

### The service

A step of `Scanner` is the code between two awaits of `poll_once`, and one turn of
its loop over consolidations. The node has a head, a finalized epoch that may jump
over others, and a queue whose value at each epoch's first slot is remembered.
`FailPoll` is the `?` of each request, `Restart` a new process with an empty
`AppState`. Since no submitter runs, a record stays `Detected` and is modelled by
its `epoch_seen`.

`Service` is the process around it. One HTTP request, of any route of either server,
is answered load by load: `LoadHead`, `IsHealthy`, `LoadEpoch`, `ReadRecord` for each
entry of the map, `LoadError`. A response keeps what is decided or promised (the
status, the epoch, which records, whether there is an error), and `floor`, the last
epoch processed when the request came, as a history value. `slots_behind`, which
`/health` loads again after it has decided, and the slots of `/status` and `/metrics`
are only shown and are not kept. The atomics are accessed with `Relaxed`; the model
takes the loads of a handler and the stores of the scanner in program order.
`servers` says which listeners could bind; `MainReturns` is the select, `Killed` a
process that dies and is started again. A process that returned stays down.

### fetch-and-prove

A state is abstracted to whether its pending list is empty. Every pattern of
missed slots and of non-empty states is an initial state; the node finalizes and
prunes between any two requests, and any request may fail. A missed slot has
neither header nor state at the node, which is what the fallback of
`fetch_pending_consolidations_at_or_before` and its tests assume. A command line
has one mode: the mutual exclusion of the window flags and the overflow checks of
`resolve_scan_window` are left out. The progress file and the snapshot may be torn
(`fs::write` truncates first), refused (same file as the event log), or written
without its event; the last line of the event log may be torn. The snapshot keeps
what its metadata says of slots, finality, debug state and the scan. Polls are counted
only when `--watch-max-polls` bounds them, otherwise only "first or not" matters to
the program.

## 3. Runs

| run | module / cfg | asks | bounds |
|---|---|---|---|
| reentrancy | MCContract / MCReentrancy | types, `NoDoubleReward`, `LogMatchesMarks`, `RewardsArePermanent`, refinement of `AbstractRewards` | 2 claimants that are both validators' recipients, 4 frames (a claim nested in a claim nested in a third call, whose frame may fail), 3 units of value |
| ownership | MCContract / MCOwnership | `Solvency`, `CallsAreConsistent`, `RenouncedIsFinal` | 2 possible owners and terms, 2 implementations, a reward paid to the contract itself, 3 frames |
| finality | MCFinality / MCFinality | `RewardedAreEntitled`, `RewardedAreFinal`, `UsableBeforeEviction` | 4 slots, a buffer of 3, gaps of up to 2 slots: entries are missed, overwritten and expire; a validator that starts with no address and no activation |
| finality_stall | MCFinality / MCFinalityStall | `RewardedAreFinal`, **violated** | finality lags 3 slots instead of 2 |
| submitter | MCSubmitter / MCSubmitter | `ConfirmedIsPaid`, `RetriesPayOnce`, `ClaimsReturn` | 2 calls for 1 validator, another account that is recipient, claimant and owner, 2 frames |
| service | Service / MCService | `ProcessedMeansTracked`, `TrackedWasFinal`, `UnprocessedShowsError`, `RecordsAreKept`, `ResponsesShowProcessed`, `QuietStatusIsProcessed`, `NoFalseAlarm`, `EventuallyTracked`, `NoHalfService` | 1 consolidation, 3 epochs of 2 slots (genesis included), 1 restart, 2 slots stand for 64 |
| service_exit | Service / MCServiceExit | `DownMeansAsked`, **violated** | as service |
| scanner_skips | Scanner / MCScannerSkips | `EveryFinalizedEpochTracked`, **violated** | no failures needed |
| ssz | MCSSZMerkle | `ProverBundlesVerify`, `AcceptedIsTrue`, `GindexesAgree`, `VerifiersAgree`, `ProversAgree`, `VectorsHold` | 3 states of 2 validators, 1 or 2 consolidations (a list with padding, a full one, one that names no validator), 8192 values of each index, service integers of 16 bits |
| fetch | MCFetch / MCFetch | `HitsAreCurrent`, `PollingMeansEmpty`, `EventsTellEveryPoll`, `SnapshotIsOfOneState`, `SnapshotIsFinalized`, `ScanMissesNothing`, `ScanResultIsExtreme`, `ProgramEnds` | 5 slots in every pattern of missed and non-empty, command lines of all modes, 3 polls, hit limits 1 and 2 |
| fetch_missed | MCFetch / MCFetchMissed | `ScanSurvivesMissedSlots`, **violated** | |
| fetch_progress | MCFetch / MCFetchProgress | `ProgressTellsTheExit`, **violated** | |

The bounds are the smallest at which each hazard occurs: a reentrant claim
needs two frames and its undoing a third; eviction needs a buffer shorter than
the run; a jump of finality needs three epochs; a fallback needs two slots in a
row; a retry needs two calls, and a torn read one restart or one poll in between. The
service has one consolidation because no step of the scanner or of a handler reads
the record of one to decide about another, and its properties speak of one at a time.
Two validators in `submitter` would only add claims that do not meet. Every passing run has a mutant per property (`PROJECT.json`), a plausible bug
of the code that the property catches under the same bounds. `CHECK_DEADLOCK` is
off where the program ends: one call per behaviour in `ssz`, an exited process in
`fetch` and `service`, and in `submitter` a finished chain with every call returned.

**What the passing runs show.** Reentrancy gains nothing and failure leaves no
trace. Rewards reach the address the validator has at the time of every later
state, although proofs may be as old as the buffer. The contract's claim window is
never empty as long as `minClaimDelay` plus the longest run of missed slots fits the
buffer, which `Deploy.s.sol` does not check. Of the three proofs of a claim none can
be dropped: an oversized `consolidationIndex` does alias other leaves, and an
oversized `sourceIndex` is stopped only by the consolidation proof, which pins it
to a value found in the state. The verifier in Rust and the one in Solidity decide
alike on every bundle whose `consolidationIndex` is within the limit of the list, however
oversized its other arguments. Beyond that limit they do not, and nothing here claims it:
the service's shift of a `u64` can drop the high bits of such an index and name another
leaf, for which it accepts a branch whose length the contract refuses; and the bits that
the contract or-s in can coincide with those already there, so that it accepts a branch
for which the service has a longer path. The two provers build
the same bundles and refuse the same indices, and the checks come in the order that
the errors of the test vectors expect. The scanner's order (fetch, record, then mark
the epoch) survives failures at each step, and the handlers' order of loads keeps
their answers honest: `/status` without an error never names an epoch whose poll has
failed, since it reads the epoch before the error. A claim submitted again is paid
once whatever the pool does, and Ok means paid if a confirmation was asked for; with
`confirmations = 0` it means sent. A watch's finalized slot may only be older than its
epoch.

**What the violated runs show** (quoted in `PROJECT.json`, "findings"):
`minClaimDelay` does not require finalized blocks, it only outlasts finality that
is no slower than the delay; the scanner looks at the latest finalized epoch, not at
each; a service whose port is taken exits with a success, which
`Restart=on-failure` leaves down; a scan without hits over a missed requested slot fails although its fallback worked; and
the progress file of a watch reports a clean exit before the requests that may
still fail.

## 4. Fairness

`Service!SFairness`: weak fairness of what needs nothing but the task itself
(`Wake`, `Process`, `FinishPoll`): tokio runs a ready task. Strong fairness of the
three requests: each is tried again on every poll and the node does not fail it
every time. Weak fairness of the select when a server has ended. Nothing is assumed
of the chain, finality, requests, ctrl-c or restarts. The assumption
has two limits in the code: the HTTP client has no timeout, so a request that is
never answered stops the scanner for good, and the first slot of an epoch that was
missed may be answered 404 until finality moves on. `EventuallyTracked` speaks
of a consolidation that stays in the finalized state, one that leaves before a
successful poll may be missed.

`Submitter!SubFairness`: weak fairness of a call's own steps, of the recipient's end and
of the transaction's (finite gas), strong fairness of the pool, which is served between
the transactions of others, and of those ending. `ReceiptFails` has none: `get_receipt`
waits without a timeout. So `ClaimsReturn` excepts exactly the call whose transaction
was dropped.

`FetchAndProve!Spec`: weak fairness of the program as a whole: every request is
answered in one way or another, and `sleep` returns. Finality and pruning have none;
a watch without a poll limit ends only if finality comes to rest on a non-empty
state, and `ProgramEnds` says so.

By itself the contract has safety properties only: nobody is obliged to claim.

## 5. Proofs

Every safety invariant and every action property of a passing run is a theorem, and so is
the refinement; only liveness is not. A theorem holds for every value of
the constants; each module lists below what it assumes of them. Each inductive invariant
was checked by TLC on the instance of its run before it was proved. A `*_proofs` module
has one lemma per action or group of actions that disturb the same part of the
invariant, then one for `Init`, one for `Next`, and the theorems, each from the
invariant.

| module | theorems | assumes |
|---|---|---|
| `ConsolidationIncentives_proofs` | `TypeOK`, `CallsAreConsistent`, `NoDoubleReward`, `Solvency`, `LogMatchesMarks`, `RewardsArePermanent`, `RenouncedIsFinal`, `RewardsAreDue`, `CommittedIsSound`, `RewardedAreEntitled`, `UsableBeforeEviction` | `ConstantsAssumption` |
| `ClaimFinality_proofs` | `LagIsBounded`; `RewardedAreFinal` if `DelayCoversLag` | and `LagAssumption` |
| `RewardsRefinement_proofs` | `ImplementsAbstractRewards` | and `NotDeployedIsNoAmount` |
| `Submitter_proofs` | `SubmitterIsSound`, `SubTypeOK`, `RetriesPayOnce`, `ConfirmedIsPaid` | `ConstantsAssumption`, `SubmitterAssumption` |
| `Service_proofs` | `ScannerIsSound` (of the scanner alone), `ServiceIsSound`, `STypeOK`, `ProcessedMeansTracked`, `TrackedWasFinal`, `UnprocessedShowsError`, `RecordsAreKept`, `NoFalseAlarm`, `ResponsesShowProcessed`, `QuietStatusIsProcessed` | `ScannerAssumption`, `ServiceAssumption` |
| `FetchAndProve_proofs` | `RunIsSound`, `TypeOK`, `HitsAreCurrent`, `ScanMissesNothing`, `ScanResultIsExtreme`, `PollingMeansEmpty`, `EventsTellEveryPoll`, `SnapshotIsOfOneState`, `SnapshotIsFinalized` | `FetchAssumption`, `TornAssumption` |
| `SSZMerkle_proofs` | `PassedClaimIsTrue`, `AcceptedIsTrue`, `GindexesAgree`, `VerifiersAgree`, `VerifiersDecideAlike` | `DepthAssumption`, `WordAssumption`, `U64Assumption`, `WorldAssumption` |
| `ClaimVectors_proofs` | `ProverBundlesVerify`, `ProversAgree`, `VectorsHold`, and of the vectors the properties of the verdicts | and `VectorAssumption` |

The assumptions give numbers their ranges (slots per epoch positive, epochs and delays
natural) and say that a mark for "nothing" is none of the values it stands beside.
`ConstantsAssumption` also says that genesis is a typed registry and queue.
`DelayCoversLag` is a hypothesis of one theorem because the code does not ensure it;
run `finality_stall` shows what happens otherwise.

**The contract alone.** None of its properties is inductive, because `Revert` replaces
the current state by one saved arbitrarily long ago: what is known of `st` alone says
nothing of it. So `Consistent` (`ContractInvariant`) speaks of all states within reach,
the saved ones from the outermost frame inwards and then the current one (`At`). Each is
`Marked` (a validator is marked when paid, once) and `Balanced`; each has logged its
rewards except those of the claims open below it (`Opens`), so that logs match marks when
the stack is empty; and each `Continues` the outermost, the committed state, so that
whatever a transaction does, settled rewards and a renounced ownership survive it.
A step replaces the last of these states (`PlainStep`), keeps the last as a saved one and
adds another (`PushStep`), or drops the last, with or without taking it over (`PopStep`).
`ClaimKeepsBooks` and `AdminKeepsBooks` show that what a claim or an administrative call
makes of a marked and balanced state continues it; the cardinality of the paid validators
enters only there.

**The contract and the chain.** A claim is proved against an old state, and
`RewardedAreEntitled` speaks of the present one. What connects them is an invariant of
the ring buffer (`Truthful`): an entry sits at its own timestamp's place, its queue was
entered before it, and the present registry `Extends` the one it holds, in which an
address once set and an activation once scheduled stay. `Due` then says of a state within
reach that its rewards are due on the present chain; a block keeps that (`BlockKeepsDue`)
because of the consensus rules, a claim establishes it (`ClaimIsDue`). `ClaimFinality`
follows from it by arithmetic; `UsableBeforeEviction` needs that two times with the same
place in the buffer are a whole buffer apart (`SameSlot`).

**The refinement.** Seen from the committed state a step of the contract is a launch, a
block (`Entitle`), a settlement or, before the launch, nothing. A settlement that pays is
the step that ends a transaction: its payments are those that `Continues` adds, each to
an `Entitled` address because the new committed state is `Due`, and the pot changes by
their number times the reward (`LeavingCount`) because both states are `Balanced`. Any
other step of the contract after the launch, a step inside a transaction included, is a
settlement that pays nobody and, unless it ends a transaction that moved value, moves
nothing.

**The submitter.** `ConfirmedIsPaid` needs to know of a transaction while it is executed:
that the validator it claims for is the one its frame has open, was not rewarded by any
committed state, and still has the address (`ClaimsArePaid`); a success is written with
one state in reach, and a mark in the committed state is never lost. Hence the invariant
includes the contract's two. `ContractSteps` says that every step of the composition is
one of the contract's, so that their proofs are used, not repeated.

**The service.** A poll's promises are about a state it fetched earlier: what is left in
`todo` together with what is recorded covers the queue of the epoch it published
(`PollIsOnCourse`), and since finalized queues do not change, a finished poll has
recorded them. A handler's are about values it loaded earlier: they are at most what the
scanner has published since, and the records it owes are shown or still to be read
(`HandlerIsSound`). The properties of responses are action properties of the step that
answers.

**fetch-and-prove.** A scan's result depends on the order of its visits, which the model
keeps as a set of what is left: all that is visited comes `Before` what is left, the
first hit before the others, and no visited slot whose state was non-empty went without a
hit (`HitsAreVisited`). That a hit is of the current state is the fallback's invariant:
between the slot asked for and the one it has come down to no block was proposed
(`SearchIsOnCourse`). The event log's trail (`TrailIsKept`) counts the distinct epochs of
its lines; a new one is distinct because finality never falls behind the epoch checked
last. The lemmas on `Min`, `Max` and `AsOf` are proved from well-foundedness of the
naturals, without induction over data.

**What the verifiers accept.** The claim's indices, leaves and branches are arbitrary, so
the argument starts from the one thing that is known, the root. A *fold* is the sequence
of nodes `verifyProof` computes from a leaf upwards. It ends in the root of a tree; hashes
are injective, so it passes on every level through the node that the tree has there, and
which one it is, the bits of the generalized index say (`FoldReachesLeaf`). It goes from
the header through the state into the list and from there into an item
(`FoldReachesField`, `FoldReachesItem`); it cannot go on below a chunk, in the padding or
elsewhere, since a chunk is no pair (`LeavesAreNoPairs`). What an oversized index or-s into
the bits above its list is followed bit by bit (`ShiftOrValue`). For a consolidation it
turns field 36 into itself or into a field of the state's padding, where no branch goes
on (`ConsolidationPlaces`), so whatever is proved is the source of some consolidation. A
validator's index is then that source, hence small: it has at most the one bit beyond
its list that would lead from the list's data to its length, and that is a chunk
(`ValidatorPlaces`). An index argument in `PassedClaimIsTrue` is any natural number, so
that the theorem does not rest on the bounds of `ConsolidationArg` and `ValidatorArg`.
`VerifiersAgree` compares the two verifiers as folds of one branch at one index: for an
index within its list, concatenating the path is shifting it (`ConcatPath`), and no shift
leaves the service's word (`U64Step`). That is assumed of `consolidationIndex` only. The
consolidation's branch then pins `sourceIndex` to a source in the state, which has at most
one bit more than its list, so that it does not wrap either; and with that bit the service,
whose path is then longer, accepts nothing (`ServiceValidatorBranch`). `VerifiersDecideAlike` says this of any arguments and branches.

**What the provers make.** Here the argument goes upwards. `compute_subtree_root`, which
stops at the padding, returns the nodes of the whole tree (`SubtreeIsLayer`; the padding's
are the zero hashes), so the siblings it collects lead a fold from the leaf layer by layer
to the root (`ClimbReachesRoot`), through item, list, length, state and header
(`ItemBlockProofFolds`), at the contract's own index (`BundlePasses`). The in-memory
prover takes the branch that a walk down the finished tree finds; since a branch that
folds to a root is the only one of its place (`ProofsOfOnePlace`, from injectivity), it is
the sparse prover's (`WalkFindsBranch`, `BundlesAreAlike`), and both give the same reasons
for refusing. The same uniqueness settles the vectors: a bundle with one bit, one index,
one epoch or one credential changed cannot verify at the place where the true one does,
and a swapped one has the wrong length.

These are inductions over levels, bits and branches. The library's induction theorems
take an operator, which the provers cannot instantiate; `InSetByInduction` states
induction with a *set* of numbers in its place and follows from the naturals being well
founded. A recursive function is first shown to exist and to satisfy its equation
(`OrEquation`, `FoldExists`, `SubtreeRoots`), then used through that equation. Powers of
two, of which the provers know next to nothing, get their recurrence from the number of
subsets of a set (`PowerOfTwo`).

`DepthAssumption` says that depths are natural numbers, `WordAssumption` that a word has
room for the generalized indices (at most 65 of its 256 bits are needed), `U64Assumption`
that the service's has room for those of the elements of a list and of one bit more
(`ConsolidationListDepth + 12` and `ValidatorListDepth + 15`, at most 64 bits),
`WorldAssumption` that lists fit their trees and hold typed items, and that a pending consolidation's source
is an index of the registry's tree or at most one bit longer. The consensus layer only
queues sources that are validators. The proof needs it: a source with a bit further up
could be or-ed into another validator's place, and the contract, which does not check
the range of `sourceIndex`, relies on its absence. `VectorAssumption` says that the two
proof lengths, 29 and 53, differ; otherwise a swapped proof is an `InvalidProof`.

**Only model-checked.** Liveness (`EventuallyTracked`, `NoHalfService`, `ClaimsReturn`,
`ProgramEnds`), which needs fairness and `ENABLED`.

## 6. Plan

Order of work: the contract first, because money and reentrancy are there; then the
proof arithmetic its abstraction rests on; then the service; then the tool; then the
proofs in the same order. All of it is done. What could still be added is more of the
environment: reorganisations as such, and the fee that the submitter's fillers choose.

## 7. Left out

Gas and transaction fees, and so the submitter's limit on the gas price beyond its
refusal (the fillers of its provider choose the fee after the check); the other
fields of beacon states; reorganisations as such (finality stands for their limit);
the decoding of HTTP responses; texts, JSON and shell commands; contents of upgrades (an
upgraded implementation keeps the behaviour of this one; an owner that upgrades to
something else is outside any guarantee).

Not modelled as components: the integration tests, which drive what is modelled
here, and the Dune queries, SQL over the `RewardClaimed` log. Neither has a state or
an interaction of its own.
