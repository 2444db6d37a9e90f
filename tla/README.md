# Verification of the World ID grant aggregation

TLA+ models of this repository's own logic, from key generation to the contracts,
TLC configurations that check them on small instances, and TLAPS proofs of the
results that matter most for every value of the constants. Paths below are
relative to the repository's root.

1. [The system](#1-the-system) – inventory
2. [Modules](#2-modules-and-how-they-correspond-to-the-code)
3. [Runs](#3-runs-bounds-and-what-they-show)
4. [Fairness and liveness](#4-fairness-and-liveness)
5. [Proofs](#5-proofs)
6. [Disagreements with the documentation](#6-disagreements-with-the-documentation)
7. [Limits](#7-limits)
8. [Plan](#8-plan)

## 1. The system

People who hold a World ID claim WLD grants. Verifying one Groth16 proof per
claim on chain is expensive, so a backend aggregates many of them into one SNARK:
key generation makes a tree of circuits, a scheduler cuts a request into the tasks of
that tree, proving servers prove them, and the last proof goes to a contract.

| Part | State it keeps | Operations | Talks to | What makes it correct |
|---|---|---|---|---|
| `WorldcoinAggregationV1` (`src/`) | `nullifierHashes` | `distributeGrants` | WLD, `IGrant`, `IRootValidator`, verifier (calls) | a proved batch is paid whole or not at all, each nullifier once, only to people World ID vouches for |
| `WorldcoinAggregationV2` (`src/`) | `nullifierHashes`, `validClaimsRoots` | `validateClaimsRoot`, `claim` | the same | a claim is paid only if it counts in a recorded tree, each nullifier once |
| Sister node script (`utils/`) | none | tree, root, path | reads what the request held, feeds `claim` | its paths are accepted for every committed claim |
| Leaf, intermediate, root, EVM circuits (`circuit/src/circuits`) | none | constraints on a witness | one verifies the other's snarks; the last is verified on chain | whatever is joined, the instances describe the claims that were proved |
| Key generation (`keygen/`, `bin/keygen.rs`) | the walk's `cid_repo`; keys, verifiers and `.cids` files on disk | `create_and_serialize_proving_key`, child first; `main` writes the list | its files are read by schedulers and provers | a complete list has the whole tree, root last, every key on disk |
| Async scheduler (`circuit/src/scheduler`, `bin/scheduler_server.rs`) | task tracker (mutex), permits (semaphore), one future per task | `POST /tasks`, then spawned futures | dispatcher (HTTP, polled), contract (transactions) | the proof sent covers the request, permits and mutex are never lost, requests end |
| Retry loop and contract client (`scheduler_server.rs`, `contract_client.rs`) | attempts, the mutex's guard | send, wait for the receipt, retry | node and chain | a batch sent again is not paid again; what is reported is what happened |
| Dispatcher | external | create, status, snark | starts provers | – |
| Proving server (`prover/mod.rs`, `bin/prover_server.rs`) | three caches, the proof mutex, proofs in `out_dir` | `/tasks`, `/internal/circuit-data`, `/reset` | files | an answer is the proof of its own request, made once |
| Local scheduler and server (`local_scheduler.rs`, `bin/local_server.rs`) | the prover's state | `/prove`, `/reset` | the prover, in process | the answer covers the range that was asked for; one bad request does not stop the next |
| Generated verifiers, scripts that only format | – | – | – | out of scope, see section 7 |

Behaviours that are hard to test here:

* *partial failure* – a transfer that fails in the middle of a batch; one
  dependency of many that fails; a panic with a lock held; a disk that fills up;
* *ordering* – dependencies finish in any order, transactions are mined in any
  order, and roots are recorded before, between and after claims;
* *stale state* – roots expire and grants close between proof and transaction; the
  dummy snark of an odd half is a clone whose index range and tree must not count; a
  cache is read, its file loaded and its entry written under separate locks;
* *sharing* – all requests compete for one semaphore and one mutex, and the mutex
  is held while a transaction is confirmed; proofs share the prover's mutex;
* *delivery* – a task posted twice, a transaction taken by the node whose answer is
  lost, a receipt that never comes;
* *crashes* – key generation or the prover dying while a file is written;
* *boundaries* – zero claims, one claim, a full tree, a last piece that is short,
  a range that runs backwards in `u32`, and an index loop that ends on equality.

`PROJECT.json` lists every such hazard at its line with the properties that would
catch it. The two without a property say why.

## 2. Modules, and how they correspond to the code

```
GrantLedger <------ implemented by GrantsV1, GrantsV2
TaskGraph   <------ implemented by Scheduler, LocalServer

GrantChain -+- GrantAccounts -+- GrantsV1               (contracts)
ClaimLog ---+                 +- GrantsV2
                MerkleClaims -+
                MerkleClaims -- AggregationCircuits -+- ProofPool
NodeParams -+- Keygen                                |
            +- RecursiveRequest -+- TaskTree --------+- Scheduler
                                 +- LocalServer
ProvingServer        Fulfillment (retry loop + chain + GrantLedger)

MC modules: GrantsV1, GrantsV2, ProofPool, Scheduler, Fulfillment, Keygen,
            ProvingServer, LocalServer
proofs:     DataLemmas, GrantsV1Proofs, GrantsV2Proofs, ProofPoolProofs,
            SchedulerProofs, FulfillmentProofs, ProvingServerProofs, LocalServerProofs
            (ProofPoolProofs instantiates GrantsV1 and GrantsV2, SchedulerProofs
            instantiates ProofPoolProofs and GrantsV1: the compositions;
            LocalServerProofs extends Keygen too and proves both)
```

### Contracts and circuits
**GrantChain** is the outside of the contracts: balances, valid roots, open grants.
It moves between transactions only. `GenuineRoots` are the roots the identity tree
had; anyone can prove anything against a root or a key of his own, so `Proven` is
given for every pair, and `EligibleClaims` are those of the contract's key and of
genuine roots.

**GrantAccounts** holds what both contracts keep (`nullifierHashes`) and the history
of `GrantClaimed` events (`claimed`), with the properties common to both. What such a log
says, and when a token's balances agree with it, is in **ClaimLog**.

**GrantLedger** is what either contract promises: a set of paid claims that only
grows, by eligible claims to real receivers, no nullifier twice. V1 implements it a
batch per step, V2 a claim per step (`ImplementsLedger`, with
`paid` mapped to the committed part of the log).

**GrantsV1** cuts `distributeGrants` into `Begin` (all checks before the loop),
`PayClaim` (one turn), and `Commit` or `Revert`, so that the middle of a batch is
visible. `saved` is what the EVM restores. The hash preimage is compared word by
word, without separators, as `abi.encodePacked` writes it.
`HonestCall` is `V1ClaimParams::new` on the root circuit's output, whatever proved claims
fill the slots past the batch.

**GrantsV2** has `ValidateClaimsRoot` and, for `claim`, `BeginClaim`, one `HashStep`
per turn of the Merkle loop, `PayClaim` and `RevertClaim`. `HonestClaim` is the call
built from the script's `parseInput`.

**MerkleClaims** is the tree as its three authors see it: `Layers` (script and
circuit), `SisterNodes`/`IsLeft` (script), `Climb` (contract). Keccak is injective
here: a digest is the term it digests, a leaf (84 bytes) is never a node (64 bytes).

**AggregationCircuits** has the constraints and instances of the leaf, intermediate
and root circuits. V1 and V2 differ only in what stands for the claims, so a modelled
snark carries both: all slots (V1) and the root of the masked tree (V2).

**ProofPool** lets a prover that follows no plan prove and join whatever the circuits
accept. What holds there is what a contract may assume of a proof, however it was made.

### Schedulers, provers and keys

**TaskGraph** is what either scheduler promises, in three actions: a task is obtained
after those it needs, and a request is served with its top task or abandoned, for good. It
does not count proofs: what it says of obtained tasks is a set.

**NodeParams** is `NodeParams::child` with its assertions, **RecursiveRequest** the split
of a task into its dependencies, and `TreeOf` the tasks the recursion reaches. **TaskTree** adds
what the production requests are and the witness each task hands to a circuit
(padding, dummy, Evm passthrough).

**Scheduler** has one future per task (`at[t]`): waiting for dependencies or a permit,
polling (permit held), fetching, recording (needs the tracker's mutex), done or
failed; and one per request (`phase[r]`): running, sending (mutex held from the
summary to the last retry), fulfilled, gave up, or lost in a panic. A step runs from
one await to the next. `job[t]` is the dispatcher's side, which goes on when the
scheduler has stopped polling. Variables and code: `permits` is
`proof_concurrency_semaphore`, `holder` the guard of `request_id_to_tasks`,
`recorded` its contents, `summary` the file in `execution_summary_path`.

**Fulfillment** looks at the end of a request more closely and composes the retry loop with the
chain. The node may take a transaction and lose the answer, err while
the receipt is polled, mine what it has taken in any order and at any later time, or drop it.
`tx[r][n]` is what the chain did with the n-th attempt; `Confirmed` does not look at
the receipt's status, as the code does not; `Dropped` is the `unwrap()` on a missing
receipt. A transaction is one step here, whose checks (`Payable`) are written with `Fresh` and
`Unambiguous` of `GrantLedger`; that V1's loop and reverts amount to that is shown by `GrantsV1`
(`ImplementsLedger`), not by this module, which is about what the retries add.

**LocalServer** is the handler of the development server with its defaults, its `u32`
subtraction and its checks in their order, and `recursive_gen_proof` as an explicit `stack`
of calls. Its requests take turns at the prover's mutex, once per task. Only an EVM proof
goes back to the client; a request for a snark is answered with nothing.

**ProvingServer** has a program counter per call, because `build_circuit` reads a cache,
loads a file and writes the entry under three separate locks. `got[c]` is what the
call has put together so far, and a proof is a term of exactly that, so one made with the
wrong key would be seen. `file[p]` is a proof in `out_dir`: opening it leaves it
`Partial` until it is filled. `LoadFails`, `ProveFails` and `WriteFails` are the errors and panics
of a call, and `Crash` ends every call under way and keeps the files.
`proof_id` is a hash of the request and is taken to be injective.

**Keygen** is one run after another of the binary: `DescendToChild` to the leaf, then `BeginKey`,
`EndKey` per node on the way back, then the verifier and the `.cids` file. A run may end at any
point. `keys[id]` says which run wrote a key last and whether to its end. A circuit id is the term
of what its circuit is built from (the hash of a verifying key is injective and tuning is
deterministic), so two intents that share a subtree share its files, which are written again:
`CidsServable` says which keys of a written list that can leave cut. `Ascending` is the order in
which a `BTreeMap` is listed; `NumLevels`, `Node` and `Circuit` describe the tree of an intent
without the walk, for the properties.

**MC…** modules hold only the data of the runs.

Definitions with a second, longer name beside them (`PollKeepingPermit` next to
`Poll`) are plausible slips of the same code; `PROJECT.json` pairs each property with
one that breaks it.

## 3. Runs, bounds and what they show

| Run | States | Bounds | Shows |
|---|---|---|---|
| `v1` | 16 248 | batches of up to 2 claims, 2 grants of different amounts, 2 nullifiers, supply 4 | `OneGrantPerNullifier`, `NullifierIffPaid`, `AccountsMatchClaims`, `AllOrNothing`, `ImplementsLedger`; a full honest batch is accepted (`FullBatchAccepted`) |
| `v1_partial` | – | the same | finding: a batch that is not full is refused |
| `v2` | 21 288 | trees of 4 leaves, batches of 3 and 1 that overlap | `PaidOnlyIfCommitted`, `HonestClaimPaid`, and the ones shared with V1 |
| `proof_pool` | 21 407 | leaves of 2 slots, depth 3, 10 leaf witnesses, 2 snarks held | every snark exposes proved claims only (`SlotsProven`), in order (`SlotsInOrder`), and the right tree (`ClaimRootIsTree`) |
| `scheduler_tree` | 178 664 | requests of 3 claims and of an unproven one, leaves of one slot, depth 2, 2 Evm rounds, 2 permits | `WitnessesFit`, `SentProofCoversRequest`, `SummaryComplete` |
| `scheduler_shared` | 35 022 | requests of 3, 1 and 0 claims, 2 permits, 2 attempts | `PermitsConserved`, `HolderIsSender`, `NothingLeftBehind`, `ImplementsTaskGraph`, `RequestsEnd` |
| `scheduler_orphans` | – | requests of 3 and 1, 1 permit | finding: more tasks at the dispatcher than permits |
| `fulfillment` | 477 124 | 2 batches that share a person, 3 attempts each | `RetryPaysOnce`, `FulfilledUnlessOvertaken`, `SendingEnds` |
| `keygen` | 14 257 | 11 intents, 2 runs of the binary | `TreeComplete`, `CidsServable`, `ShortIntentWritesNothing` |
| `prover` | 1 905 272 | one proof asked for twice, two others (one without its files), a load, a reset, 1 crash, with `out_dir` | `MutexHeldByProver`, `AnswersAreOwn`, `ProvedOnce`, `NoCallStuck` |
| `prover_truncated` | – | three of these calls | finding: what is left of a cut write is returned as a proof |
| `local` | 66 096 | 9 requests, 8 of them wrong in one way each, no overflow checks, 8-bit words | `AnswerCoversRange`, `BadRangeProvesNothing`, `ImplementsTaskGraph`, `RequestsEnd` |

`keygen`, `prover` and `local` also check their type invariants; those of the other modules, and
`AccountsMatchClaims` of V2, are proved and were checked with the same bounds before they were. So
were the inductive invariants of section 5.

Why the bounds are enough to be worth something:

* two claims are the smallest batch with a middle to fail in, and with room for one
  nullifier twice; two amounts tell an entry from its neighbour; a supply of 4 makes
  transfers fail before, in and after a batch;
* four leaves give a Merkle path two turns, so siblings on both sides and an inner
  node on the way; three claims leave one padding leaf;
* depth 3 over 2-slot leaves lets a dummy come in at the first and at the second join,
  whose trees of masked leaves differ; positions that overlap, leave gaps or start at
  odd indexes are all among the ten witnesses. `MaxSnarks = 2` is what one join needs;
  a snark can be joined with itself, and results are reused by later joins;
* three claims under depth 2 give a full half, a short piece and a dummy below the
  root; one claim gives a dummy at the root; two Evm rounds are the default's
  `EXTRA_ROUNDS = 1`;
* one or two permits are fewer than there are leaves, so tasks do wait;
  `retry_send_threshold = 2` (5 in the code) is the least with a retry that is
  followed by success or by giving up; with 3 in `fulfillment`, two transactions of a request
  can be under way while a third is prepared;
* two batches that share one nullifier are the least that can overtake each other
  between the check of a send and its mining;
* two runs of key generation are the least in which one writes over the other's keys; the intents
  share a whole tree, a subtree and nothing, have too few and too many entries, and name one leaf
  circuit by two depths;
* the calls of `prover` meet each other in every pair that shares state: two proofs
  of one file, proofs with and without a cached key, a load and a reset outside the mutex, and a
  crash and a full disk while a file is open;
* a `u32` is a number below `Word`: 256 is far above every position, so it
  wraps where 2^32 does and nowhere else. The requests of `local` are a good one, whose range starts
  at 2 and is cut, one that leaves everything to the server's own defaults, which panics, one whose
  circuit has no keys, and one for each check that refuses a range or is missing: larger than its
  tree, a tree less deep than its leaves, backwards by so much that the difference wraps to 2, empty,
  longer than its claims in a tree and in a leaf. That a snark which is asked for is right as well
  is proved (`AnswersCoverRanges`), but none is made in the run.

Deadlock is checked in the contracts' runs (the outside always moves). It is not where the
system may stop: `proof_pool` (nothing left to join), and the runs in which every request,
call or run of the binary has ended.

## 4. Fairness and liveness

* `Scheduler!SchedulerFairness`: weak fairness of one spawned future per request. Tokio
  polls it as long as any of the tasks joined in it is ready. Nothing stronger is
  needed for the semaphore and the mutex (tokio's are first come, first served),
  because a request takes finitely many steps. Polling a job that is still running is
  not a step that must end: the loop has no timeout (a TODO says so).
* `DispatcherFairness` (every job ends) and `ChainFairness` (every send gets an answer)
  are assumptions about the outside and are separate on purpose: `RequestsEnd` of the
  scheduler needs both. HTTP calls are steps of the scheduler: the client's retries are
  bounded and end in a response or an error.
* `Fulfillment!FairSpec`: the future runs when it can, the node answers every send, and
  every transaction taken is mined or dropped (`Mine` is enabled while it is pending, and
  `Drop` ends that as well). `SendingEnds` follows although conditions may change between any two
  attempts for ever.
* `LocalServer!FairSpec`: Rocket polls handlers as long as one can go on, and the prover ends
  every proof, well or not. Fairness to each handler is not needed, because each takes finitely many
  steps: a request that never ended would be one that nothing can wake.
* `ProvingServer` states no fairness. `NoCallStuck` says of every reachable state that a call
  under way can go on or waits for one that can; no call takes a step twice and there are
  finitely many, so none can wait for ever.
* A contract's transaction needs no fairness: the EVM runs it to its end or reverts it.

## 5. Proofs

All are machine-checked by TLAPS to the last leaf. They hold for every set of calls,
proofs, requests, intents, keys, roots, every depth, batch size, number of attempts and of
crashes that satisfies the named assumptions, which say what the constants are:

* `ChainAssumption`, `CallAssumption`, `ProofAssumption` (V2), `PoolAssumption`,
  `CircuitAssumption`, `TaskTreeAssumption`, `SchedulerAssumption`, `FulfillmentAssumption`,
  `ServerAssumption`, `KeygenAssumption`, `LocalServerAssumption`: types of the constants, and that
  names such as `NoRequest` name nothing else;
* in `ChainAssumption`, that the accounts are finitely many (an address has 160 bits), so
  that balances can be summed; in `CircuitAssumption`, that `MAX_DEPTH < 32`, since
  v1/intermediate.rs:65 compares a `u32` with `1 << max_depth`. `Powers` gives the provers
  the powers of two below that. `LocalServerAssumption` has depths below 32 as well, for the
  `1 << depth` of local_server.rs:63: what a deeper request does depends on the build and is left out;
* `SnarkSound` (in `CallAssumption` and V2's `ProofAssumption`): a proof the verifier accepts
  has a witness. That is the soundness of the SNARK verifier; that what it says of the witness is
  true of every snark the circuits can make is proved (`ContractsMayAssume`);
* `ProvingServer!ProofAssumption`: a whole proof is not an absent or a cut file.

| Theorem | Statement | Argument |
|---|---|---|
| `GrantsV1Proofs!TypeCorrect` | `TypeOK` | by action; `Transfer` keeps balances natural because `CanTransfer` guards it |
| `…!NoDoublePayment`, `MarkedIffPaid` | `OneGrantPerNullifier`, `NullifierIffPaid` | see below |
| `…!FullBatchesOnly` | in the loop the batch has exactly `MAX_NUM_CLAIMS` claims | the preimages have equal length only then |
| `…!BatchesAllOrNothing` | `AllOrNothing` | `LoopInvariant` at the last turn |
| `…!AccountsAgree` | `AccountsMatchClaims` | `AInv`; see *Balances* |
| `…!FullBatchesAccepted` | `FullBatchAccepted` | what the client packs is what the circuit exposes, word by word |
| `…!V1ImplementsLedger` | `ImplementsLedger` | a commit is one ledger step, all else stutters |
| `GrantsV2Proofs!NoDoublePayment`, `MarkedIffPaid`, `OnlyCommittedClaimsPaid`, `V2ImplementsLedger`, `TypeCorrect` | as named | see below |
| `…!AccountsAgree` | `AccountsMatchClaims` | see *Balances* |
| `…!HonestClaimsPaid` | `HonestClaimPaid` (an action property) | `PathFollowed`; see *Paths* |
| `ProofPoolProofs!TypeCorrect`, `EverySlotProven`, `CountedSlotsInOrder` | `TypeOK`, `SlotsProven`, `SlotsInOrder` | a join of two good snarks is good |
| `…!ClaimRootsAreTrees` | `ClaimRootIsTree` | `TreeJoin`, `DummyTree`; see *Circuits* |
| `…!ContractsMayAssume` | a snark of full depth satisfies `GrantsV1!SnarkSound` and `GrantsV2!SnarkSound`, the padding claim being the record of zeros that V2 names | the invariant, read at `MAX_DEPTH` |
| `SchedulerProofs!TypeCorrect`, `PermitsNeverLeak`, `MutexNeverLeaks` | `TypeOK`, `PermitsConserved`, `HolderIsSender` | see below |
| `…!SchedulerImplementsTaskGraph` | `ImplementsTaskGraph` | `GInv`; see below |
| `…!EveryWitnessFits`, `SentProofIsOfRequest` | `WitnessesFit`, `SentProofCoversRequest` | `FInv`; see *Witnesses* |
| `…!SentBatchAccepted` | the contract call made of any proof that is being sent passes V1's checks exactly if its root is valid and its batch is full | see *Composition* |
| `…!NoFutureLeftBehind`, `SummaryOfEveryTask` | `NothingLeftBehind`, `SummaryComplete` | `EInv`; see *What a request leaves* |
| `FulfillmentProofs!TypeCorrect`, `NothingPaidTwice`, `FulfilledIsPaidOrOvertaken` | `TypeOK`, `RetryPaysOnce`, `FulfilledUnlessOvertaken` | see below |
| `ProvingServerProofs!TypeCorrect`, `OneProofAtATime`, `AnswersBelong`, `ComputedOnce` | `TypeOK`, `MutexHeldByProver`, `AnswersAreOwn`, `ProvedOnce` | see below |
| `LocalServerProofs!CallsInOrder` | the calls under way are a chain of dependencies, each with the snarks of the first of its own | see *Local server* |
| `…!TypeCorrect`, `AnswersCoverRanges`, `BadRangesProveNothing` | `TypeOK`, `AnswerCoversRange`, `BadRangeProvesNothing` | `CallsInOrder` |
| `…!ServerImplementsTaskGraph` | `ImplementsTaskGraph` | a proof that is stored is one step of the graph, an answer one more |
| `…!KeysInOrder` | what is made and written so far is the lower part of the tree of the run's intent | see *Key generation* |
| `…!RunsTypeCorrect`, `ListsAreTrees`, `ListsAreServed` | `KeygenTypeOK`, `TreeComplete`, `CidsServable` | `KeysInOrder` |
| `…!ShortIntentsWriteNothing` | `ShortIntentWritesNothing` (an action property) | the first key needs one entry per level |

*V1.* `NullifierIffPaid` alone is not inductive: a revert restores `saved`, of which it
says nothing, and a commit must know the batch is eligible. `LoopInvariant` says that
the checkpoint is sound, that every claim of the running call is eligible (from the
checks, `SnarkSound` and the injectivity of the packed words once the lengths
agree), and that the log is the checkpoint followed by the batch's first `i` claims.

*V2.* The hard part is that no path leads from an uncommitted claim to a recorded root.
`PathOutside` is the loop's invariant: from a claim that is no leaf of a tree, the running
hash is no node of level `i` of it. It is preserved because `Node` is injective: if the
next hash were a node of the next level, its two halves would be nodes of this one.
`RootsFromProofs` ties what is recorded to an accepted proof. The masked leaves carry
the zero address, which `claim` refuses.

*Paths.* That a right path is paid needs the converse. `PathFollowed` says that inside a call
with the script's path to position `k` of a tree the running hash is the node above `k` in layer
`i`. The sister of a position is inside its layer because layer `d` has `2^(depth - d)` nodes
(`LayerLength`), and the node hashed next is the one above because halving a position
commutes with climbing (`Positions`, `ClimbFollows`). It holds of every accepted proof, so no
order of recording and claiming matters.

*Balances.* `AccountsMatchClaims` speaks of sums over the log and over the accounts. `PartsUnfold`
shows by induction over subsets that such a sum can be taken apart at any element, whatever order
the fold has; from it, that a payment adds its amount to one account's sum and takes it from the
contract's, also when the two are the same account (`PaymentBalances`). For V1 it is not
inductive: a revert restores `saved`, so `SavedAgrees` says the same of the checkpoint, with
the supply of now, which no transaction changes.

*Circuits.* `IInv` is the conjunction of the four properties. A join with a dummy counts only
the left half; a join without one requires a full left half and adjacent ranges, so the
concatenated slots begin with the claims of the joined range (`ConcatJoins`). For the claim root,
the level over two rows of nodes side by side is their two levels side by side
(`SideUp`), so the tree over two rows of leaves is the two trees under one more node
(`TreeJoin`). With a dummy the right row is masked throughout, and its root is what the code
tabulates, by induction on the depth (`DummyTree`).

*Composition.* `ContractsMayAssume` instantiates both contracts beside the pool and shows that
what they assume of an accepted proof is so of every snark of full depth, however it was
made: all slots proved for V1, the layers of the right tree and its root for V2. In the other
direction, `Pool` instantiates the circuits' theorems for the scheduler: each proof its
dispatcher returns is a good snark (`LeafOfPool`, `JoinOfPool`). `SentBatchAccepted` closes the
circle: `Contract` is V1 given what `V1ClaimParams::new` makes of a request and its final
snark. The packed words are the same one by one, and there are `3 + 3n` of them for `n` claims
against `3 + 3 * 2^depth` from the circuit (`WordsCounted`). So every full batch is
accepted while its root is valid, and every other one that got as far as a transaction is refused:
the partial batches of section 6, from the request to the contract and for every capacity.

*Scheduler.* `PermitsCounted` adds that the set of polling futures is finite, so that
cardinalities can be counted one by one; `NotStarted` that accepting a request finds none of its
tasks under way (otherwise it could overwrite a future that holds a permit);
`AttemptsLeft` bounds the retry counter while sending.

*Task graph.* That a task is obtained after those it needs is not inductive for the tracker alone:
`NeedsObtained` says that a future past its first await has all its dependencies
recorded, `TopRecorded` and `SummariesTell` that a request is served exactly with its top task in the
summary. It rests on `TreesClosed`: what `TreeOf` unfolds, level by level from the root,
contains every dependency of its tasks. The levels are there by induction
(`LevelsExist`), and they end at leaves because every dependency is one step nearer to
them (`ChildIsNearer`).

*Witnesses.* `Planned` says of every task of a tree that its claims are those of its range and fit
its circuit; it passes from a task to its pieces (`Cut`, `PiecePlanned`), the short
last one included. `ProofsAnswer` says that the proof of a job that is done is a good snark of its
task's range and claims, and `JobsFollow` that a job exists only once its dependencies have
such proofs. So the witness of a task that is under way is made of proofs in order, with a dummy
exactly where one piece was enough, and the circuit accepts it.

*What a request leaves.* `TrackerInOrder` relates the tracker to the futures that are done; it holds
of every request because recording is one step under the mutex. `EndedBelow` says that a
future goes on only when all its dependencies ended, well or not: `join_all` waits for
every one, also after one failed. The tree is finite, so when the top task has ended all have
(`NothingLeftBehind`), and when it is done the tracker has them all, which is what is written
before the send (`SummariesWritten`).

*Retry loop.* `RetryPaysOnce` needs to know what the chain has done so far.
`AttemptsNumbered` says that each attempt has a slot of its own that is empty before it is
sent; `PaidBySucceeded` that the ledger is exactly what successful transactions paid, so `Fresh`
at mining excludes every one of them, the request's own earlier attempts included;
`TransactionsTell` that a reverted transaction has a reason, which stays true since the ledger
only grows.

*Proving server.* `GotTrue` is the invariant of a call on its way through the caches: whatever it
has looked up belongs to its circuit, no matter what was inserted or cleared since, because every
cache has under a key only what that key's file held (`CachesTrue`). `DiskTrue` relates the files,
the counter and the calls that write: a file that is neither absent nor whole is being written by
the holder of the mutex or was cut. With `MutexHeldByProver` nobody else can read it meanwhile,
which is where `AnswersAreOwn` and `ProvedOnce` come from.

*Local server.* `StackOK` says of every frame of the stack that its task can be proved (`Whole`: at
least one position, no more than its depth has room for or than it has claims), that it has gathered
snarks of exactly the first of its dependencies (`Gathered`), and that the frame above it is for the
next one (`Awaits`). Only the outermost may be a task that cannot be proved, and then it fails
before it gathers anything; a range that runs backwards, wrapped or not, never gets that far. The
snarks of all dependencies side by side are the cover of the task, which a short last piece does not
change, so the answer covers what was posted. `Stored` keeps this of every task that was ever
proved, and that a leaf among them had one claim for each position. That trees are closed under
dependencies, which `TaskGraph` needs, is one lemma (`TreeClosed`) for both schedulers.

*Key generation.* `CallsDown` says that call `n` has the node of level `n - 1` of the tree and the
ks from there on. `NumLevels` falls by one from a node to its child, so the walk ends at a leaf
(`Descends`), and an intent with too few ks runs out of them before that. `MadeBelow`: what has been
returned is the circuit of the level below the innermost call, and `cid_repo` has exactly the nodes
of the levels below. `KeysKept` and `FilesTrue` carry this across runs: a run leaves at most the one
key cut that it was writing (`OneCut`), so when it has written its list every key in it is whole,
and one that is not whole later has been begun again by a later run. The root comes last because a
lower node is `Before` the one above it (`LowerFirst`) and the entries are ascending; circuits of
different levels differ because each is a term nested in the next, so a tree has as many circuits as
levels.

`DataLemmas` has what the backends do not know: induction up to a number, stated over sets, powers
of two, lengths of function-built sequences, concatenation and parts of parts. Recursively defined
functions (layers, levels, sums, dummy roots) are shown to exist by the same induction before
anything is said of them. It also has what two developments share: the levels of a tree of tasks
(scheduler and local server) and what a payment does to a log of claims (V1, V2). The operators of
the standard module `TLC` are opaque to the provers, so `Keygen` says with `Ascending` and `Put`
what `SortSeq` and `@@` would compute.

## 6. Disagreements with the documentation

Each of the first three has a run:

* **Partial batches in V1** (`v1_partial`). README.md:31 and circuit/README.md:60 allow fewer
  than `MAX_NUM_CLAIMS` claims; the contract hashes `numClaims` entries, the root
  circuit always `2^max_depth` slots, so only full batches pass. `FullBatchesOnly` proves it.
* **Concurrency** (`scheduler_orphans`). circuit/README.md:180 promises a maximum number of
  concurrent tasks. An HTTP error while polling frees the permit, not the dispatcher.
* **Proofs that were cut** (`prover_truncated`). circuit/README.md:288 says that the prover returns
  the proof. If `fs::write` is cut at prover/mod.rs:238, every later call for that proof is
  answered with what is left in the file.

What else differs and is in the models, without a run of its own:

* circuit/README.md:180 also says that a task is requested once its dependencies are completed. The
  mutex of the tracker is held while a transaction is confirmed and retried, and recording
  a task needs it, so every other request stands still meanwhile (`Record` in `Scheduler`).
* scheduler_server.rs:119 reports "fulfilled" for a receipt whose status nobody reads
  (contract_client.rs:111), so also for a reverted transaction. `FulfilledUnlessOvertaken` says in which
  cases that happens.
* scheduler_server.rs:129 reports "Failed to fulfill request" although an earlier attempt, whose answer
  was lost, may have paid the batch.
* circuit/README.md:288 ends with "The prover does not cache any proof results"; with
  `--out-dir` it does (prover/mod.rs:215).
* prover/mod.rs:103 says that `reset` clears everything stored in memory; an insertion of a call
  under way may come after it. `AnswersAreOwn` shows that this does no harm.
* The local server's own defaults give `depth = initial_depth` with an Evm node
  (local_server.rs:60), whose request ends in `unreachable!()` (local_scheduler.rs:71).
* An empty range passes the local server's checks and ends in an assertion of the recursion.

## 7. Limits

Only model-checked: liveness (`RequestsEnd` of both schedulers, `SendingEnds`) and `NoCallStuck`
(it uses ENABLED), which are out of TLAPS's reach. Every other property of a passing run is stated
by a theorem. The library's induction theorems cannot be instantiated by the
installed backends; `InductionTo` replaces them where sets are enough.

Abstracted: Groth16 and SNARK verification (oracles `Proven`, `valid`), hashing (injective terms),
field arithmetic (range checks as integer bounds), gas, the assembly that reads calldata,
JSON, logs and command lines. The `cid` of every node of the task tree is taken to
exist in `Scheduler`; `Keygen` shows that a complete list has them. The code tabulates dummy claim
roots up to depth 13 (constants.rs:28), so that V2 circuits over deeper snarks cannot be built; the
model has them for every depth. A snark that is in its file but fails verification, which only
debug builds do, is left out of `ProveFails`.

Not modelled: the generated verifiers (their soundness is `SnarkSound`), tuning of circuits and
serialisation of keys (deterministic functions of the parameters), the delays of the retries inside one
HTTP call (its effect, a task that runs twice, is in `ProvingServer`), the node's
side of a transaction beyond taken, mined and dropped, and the scripts that only format. The
fulfilment of V2 is not composed with its contract: recording a root twice changes
nothing, which `GrantsV2!ValidateClaimsRoot` shows by itself.

## 8. Plan

Done, in this order: the abstract ledger, V1, V2 with its Merkle paths, the circuits and the proof
pool, the task tree and the scheduler, with their proofs; then the retry loop with the chain, the
proving server, both with proofs, key generation, the abstract task graph, its implementation by the
scheduler and by the local server; then the proofs of every invariant and action property of all of
these but one (section 7), and the compositions: the circuits with both contracts and with the
scheduler, and the scheduler with V1.

What could follow:

1. The two transactions of V2, record a root and claim, with the retry loop around the first. Recording
   twice changes nothing, so less can go wrong than with V1.
2. `SentBatchAccepted` together with `RetryPaysOnce`: `Fulfillment` has the contract as
   `GrantLedger` with two conditions, `Fresh` and `Unambiguous`, not as `GrantsV1` itself.

### Running

In this directory: `tlc -workers 2 -config GrantsV1.cfg MCGrantsV1` (likewise for the other
configurations; `PROJECT.json` pairs them with modules) and `tlapm GrantsV1Proofs.tla`.
