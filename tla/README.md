# Cathedral: TLA+ models, TLC runs and TLAPS proofs

Cathedral coordinates Bittensor subnet 39. Miners fetch SAT challenges, send
signed solutions to a *publisher*, and are paid through a signed score feed;
*validators* turn that feed into weight calls on chain. This directory models
the parts of the program in which the order of independent actors, a crash, a
stale read or a boundary decides whether the outcome is right: the submit path
and its gates, the V2 lane and its services, the board, the scores and the feed
they are published in, the mechanism lanes, the validator's mapping, submission,
launch and audits, the public release, and the tools beside them.

Source paths are relative to the repository root; `publisher/` stands for
`scaffold/publisher/`. `PROJECT.json` maps each definition to its lines.

## 1. Inventory

| Component | State | Operations | What is hard | Correct when |
|---|---|---|---|---|
| Submit handler (`publisher/app.py` `agents_submit`) | request in flight | verify inline or admit, shadow twin, accept transaction | status read before verification, several handlers on one challenge | a pair is paid once, a signature is used once |
| Durable admission (`publisher/submit_admission.py`) | `per_miner_attempts` rows with status, lease, body | `admit_pending`, `claim_pending`, three finalizers | idempotent replay, shadow/live cut-over, unguarded finalize | receipts agree with the ledger and are all resolved |
| Verify worker (`publisher/verify_worker.py`) | batch of claimed copies | tick: claim, verify, finalize | crash inside a tick, lease expiry under a live worker | no row lost, none paid twice |
| Ledger and feed (`publisher/scoring.py`, `rows.py`) | solves, signatures, `eval_runs` | `claim_solve`, lock-wins | crash between writes | all of an accept or nothing |
| Retention (`publisher/retention.py`) | ages | delete by age | removes what replay protection reads | signatures still pay once |
| V2 bitset lane (`publisher/v2_bitset_submit.py`, `v2_pipeline.py`, `v2_cnf_store.py`) | tokens, `v2_submit_events`, CNF store, payout ledger | mint, submit, admit, claim, verify, finish, purge | two awaits between read and write, epoch roll-over, configuration drift | what is paid was checked against the CNF of the token, in its window |
| Results files (`publisher/results_publisher.py`) | file per miner | publish after a tick | keys of dictionaries made elsewhere | verified work is shown |
| V2 manifest queue (`publisher/solution_manifest.py`, `v2_pipeline.py`) | `solution_manifests` rows | admit, claim with attempt cap, verify, sweep | abort in mid-batch, attempts lost unseen, dead worker | sound work is not rejected, every row settles |
| Singleton worker (`publisher/store.py`, `app.py`) | advisory lock, heartbeat row | lock, beat, take over | dead holder against slow holder, failed beats, cancelled batches | one loop at a time but in three named cases, a loop in the end |
| Validator submission (`scaffold/validator_thin.py`) | journal, lane file, lock, approval; the chain | tick, sign, broadcast, classify, recover, launch | death between any two durable writes, mortal eras, RPC silence | one live call, none forgotten, order on chain |
| Hotkey rotation (`scripts/sn39_hotkey_rotation_operator.py`) | attempt file, receipt file; the chain | inspect, broadcast, reconcile | no lock between invocations, death around each file, stale review, mortal era | one swap sent, inside its approval, and its outcome on record |
| Thin validator (`cathedral_thin/validator.py`, `core.py`, `score_classes.py`) | state file under a lease: last round, pending vector, high-water marks of reports and registrations | start, accept a configuration change, tick, load signed inputs, submit, retry | state read before several awaits, unknown outcome of a call, owner and UID changes, death or failed save between call and record | one vector per round, the source never rolls back, an unknown outcome is held |
| Board refill, CNF bodies, board cache (`publisher/refill.py`, `cnf_store.py`, `board_cache.py`) | `lane_challenges`, bodies in memory or a bucket, cached board | retire, plan, lease, mint, upload, announce, pre-generate, serve | lease state read before a build, failed put or announce, restart with memory lost | what is served is verified against the body it was minted with; a fresh board is current |
| Live seeding (`publisher/seed_live.py`) | stored rows, two-key watermark, mirrored board | pull a page, insert, save the mark, mirror | death between the two keys, rows of one instant across pages | a resumed seed misses nothing but what a half-written watermark passes over |
| Unplanted sources (`publisher/real_corpus.py`) | none | colouring search, encodings | off-by-one in encodings | a witness solves the CNF it is issued with |
| Submit gates (`publisher/app.py` middlewares, `ratelimit.py`, `per_hotkey_limit.py`, `pressure_telemetry.py`) | windows, buckets, slots, counters | arrive, pass or refuse each gate, reply, fail, disconnect | a slot or counter not returned on one of the exits | every gate is balanced, a flood is bounded |
| Read caches (`app.py`, `materialized_snapshot.py`, `dashboard_snapshot.py`, `top_cache.py`) | entry, refresh flags, timers, advisory lock | read, refresh, fail, hang | hung or late refresh, failure backoff | refreshes are paced, what is served is recent |
| Lean ingress (`publisher/v2_lean_ingress.py`) | local SQLite log | admit, replay, refuse under pressure, flush | two threads on one key, rejected rows replaced | a receipt stands for a row; the backlog is bounded |
| Epoch publisher and CNF routes (`publisher/epoch_publisher.py`, `run_epoch_publish.py`, `cnf_store.py`) | bucket, catalog, readiness | put, verify, catalogue, promote, grant | two publishers, bucket faults, remapped identities | ready is complete, granted bytes exist |
| Solution blobs (`publisher/blob_store.py`, `solution_manifest.py`) | files named by hash | upload, mirror, verifying read | torn file, replaced container | torn bytes are never scored |
| Solver attestation (`publisher/attest.py`) | nonces, multipliers | issue, verify, upgrade | two processes between read and write | a row is multiplied once |
| TEE GPU capacity (`publisher/tee_gpu.py`) | one row, events, external node | offer, request, review, verify, receipts, list | two replicas between statements | active was approved on the evidence of that machine; one listing |
| Solver arena (`publisher/arena_*.py`, `scaffold/lanes/solver_arena.py`) | solvers, instances, champion in memory | register, evaluate, dethrone, settle | memory against database, two settling processes | a record is earned, a round is settled once and for disagreement |
| Weights, external scores (`publisher/weights.py`, `external_scores.py`) | reports, epoch fence, metagraph rows | intake, compose, blend | reads of one build at different times, rounding, mirrored hotkeys | the confidential share holds, mirroring earns nothing |
| Weight feed (`publisher/weights.py`) | policy version, durable row, cache per process | refresh, persist, serve | replicas, death between version and row | versions follow the data; only durable vectors are served |
| CyberGym bridge and mechanism lanes (`publisher/cybergym_*.py`, `mechanism_*.py`) | reports, marks, lane vectors | ingest, verify on read, refresh, compose, allocate, burn | metagraph changing between reads, edited rows | unproven share burns, paid work is authenticated |
| UID mapping (`scaffold/validator_thin.py`) | snapshot of the subnet | preflight, stability proof, mapping | UID changing hands inside the mortal era | weight lands on the signed hotkey |
| Launch review and gate (`scaffold/validator_thin.py`) | approval file | preflight, review, revalidate, consume, authorize | chain, publisher and release moving between steps | what is launched is what was reviewed |
| Provenance audit (`scaffold/validator_thin.py`, `scaffold/provenance_audit.py`) | reserved manifest, event line | fetch, walk, look up, verify, report | background thread, shared state file, dead archive node | every audit is reported, on one line of evidence |
| Event log and status publisher (`scaffold/events.py`, `scripts/publish_sn39_validator_status.py`) | private log, status log, three public files | fence, append, tail, publish | death between rows and between files, torn row | a pass is current; the views match the status |
| Public release and reproduction (`scripts/finalize_sn39_public_release.py`, `scaffold/sn39_public_reproduction.py`) | three published names | prove, stage, link, unlink, read | finalizers of several checkouts, power loss | one release; a rerun succeeds; the verdict is right |
| Durable files (validator, operators, thin subnet) | a file and its temporaries | write, sync, rename, sync directory | power loss between calls, shared temporary name | never torn; what was returned survives, but for a directory sync that failed unsaid |
| Thin miner (`cathedral_thin/miner.py`, `protocol.py`) | permit snapshot, cached answers, solver slot, request window | refresh permits, reserve, solve, complete, evict | a request that waits for the solver while the permits, the window and the cache move | a challenge is solved once; an answer goes to who may ask |
| Policy tools, audit scanner, V2 receipts, release build, chain client, game, edge workers | see section 8 | | | not modelled |

How they interact: a handler and the verify workers share tables through
`store.write`, one transaction each (one TLA+ step); the singleton loop runs the
manifest and bitset ticks; the bitset bridge writes the same `per_miner_solves`
table as V1. Solves, external reports and metagraph rows meet in the score build,
whose vector the weight feed publishes; the validator maps that vector to UIDs at
a finalized head and sends it through the journal. Validator processes of one host
share a lock file, the journal, the lane file and the reserved line of evidence;
the launch gate and the audits decide whether a tick may go on; the logger's
status log is what the status publisher reads. Invocations of the rotation tool
share two files named after the hotkey that is replaced; thin validators started
on one state file meet at its lock, and the chain's owners and UID holders move
under all of them.

`PROJECT.json` lists the hazards at their lines, each with the properties that
would catch it or the reason none does.

## 2. Modules

| Module | Models | State and actions |
|---|---|---|
| `PayoutLedger` | the promise of the submit path | `spent`, `paid`, `open`; `Spend`, `Pay`, `Close` |
| `SubmitQueue` | submit handler, admission, verify workers, retention, retirement | tables `attempts`, `burned`, `solves`, `feed`, `chal`; program counters of handlers and workers; one action per transaction |
| `SubmitQueueProofs` | | theorems about `SubmitQueue` and its refinement of `PayoutLedger` |
| `RequestGates` | middlewares, limiters, slot semaphore, counters | a request in flight per slot, its place in the stack; one action per gate and exit |
| `ReadCaches` | soft-TTL cache, timer snapshots, top cache, worker readiness | a payload is the time it was finished |
| `WeightChain` | the promise of a validator host to the chain | `writes`, a sequence that may only be extended by newer, one-way writes |
| `ValidatorSubmission` | journal, lane file, lock, tick, recovery, launch | one action per durable write or chain call; `FinalizeBlock` is the chain |
| `ValidatorSubmissionProofs` | | theorems about `ValidatorSubmission` and its refinement of `WeightChain` |
| `UidMapping` | preflight snapshot, replacement safety, stability proof, mapping | `subnet` from UID to hotkey and registration block; the subnet's registrations and transfers are external |
| `LaunchGate` | preflight review and launch tick | approval, the facts it binds, and the world that changes under them |
| `ProvenanceAudit` | shadow and authority audits | place of every audit, its index and lookups; `reserved` is the shared line |
| `StatusStream` | logger and status publisher | two logs, three public files, half rows |
| `PublicRelease` | finalizer and reproduction reader | the published directory in memory and as last synced |
| `DurableFile` | every durable writer, by its choices | inodes and directory entries, synced or not |
| `V2Bitset` | tokens, thin submit, verify workers, bridge, results files | a configuration names the CNF it generates, so drift and stale stores are visible |
| `V2Manifests` | manifest queue | `rows`, `arrival`, each worker's phase and its batch, as positions of `arrival` |
| `V2Blobs` | blob store and its three routes | contents of each file: none, empty, part, whole |
| `V2Artifacts` | epoch publisher and the routes that hand out a challenge | bucket, catalog, readiness, place of every run |
| `LeanIngress` | lean V2 ingress | the local log, who holds its transaction, place of every thread |
| `ServiceProofs` | | theorems about `V2Bitset`, `V2Manifests`, `LeanIngress`, `SolverAttest` and `SingletonLock` |
| `BoardRefill` | refill loop, pre-generation, bodies, cached board | a body tells two files apart by their seed; a mint is leased or local, and its passes and writes may fail |
| `ChallengeSources` | seeding from the live feed; unplanted challenges | page cursor and watermark, written in two steps; `jumped` remembers the rows a half-written watermark passed over; the colouring search step by step |
| `ScoreBuild` | blending arithmetic; a build against moving tables | scores in units of 1/Grain; one action per query |
| `WeightFeed` | refresh, version, durable row, caches | data is a counter; what is served is the data it was composed from |
| `Mechanisms` | CyberGym ingest and adapter; router and bridge over three lanes | reports, marks, metagraph rows; lane vectors, one action per read |
| `SolverAttest` | nonces and score upgrades | reads first, one transaction later |
| `TeeGpu` | capacity row and its handlers | statement by statement across processes |
| `SolverArena` | registration, evaluation, settlement | champion in memory, solvers and instances in the database |
| `Absent` | | the constant `NONE`, shared by the service modules |
| `SingletonLock` | advisory lock, heartbeat, take-over | `holder`, `idle`, `beat`, place of every process; a batch has no limit and a beat may fail; `quiet` and `lost` remember how long a loop wrote no beat and whose lock was freed under it |
| `HotkeyRotation` | review, broadcast, reconciliation | `stateFile`, `receipt`, `reviews`, place of every invocation; `sent`, `landed`, `head`, `nonce`, `world` are the chain |
| `ThinValidator` | state file, lease, tick, submission and retry | `disk`, `mem` of every process, `draft` of its tick, `calls`; `round`, `seats`, `authority` are the chain |
| `ThinMiner` | the thin miner of one process | `permitted`, `allowedCallers`, `requests`, `rounds` (the LRU), `tasks`; one action per await of a handler and of the refresh |
| `HostProofs` | | theorems about `HotkeyRotation`, `ThinValidator`, `LaunchGate`, `DurableFile`, `PublicRelease`, `ProvenanceAudit` and `StatusStream` |
| `PublisherProofs` | | theorems about `V2Artifacts`, `TeeGpu`, `V2Blobs`, `SolverArena`, `UidMapping` and `ReadCaches` |
| `ScoreProofs` | | theorems about `ScoreBuild`, `WeightFeed` and `BoardRefill` |
| `ServingProofs` | | theorems about `RequestGates`, `ChallengeSources`, `ThinMiner` and `Mechanisms` |
| `SetSums` | | lemmas about naturals, finite sets and sums over them, used by the proofs |
| `MCSubmitQueue`, `MCValidatorSubmission`, `MCV2Bitset` | instances of one component | constants |
| `MCServices`, `MCChainTools`, `MCRelease`, `MCScores`, `MCServing` | instances of several components that share no state | the initial state chooses the component, the others stay in theirs; `MCServices` states the fairness of each |

Correspondence in short:

* `store.write(fn)` is one step. Everything between two writes is a point where
  another actor moves, a lease runs out or the process dies. The accept
  transaction burns the signature, claims the solve, writes the feed and closes
  the receipt in one step because the code does (`app.py` 7436-7505).
* A worker works on the *copy* it claimed, as `claim_pending` returns rows; the
  finalizers write by id, so a late worker really overwrites.
* Leases, locks and ages are small counters moved by a clock action; a deadline
  passes between any two steps of a slow actor.
* SHA-256, HMAC and signatures are the identity of what they cover. SAT checking
  is membership in `Good` (or equality of witness and configuration).
* Validator attempts are identified by lane, version, window end and
  authorization, which is what the digest distinguishes. Weights, UIDs and
  vector verification can only refuse a tick and appear as that refusal.
* The thin validator has one external class with an owner registration. A step ends
  at each save, chain read or download; reports and registrations are the signed
  documents the mirrors may serve, and peer grades, EMA and weight arithmetic only
  decide whether there is a vector.
* Files created with `O_EXCL` and then fsynced are two steps, with a torn file
  between them; a file that is replaced by rename is one.
* A replica, thread or handler that reads the database several times is one step
  per read; what it read is kept in its local state and may be stale when used.
* Scores are natural numbers in units of `1/Grain`: rounding is kept and made coarse.
  The mechanism router splits a lane's fraction in floating point
  (`mechanism_router.py`), with no rounding step to model: there the unit is one that
  every total of scores up to `MaxTotal` divides (twelfths in `serving`), so that the
  shares of the model are the exact ones.
* A power loss undoes what was not synced: an unsynced file may be torn, an
  unsynced rename undone. The death of a process only loses its memory.
* A configuration switch of a deployment is a variable or record chosen in the
  initial state, so one run covers every deployment of the component.
* A mutated copy of a definition (`X_something`, "Mutant:" in its comment) stands
  before `X`. It is a plausible mistake, and the property named with it in
  `PROJECT.json` catches it.

## 3. Plan

1. Done: every component whose actors share state is a module. Proved: the submit
   path, the V2 lane and queue, the lean ingress, attestation, the singleton lock,
   the validator's submissions and the two programs that write to the chain beside
   them, the launch gate, the durable files, the public release, the audits, the public status, the epoch
   artifacts, the GPU capacity, the blobs, the solver arena, the UID mapping, the read
   caches, the score build, the weight feed, the board, the gates, the challenge sources,
   the thin miner and the mechanism lanes, each with every safety property its runs check.
2. Theorems: no invariant of a passing run is left without one. What has none is liveness
   (section 6).
3. Modules to come: a composition of `LeanIngress` with `V2Bitset` against the
   abstract promise "an event is admitted once".

## 4. Runs

All passing runs are exhaustive for their bounds. Several of their properties are
conjunctions; the table after this one names the parts. `...Sound` is the invariant of
one program or service, looked at in the behaviours that run it.

| Run | Instance | Shows |
|---|---|---|
| `submit_lanes` | a winner-take-all public and a pm challenge, deployments changing between inline, shadow and queued, retention on | the shadow lane never pays or replaces a live receipt, one winner, a signature pays once |
| `submit_liveness` | one public challenge, a handler, two workers, a bad body, leases of one tick, one crash or dropped request, fairness | nothing paid twice, receipts and ledger agree, a rejected receipt stays rejected, refinement of `PayoutLedger`, every receipt is resolved |
| `submit_stale_reject` | two workers, one receipt | finding 1 |
| `validator_recovery` | a relay, one death anywhere, windows of one and two blocks against an era of two, fairness | no retired call can land, no call on chain is forgotten, every signed attempt is settled |
| `validator_launch` | launcher, relay and authority, one authorization for one attempt, calls may fail | one live call, budget, continuous operation only after a successful launch, recorded receipts are true, refinement of `WeightChain` |
| `validator_contradiction` | a relay | finding 2 |
| `v2_bitset` | a challenge over three epochs, two configurations, two identities, two workers, one configuration or coldkey change, one failure, fairness | paid witnesses were checked and in window, verified is paid, every event is resolved |
| `services` | lock: three processes, two deaths, cancellations or broken sessions, limit 2, batches and pauses of any length, beats that fail; queue: a sound and an unsound manifest, two workers, two attempts, two aborted ticks; rotation: one operator and one review; fairness | one loop at a time but for the three cases `OneLoop` names, a lost lock is taken over, sound inline work is not rejected, manifests settle, a swap that executed ends in a finalized record |
| `chain_tools` | rotation: two operators, two reviews for two replacements, an era of two blocks, one change of the chain's state or one death; thin validator: two processes, three reports (two of one epoch), three registrations, two rounds, two calls, one change of owner or UID holders, one configuration change, one death or failed save | one swap at most is sent and it is on disk, it lands inside its approval, a finalized record is true, a verdict of absence is final; a round has one vector, the reports behind the calls never go back or fork, a call is not repeated on an unknown outcome without the operator |
| `release` | files: each tool, two writers, three writes, two faults; status: three events, a tail of two, two publications, one fault; release: two finalizers, two reads, two faults; audits: two processes of each mode, two audits, one death; launch: blocks 3 to 5, an approval of three blocks, an era of two, two changes of the world | what the validator host keeps and shows is whole, current and what was reviewed |
| `scores` | three miners, two challenges, two replicas of the feed on either backend, subnets of three and five UIDs, two GPU processes, two solvers and two payers, one tier of the board, two epoch publishers with a bucket fault | what the publisher signs, and what it rests on, is what was earned |
| `serving` | two miners and three UIDs in the lanes, three runs of attestation, two ingress threads, five deployments of the gates, two threads on the caches, two webs on the blobs, eight feed rows in pages of two with three passes, graphs of three nodes and Latin squares of order two, a miner with a cache of one, one solver slot and two tasks for one validator, two rounds and two formulas | what miners and readers meet: receipts stand, gates are balanced, reads are recent |

| Property | Parts, beside the types |
|---|---|
| `LanesPayRight` | `ShadowNeverPays`, `SingleWinner` |
| `LedgerAgrees` | `RanksDistinct`, `OnlyVerifiedPaid`, `ReceiptMatchesLedger` |
| `RecoveryInv` | `ExpiredNeverIncluded`, `EveryWriteAccounted` |
| `LaunchFenced` | `LiveIsFenced`, `FinalizedIsOnChain`, `BudgetRespected`, `ContinuousAfterLaunch` |
| `BitsetInv` | `PaidWitnessChecked`, `SolvedInWindow`, `VerifiedIsPaid` |
| `QueueInv`, `WorkersRecover`, `SwapRecorded` | `SoundInlineNeverRejected`; `LoopRecovers` and `ManifestSettles`; `RotationCompletes` |
| `SwapInv`, `ThinInv` | `LandsInsideApproval`, `FinalizedIsProven`, `AbsentNeverLands`; `OneVectorPerRound`, `SourceNeverRollsBack`, `UnknownIsHeld` |
| `FileInv`, `StreamInv` | `NeverTorn`, `ReturnedSurvives`; `PassIsCurrent`, `ViewsMatchStatus` |
| `RelInv`, `AuditInv`, `LaunchGateInv` | `RerunSucceeds`, `OneRelease`, `VerdictIsRight`; `EveryAuditReported`, `AnnouncedOnOneLine`, `AttemptIsAudited`; `LaunchedIsReviewed` |
| `ScoresSound`, `FeedMovesForward` | `ConfidentialShare`, `MirroringEarnsNothing`; `VersionFollowsData`, `ServedWasDurable` |
| `UidInv`, `GpuInv` | `LandsOnSigned`; `EvidenceWasVerified`, `OneAddNode`, `ActiveWasApproved` |
| `ArenaInv`, `BoardSound`, `ArtifactInv` | `RecordEarnedOnce`, `SettledOncePerRound`; `ServedIsVerified`, `FreshBoardIsCurrent`; `ReadyIsComplete`, `GrantedBytesExist` |
| `LanesSound`, `AttestInv`, `IngressInv` | `UnprovenShareBurns`, `PaidIsAuthenticated`; `MultipliedOnce`; `ReceiptStands`, `BacklogBounded` |
| `CacheInv`, `BlobInv` | `RefreshesPaced`, `ServedIsRecent`; `TornNeverScored` |
| `IntakeSound` | `GatesBalanced`, `FloodBounded` of the gates; `ResumeMissesNothing` of the seed, `WitnessesAreSolutions` of the corpus, `WitnessIsAsked`, `OneFormulaPerRound`, `RateHolds` of the thin miner |

Why the bounds are enough. The races are between two actors on one row, so two
handlers, two workers and one or two rows contain each order; a third actor only
repeats a role. A lease or lock of one tick is the shortest that can be valid
and can run out. One crash suffices for a property that a single lost step
would break, and the second death in `services` lets the successor die too.
Three epochs are a challenge's own, its grace epoch and the first one that
refuses it. Five blocks hold a whole mortal era of two, the block after it and a
second attempt. Six blocks hold the four of a rotation's approval after its
review and the first one that is refused; two operators with two reviews are the
smallest race for the attempt file. For the thin validator two calls are the least
that can disagree, and two reports of one epoch with a successor of one of them
the least that can fork; the properties are conditional on no process dying after
a save of its own failed, since nothing on disk can then know the call. A third
durable write shows a file replaced after it was returned, and a second fault a
power loss after a death. Two publications are the least in which a status can be
older than its views; two releases, audits or epoch publishers the least that can
disagree. Subnets of three and five UIDs hold an owner, a burn UID and signed
miners with and without a free or prunable UID beside them. Three miners on two
coldkeys are one that mirrors another and one that does not. Pages of two over
eight rows put equal times inside a page, across two and at the end. A tick is
shorter than each time limit it is compared with, so every limit is met from both
sides. Bounds are the constants named `Max...` and, where a range is meant,
`First...` and `Last...`; where reaching one ends every behaviour the configuration
turns the deadlock check off, elsewhere it is on. Retention is off in
`submit_liveness` because `NoDoublePay` depends on solve rows that retention
deletes; `SignaturePaysOnce` is checked, and proved, with it on.

## 5. Fairness

* Verify workers and the V2 ticks: weak fairness of each worker's step, since
  `verify_loop` and the singleton `_loop` are `while True` loops that catch every
  exception; time passes, so a lease ends.
* Singleton lock: time, retries, the top of each tick (whether or not its beat is
  written) and batch ends. Neither a restart nor the
  server's clean-up of a dead session is assumed: recovery is due to the
  take-over alone.
* Validator: blocks keep being finalized; a process that exits is started again
  (`Restart=on-failure`, `deploy/sn39/cathedral-validator-sn39.service` line 37);
  strong fairness on the answers of the RPC node, since recovery asks again on
  every start and liveness cannot be had from a node that never answers.
* Rotation: a running tool moves on, its node answers at last (strong fairness of
  the positive answers), and an operator reconciles a pending attempt again, as
  the tool's refusals tell them to. No second broadcast is assumed.
* The fairness of the services is stated in `MCServices`, beside the choice of the
  service it belongs to.
* `release`, `scores`, `serving` and `chain_tools` check safety and assume none.
* Nothing is assumed of miners, deployments, retention or epoch roll-over.

## 6. Proofs

Seven modules of theorems and one of lemmas they share (`SetSums`); each theorem holds for every value of the constants that
satisfies the assumptions of the module it is about. `Max...` bounds are constants
like the others: no theorem depends on their values. `NONE` is no member of the sets
whose members it stands beside (`NoRowIsNone`, `NoneIsNothing` and the like), and
numbers are natural numbers.

`SubmitQueueProofs` (any requests, receipts, handlers and workers, batch size, lease,
retention age; assumptions `RequestsAssumption`, `BoundsAssumption`):

* `TypeCorrect`: `Spec => []TypeOK`. Inductive with `LedgerFinite`, because ranks
  are cardinalities. One step per action, with lemmas on row and worker updates.
* `SignatureOnce`: `Spec => []SignaturePaysOnce`, with no condition on retention.
* `PayOnce`: with retention off, `Spec => []NoDoublePay`. Not inductive alone:
  `LedgerInv` adds `PaidLeavesTrace`, that what the feed paid has a solve row, so
  the test inside the accept transaction sees it.
* `SubmitImplementsLedger`: with retention off, `Spec => ImplementsLedger`. Every
  step is first shown to be a `LedgerStep` (one of four effects on the four
  payout tables), and each of these simulates a step of `PayoutLedger` under the
  mapping `spent <- burned`, `paid <- Paid`, `open <- Active`.
* `VerifiedPaid`, `ReceiptsAgree`, `LanesRight`: retention on or off. What a
  receipt says of its request (`RowHolds`), what a worker holds of the rows it
  claimed (`WorkerHolds`) and the lane of a twin (`TwinsArePm`) are one
  invariant, `QueueHolds`. Each step has one `Fate` per row, such as kept,
  deleted, filed, claimed or closed; the invariant follows row by row. `SingleWinner`
  needs that the winner locks its challenge (`WinnerLocks`).
* `TerminalReceipts`, `AdmitLeavesReceipt`: the action properties, from the same
  fates; the second looks at the one step that answers a queued submit.
* `LedgerAgreement`: with retention off, `Spec => []LedgerAgrees`; `RanksDistinct`
  needs what ties ranks to the solves they are counted from (`RankInv`).

`ValidatorSubmissionProofs` (any processes and modes, budgets, authorizations,
windows, eras, deaths; assumptions `ConstantsOK`, `NoneIsNothing`):

* `Submissions`: `Spec => []SubmissionInv`. `DataInv` relates the journal, the lane
  file and the chain: the pending record and its id, the history below the
  high-water marks, the budgets, and the chain (`ChainFits`: calls are included in
  nonce order and inside their era, and the only call that can still be included is
  the pending attempt, at the nonce after the finalized one). `ProcInv` says what
  each process may rely on at its place, while it holds the lock. The processes'
  steps touch one half or the other; a block touches the chain alone.
* `Recovered`, `HostFenced`: `RecoveryInv` and `LaunchFenced` follow from it.
* `HostImplementsChain`: `Spec => ImplementsWeightChain`. Only a finalized block
  moves the chain; the others are stutters of `WeightChain`. `ChainFits` and
  `HistoryFits` make each included call one the abstract chain allows.

`ServiceProofs` (assumptions of the five modules, none on their number of processes):

* `BitsetSafe`: `BitsetSpec => []BitsetInv`. `LaneInv` adds that a queued key has its
  row and that a worker's verdict was true of the row, whose token and witness
  never change: so two workers on one row cannot disagree about what they pay.
* `QueueSafe`: `ManifestSpec => []QueueInv`. `DecidedInline` adds that a sound row
  with an inline copy, of an owner that has not changed, waits for its first claim, is
  claimed or is verified: it never waits for a retry, so the sweep never finds its
  attempts used up.
* `IngressSafe`: `IngressSpec => []IngressInv`. `LogInv` adds that a thread
  inside its transaction holds the write lock, so that what it read of the log is
  still so, and that a receipt's row is of its attempt or a later one.
* `AttestSafe`: `AttestSpec => []AttestInv`. `AttestBook` ties the flag, the
  multiplier and the attestation of a row, and lets a process rely on the nonce it
  checked before, since nonces are only ever marked as used.
* `OneLoopAlways`: `LockSpec => []OneLoop`, for any processes, steal limit and number of
  deaths, with no condition on the length of a batch or on the beats that are written.
  `LockInv` adds `LoopHoldsLock` (a looping process is the holder or is in `lost`) and
  `HolderLooksAlive` (the session or the heartbeat row of a looping holder is no older
  than its silence), so that the two guardrails together hold only for a holder that is
  dead or overdue. The three exceptions of `OneLoop` are what the code leaves open: see
  the observations on the singleton below.

`HostProofs`, the programs that write to the chain:

* `SentAlwaysRecorded`: `RotationSpec => []SentIsRecorded`, for any number of
  invocations, reviews, replacements and deaths (`RotationConstants`,
  `NoneIsNoFile`). The inductive invariant `RotationInv` adds types and
  `RecordInv`: the invocation between creation and fsync is alone and the file is
  torn meanwhile; each one past it, a reconciliation too, works on the call the file
  records. So a step that sends has a record, and the one that replaces the file
  keeps its call.
* `SwapHonest`: `RotationSpec => []SwapInv`. `SwapHolds` adds to it that a call is
  signed for an era inside its approval, that what landed was sent, landed in its era
  and used up its nonce, that an absence was declared after the era, and that an
  invocation past the receipt finds its own on disk.
* `ThinKeepsWord`: `ThinSpec => []ThinInv` (`ThinConstants`, `NoStateIsNone`), for any
  processes on one state file. `ThinBook` follows one state, `Known`: the memory of
  the lease holder, or the file when nobody holds the lease. Every vector that was
  sent is behind it (`SentFits`: of an older configuration, an earlier round, or the
  one pending; its report the mark or an earlier epoch), and the last call of the
  pending vector failed, was lost or is marked unknown (`Held`). A restart adopts
  the file, which is `Known` unless a save failed; hence `NothingForgotten`.

`HostProofs`, what is released and kept (assumptions `LaunchConstants`, `FileConstants`, `FileNames`,
`ReleaseConstants`, `AuditConstants`, `NoAuditIsNone`, `StreamConstants`; none on the number of launchers, writers,
finalizers or auditors):

* `LaunchReviewed`: `LaunchSpec => []LaunchGateInv`. `LaunchIInv` adds
  `LauncherKnows`: what the launcher has established at each of its steps, of the
  evidence it loaded, the map it read and the approval it took, in the words of the
  approval's own bindings. The map moves meanwhile; a reading is of the head only
  while no block has followed it (`ReadingCurrent`), and that is what the last
  reading before the signature is compared for.
* `FilesDurable`: `FileSpec => []FileInv`, for each of the code's ways to replace a
  file. Where writers are `Apart` (a lock, or a fresh temporary name each), what the
  name refers to, now and after a power cut, is `Solid` and each writer `Owns` its
  temporary; under the lock the versions are `Serial` besides. A write counts as
  returned (`acked`) when its directory was synced: `StateStore.save` of the thin
  validator returns when that failed, too, and of such a save only the wholeness of the
  file and the survival of what was synced before it are promised. Where they share a
  name without a lock nothing of that holds, and `FileInv` promises nothing there.
* `OneSeal`: `RelSpec => []RelInv`. `RelIInv` says what a finalizer may rely on at
  its place (`RunRight`), that a name which survives a power cut is the name seen and
  a signature names a release on disk (`DirectoriesRight`, `Sealed`), and what the
  public reader has looked at (`ReaderRight`). A name once on disk is never unlinked
  or replaced, so all that was sealed is one release. `ReleaseConstants` bounds what
  can be wrong with a payload by `ReleaseFacts`, the facts some check looks at.
* `AuditsOnOneLine`: `AuditSpec => []AuditInv`, for any processes on one state file and
  any indexes the evidence host serves. `AuditIInv` numbers the audits of a process: what
  was reported, what its main thread holds and what is queued count on from each other
  (`InOrder`), and the one in flight is the next (`InFlight`). An authority has no queue,
  and its main thread waits for its audit under the tick's lock (`OnMain`). Every
  reservation passes the fence against the last one, so any two of them are in order
  (`OneLine`), and from its reservation to its attempt an authority's manifest is on that
  line, and the last one of it when nobody reserves outside a tick (`Reserved`): the
  hypothesis of `AttemptIsAudited`, which a `--once` validator does not meet.
* `StatusIsCurrent`: from its initial states the status stream keeps `StreamInv`, for any
  events and sizes of the tail. While no line is torn, each committed row is of an event
  whose successors in the private log have their fences behind that row (`RowsInOrder`),
  so nothing that bears on the authority is newer than the launch a PASS was read from,
  whether it was committed (it would be in the tail) or not (its fence would be): the
  tail keeps all it shows that is newer than a row it keeps (`TailKeeps`). `DocFits`
  carries this from the reading of the status log to the marker, and the recheck of the
  source is what lets the private log stand for it.

`PublisherProofs` (assumptions `ArtifactAssumption`, `GpuConstants`,
`NoCapacityIsNone`, `NoManifestIsNone`, `ArenaAssumption`, `UidConstants`,
`SubnetsAreMaps`, `OwnerStays`, `VectorsAreSigned`, `CacheAssumption`, `NoEntryIsNone`):

* `ArtifactsComplete`: `ArtifactSpec => []ArtifactInv`, for any publishers racing on
  one bucket, identity lists and faults. An object is never overwritten, so what a
  run has read back stays so; `ArtifactIInv` says what a run has published so far
  (`RunFits`), that a catalogued object is stored (`CatalogFits`) and that a ready
  row lists published artifacts (`ReadyFits`), also while another run with a shorter
  list replaces it.
* `CapacityApproved`: `GpuSpec => []GpuInv`, for any processes, machines and policies.
  `GpuIInv` says what a handler may rely on between its statements (`HandlerFits`:
  a view that was let through, evidence the verifier accepted), counts the commands
  that run against the times the row was replaced (`CommandsCounted`), and with one
  process equates what a handler read with the row (`AloneFits`). `OneAddNode` is
  stated with `replaced` because one command alone is not what the code keeps: a
  row that is created again, or reopened for another listing, may be claimed while
  the command for its predecessor still runs.
* `BlobsWhole`: `BlobSpec => []BlobInv`: each file and manifest keeps its shape under
  deaths and redeploys, and a torn copy is never scored from.
* `ArenaFair`: the arena started in its initial states keeps `ArenaInv`, for any
  solvers, batches and settling processes. On the side of the solvers, `ArenaIInv` keeps
  one row per commitment (`RowsFit`), what the tick still has to do among those rows
  (`TickFits`), and that a commitment with a record is no longer pending for it
  (`RecordsFit`). On the side of the instances, `PayerFits` says what a settling process
  may rely on of the copy it took, and `LedgerFits` that the last payment of an
  instance is the one its row knows, so a second one of the same round needs a payment
  of another round between them (`OncePerRound`). `Disagrees` is carried from the
  moment a payment falls due to its record: the champion of that tick timed out on the
  instance and another solver closed it in time, with a genuine certificate.
* `UidsLast`: from its initial states the UID mapping keeps `UidInv`, for any subnet,
  policies, vectors and era. `UidIInv` says of the snapshot (`Kept`) what stays true of
  it while the chain moves: no step changes the set of immortal hotkeys
  (`ImmortalKept`: losing a hotkey that is not immortal promotes no other one past the
  limit), and while the era lasts the registrations it still admits (`Left`) find a
  free UID where the code counted on free ones, and a prunable hotkey where it counted
  on a buffer (`RoomLeft`); so a hotkey the code called safe, whose coldkey had no
  announced swap, holds its UID to the end of the era. The rest is what the four
  mappings name (`MeansVector`). `OwnerStays` is an assumption about the chain that
  `replacement_safe_hotkeys` makes tacitly: if the subnet's owner registered its own
  hotkey anew within the era, the last hotkey under the limit would cease to be
  immortal.
* `ReadsRecent`: from its initial states each of the caches keeps `CacheInv`, for any
  builder threads, snapshots, processes and limits. `Paced` is the soft cache: with
  first builds in the background and no build given up as hung, the one builder that
  runs is the one its entry speaks of, and the entry remembers the failure before it,
  so a failed refresh is not tried again before the back-off has passed. Once a build
  was given up as hung, its thread may still write and nothing of that is promised.
  `TimersFit` and `HeartbeatFits` are the timer snapshots and the worker readiness: a
  payload's time is the time it was finished, also when a later build fails, and a
  cached "ready" ends within `ReadyCache` of a heartbeat that was young enough.

`ScoreProofs` (assumptions `BlendConstants`, `ScoreConstants`, `FeedConstants`,
`NoVectorIsNone`, `BoardAssumption`), for any miners, coldkeys, challenges, replicas and
tiers:

* `ScoreSafety`: a build started in its initial states keeps `ScoreInv`, while reports,
  solves and metagraph rows move between its queries. `BoardFits` and `ReportsFit` say
  what the tables hold, `BuildFits` what a build carries from query to query. The last
  step filters by the rows once more; a blend is signed only if its components still
  have the exact share, and a vector of the confidential source alone has no base mass
  to begin with (`FinalShare`), which no later filter can add. Mirroring earns nothing
  on any board: an identity's units depend on what its hotkeys solved together
  (`SameWork`) and are split among them, each share rounded once (`Evenly`).
* `FeedForward`: from its initial states the weight feed never moves backwards, an action
  property. `AllWon`: a vector that is persisted or cached was written by an attempt
  that won its version. `BuildsFit`: the data of an attempt is no newer than the data
  version, and on Postgres it holds the build lock and has read at least what the
  persisted vector was composed from, whatever replica died before it.
* `BoardSafety`: from its initial states the board keeps `BoardInv`. `MintsFit` and
  `CopiesFit`: each cached, uploaded or leased copy is the body its row was minted
  with, except in a deployment where the fallback may mint an id twice (`MintsTwice`).
  `SnapshotFits`: the snapshot that is built, and the fresh one, is `ActiveBoard` of
  the rows whenever no change waits for its announcement.
* `ScoresAreSound`, `BoardIsSound`: hence the invariants of the run, with the other
  components beside them.

`ServingProofs` (assumptions `GateAssumption`, `SeedAssumption`, `CorpusAssumption`,
`MinerConstants`, `NoResponseIsNone`, `CyberGymConstants`, `MechanismConstants`), for any
requests, gates, rows, boards, graphs, callers and lanes:

* `GatesHold`: from its initial states the stack of gates keeps `GateInv`. `PermitsFit`:
  the free permits and the requests that hold one make up the cap. `PressureFits`: what
  the telemetry counts in all is what its groups hold and what it dropped. `WindowsFit`
  is the count of a window, for peers whose address the edge appends. `BucketsFit`: the
  tokens left and what was let through since any moment stay within the burst and the
  refill since then, for a forgotten bucket too; that step needs a bucket idle that
  long to be full again (`refill * IdleTtl >= burst`, in `GateAssumption`, true of the
  defaults).
* `SeedResumes`: from its initial states the seeding keeps `SeedInv`, whatever fails and
  wherever a pass is killed: a resumed pass misses no row but those in `jumped`, which a
  death between the two writes of a checkpoint put there. `MarkFits` says that all other
  rows up to the watermark are stored, and how far the mark has moved between its two
  writes; `CursorFits`, `NewestFits` and `PageFits` say the same of the cursor, of the
  newest row seen and of the page being read.
* `CorpusSolves`: the models of an encoding that is handed out are the solutions of its
  puzzle, and there is one, for graphs and Latin squares of every size. `SearchFits`
  follows the colouring search, whose result is proper or none; the rest is that
  one-hot clauses name one value per place, and that as many values as places, all
  different, use each value.
* `MinerHonest`: `MinerSpec => []MinerInv`, for any callers and size of the cache.
  `RoundShapes` and `WitnessesFit`: a stored answer solves the formula of its round, and
  a round that waits for the solver keeps the formula it was reserved with. `KeysFit`:
  while the LRU has not evicted a key, its one working task finds its reservation
  there, and what was answered for it is what it keeps. `RateBook`: each grant that
  still counts is among the attempts the miner remembers of that caller, in this
  window and in every later one.
* `LanesHold`: from their initial states the mechanism lanes keep `MechInv`. Each part
  of `LaneIInv` is about one variable (`GraphFits`, `ReportsFit`, `SpecsFit`,
  `VectorsFit`, `AllocationFits`), and `WorkersFit` says what a worker may rely on
  between two reads of the metagraph, where UIDs change hands: `ProvenDoc` of the
  report it read, not of the rows it reads next. What a lane pays out is its fraction,
  summed over UIDs (`SumFibres`, `ShareExact`), and what all lanes and the burn UID are
  paid is the whole (`SumExchange`); so what no fresh, proven report supports is burnt.
* `IntakeIsSound`, `LanesAreSound`: hence the invariants of the run, with every fault of
  the seed, the death between the two keys included.

`SetSums` gives the operators of the community modules their meaning in the proofs. A sum
over a finite set is the number of its units (`SumIsCount`), so what the library's
theorems say of cardinalities carries over to sums; `FiniteInduct` adds one member after
the other where a sum has to be built up. Both rest on `SetInduction`, which takes a set
and not an operator and so is within reach: it comes from the well-founded order of
finite sets.

The conclusions of these theorems are properties of the runs, so TLC checks each on
its small instance; the inductive invariants hold on the same instances.

Only model-checked: the liveness properties `SignedAttemptSettled`, `EventResolved`,
`EveryReceiptResolved`, `WorkersRecover` and `SwapRecorded`, since fairness and `ENABLED`
are outside the prover's reach, and with them that the models make progress at all. The
violations of section 7 are shown by TLC alone. Theorems of a component in a run of
several are about its initial states and its steps; the run's specification is the
disjunction of such components, with the others at rest. No module uses a `RECURSIVE`
operator.

## 7. Findings

1. `submit_stale_reject`: `_mark_rejected` writes by id alone, so a worker whose
   lease ran out turns the ranked, paid receipt of its successor into
   `rejected`. The payment stands; the miner's receipt lies.
2. `validator_contradiction`: aborting or expiring a later reservation pops the
   pending keys and leaves the finalized record, which the next restart reports
   as a contradiction although every call on chain succeeded.

Smaller observations, met while modelling and without a run of their own. The
models keep the behaviour; where a property would meet it, the property names it
as the exception.

Submit path, V2 lane and services:

* A manifest that loses its worker on the last attempt stays in `verifying`
  (`v2_pipeline.py` 576 against the docstring at 316); `ManifestSettles` names it
  as the exception. With two workers an unguarded finish can turn a verified
  manifest without an inline copy into `retry` or `rejected`.
* `_finish` of the bitset lane writes by id alone (`v2_pipeline.py` 727): a late
  worker that judges after the grace epoch rejects a receipt that was verified
  and paid, where the comment at 703 calls the two atomic.
* A death between `O_EXCL` and fsync of the rotation's receipt
  (`sn39_hotkey_rotation_operator.py` 616-637) leaves an empty file that each
  later reconciliation refuses; `RotationCompletes` names it as the exception.
* A rejection by the async worker does not burn the signature, unlike the inline
  path (`app.py` 5404). Retention deletes attempts of any status, pending ones
  too (`retention.py` 265 against 24), and `eval_runs`.
* A failing `_authorize_sn39_chain_submission` (`validator_thin.py` 4937) leaves
  an unsigned reservation until the next start; `run_launch_preflight` (2268)
  asks the lane file where its message (2253) speaks of the journal.
* `submit_bitset_v2` says witness verification comes before the event is
  written; it is asynchronous. The lean ingress receipt calls an event open even
  if it was rejected, and its log runs with `synchronous=NORMAL`, so a power loss
  may take acknowledged receipts back.
* A thin validator that dies between `set_weights` and the save of its outcome
  (`cathedral_thin/validator.py` 589-601) restarts with a vector that is not marked
  ambiguous and sends it again, where `docs/THIN_SUBNET_DESIGN.md` 198 asks for the
  operator's opt-in after an unknown outcome; `UnknownIsHeld` names it as the
  exception. Its first submission reuses the metagraph and the registrations of the
  tick's start (866), where the design document speaks of a recheck before each
  initial submission too. After a failed save the loop goes on with the memory that
  was to be saved, while its message (892) speaks of the persisted state. The
  report mark outlives a change of owner, so a new owner continues the old
  numbering of epochs.
* A cancellation of the singleton during a batch releases the lock while the
  batch's thread finishes (`app.py` 2090-2109, 2038-2042): the thread of the old
  process works beside the loop of the next holder. The model keeps it (`draining`)
  and `OneLoop` names it.
* No producer of result dictionaries sets both `miner_hotkey` and `epoch`
  (`results_publisher.py` 140), so no results file is written.
* No heartbeat is written inside a batch, which has no limit, and a failed heartbeat
  write is swallowed (`store.py` 1974-1981): a loop that goes longer than the limit
  without a written beat loses its lock to a waiting process (`store.py` 1941) and goes
  on beside it, although `store.py` 1908 says the heartbeat "proves the *worker*, not
  just the connection, is actually gone". So does a loop whose lock session broke,
  since nothing on its path uses that session. Both are in the model (`lost`), and
  `OneLoop` names them; they are the only ways besides the cancelled batch in which
  two processes work at once.
* The V2 verify verdict is written by id alone; a torn blob file is never repaired,
  since an existing path is taken as stored (`blob_store.py` 59).
* The V2 artifact publisher checks and then puts without a condition; a run for a
  subset of hotkeys marks the epoch ready for that subset, and the rerun of a
  ready epoch makes it unready meanwhile.

Gates and caches:

* `ratelimit.py` 12 speaks of a sliding count; the window is fixed and admits twice
  the limit around its edge, and that is what `FloodBounded` bounds. An actor limit
  of zero lets every actor pass (261), which one of the five deployments has. The
  per-hotkey bucket forgets idle keys early, which refills them. Cancelled requests
  are missing from the metrics.
* The loser of the top cache's advisory lock has no limit on what it serves; the
  age of a snapshot leaves out the time it took to build; a snapshot stopped and
  started at once may keep two loops.

Board and supply:

* The plan of a refill may pass its target by `mint_cap - 1`. A pre-generated body is
  not the function of the id the docstring promises. A failed put leaves an active
  challenge nobody can be served, and a failed second write of a retirement skips the
  invalidation of the board. When the second write of a leased mint fails, the local
  fallback (`refill.py` 645, 690) commits another body under the same id, which
  `cnf_store.py` 3 says "maps to a fixed DIMACS file forever".
* A feed row without one of the stored columns stalls every seed pass at its page.
  The watermark is two keys written one after the other (`seed_live.py` 134-136): a
  death between them pairs the new time with the old id, and the rows of that instant
  after the last one seen and up to the old id are never pulled, although `seed_live.py` 130
  promises that "a killed/dropped seed resumes from here". `ResumeMissesNothing` names
  these rows as its exception; the run has that death.
  Mirrored rows are never retired.

Scores, lanes, capacity and arena:

* A blend filters base and external scores, and the signed vector once more, by
  separate reads of the metagraph rows, so the split that `weights.py` 1396 calls
  exact by construction can be off for sources other than the confidential one.
  The insert of a report replaces one of the same id, whatever its source, and so
  can take away the highest epoch of another source, which is the only fence against
  an older one (`external_scores.py` 526).
* Concurrent refreshes of the CyberGym lane may store the older vector. A UID
  recycled between the reads of `mechanism_cybergym_adapter.py` 155-173 and 451-486
  pays another hotkey, where `cybergym_bridge.py` 44 says "Paying nobody beats
  paying the wrong uid."; posted scores can be replayed, their `signed_at_ms` need
  not grow.
* A TEE GPU verification may judge a machine that was replaced after it was read.
  A capacity row that an offer reopens, or an admin creates again, while its listing
  command runs can be claimed again once it is active, so add-node may run twice for
  it (`OneAddNode` counts these).
* An arena registration answers from memory, which may disagree with the table; a
  failed promotion write loses the record row; after a restart any solver
  dethrones the champion. A settlement of the previous round resets
  `last_paid_round`, so the current round can be paid twice
  (`arena_payout.py` 198, docstring "Idempotent per round"); latent, since `app.py`
  plugs in no champion.

Validator host:

* Operator tools that write through a fixed temporary name take no lock. The thin
  validator's save returns although its directory could not be synced
  (`cathedral_thin/core.py` 818), so a power loss may take it back.
* A torn row of the status log swallows the fence of the next event.
* The reproduction reader fails where an archive node without the block should
  leave the claim unproven. A shadow run with `--once` reserves outside the tick
  lock. An audit is handed the state as it was at its submission
  (`validator_thin.py` 1666-1674); the fence of the reservation compares epoch and
  release, so of two audits from one state the later may reserve a report that does
  not chain from the other's, where `provenance_audit.py` 901 calls that continuity
  "ALWAYS enforced".

## 8. Not modelled

Cryptography, SAT checking, CNF generation, HTTP parsing, formatting, logging:
data whose outcome is an input of the models. The database engine:
transactions are atomic, which is what `BEGIN IMMEDIATE` and the Postgres row
locks the code takes provide. The Bittensor node and SDK, the bucket and the file
system: external, modelled from how the code uses them. Floating-point error
beyond the explicit rounding of scores.

Components left out: VerifyML and the policy tools, the audit scanner, V2 receipts and bundles (pure functions of signed documents); the
release build and the host launchers (run once over files, no second actor);
chain client, wire format and command line (encodings); the game, the edge
workers and the dashboards (separate or pure I/O). The reasons, component by
component, and what the partly modelled ones leave out, are in `PROJECT.json`.
