# VRI in TLA+

TLA+ models of the VRI reference implementation (`src/packages`, `src/apps`):
modules that TLC checks on small instances, and theorems about them that TLAPS
proves for every value of the constants.

VRI registers voice recordings. A client posts audio to the API server; the
server checks who it is, signs a proof package and appends a usage event to a
ledger; events are anchored in Merkle batches, and batches are published to an
external anchor by a scheduler with workers and retries. Everything runs in one
Node process, so code is interrupted only where it awaits. That is the grain of
all models: **one action is the code between two awaits**, and at an await
anything else may run, or the process may stop.

## 1. Inventory

| Component (source) | State | Operations | What is hard | What makes it correct |
|---|---|---|---|---|
| Merkle tree (`ledger/src/index.js` 58-116, 394-404) | none | buildMerkleRoot, buildMerkleProof, verifyMerkleProof | odd levels duplicate their last node, in root and proof alike | every leaf has a proof, nothing else has one, the root fixes the order |
| FileLedger (`ledger/src/index.js` 434-755) | event store, batch store | appendUsageEvent, anchorPendingEvents, publishBatchAnchor, getMerkleProof, verifyProofPackage | read, await, write back: overlapping calls, crashes between two writes | one hash chain, each stamp is the root of its events, answered events and publications stay |
| Storage (`ledger/src/storage.js`) | a JSONL file, an array, a Postgres table, a Mongo collection | append, getAll, replaceAll | replaceAll truncates before it writes; half lines; database order | what was read back is what was written |
| HTTP anchor publisher (`ledger/src/index.js` 118-392) | the attempt under way | publish, with retries and a timeout | a provider that answers late, never, or half | a publication settles |
| BatchScheduler (`ledger/src/scheduler.js`) | queue, state map, retry map, timers, workers | schedule, start, stop, clear, getStatus | workers and timers outlive stop() and clear() | a batch is attempted, by one worker at a time, and settles |
| Identity session store (`api/src/server.js` 397-626) | challenges, used ids and nonces, a file | issue, redeem, authorize, consume, cancel, reload | overlapping requests, expiry, restarts | a session is accepted once and authorizes one registration |
| Registration (`api/src/server.js` 1028-1353, 1656-1697) | none of its own; quota, recording sessions, identity sessions, ledger | the three register routes | checks before an await, effects after it | one proof per session, generated proofs rest on verified recordings |
| Recording sessions (`core/src/recording-session.js`) | sessions, a file | create, createFromQR, close, validate | closed while a request relies on it | only active ones are accepted |
| API keys, quota (`core/src/api-key-manager.js`) | keys, organizations, in memory | createApiKey, validate, revoke, checkQuota, consumeQuota | check and consume are apart | no more registrations in an hour than the quota |
| Proof creation and verification (`core/src/index.js` 876-1700) | nonce tracker and its file | registerVoice, verifyProofPackage, verifyIdentityAssertion | what is signed, attested and kept in the ledger are different lists of fields; the nonce is taken amid the checks | what is accepted was issued, and once; what was issued is accepted |
| Canonical audio (`core/src/index.js` 518-734, `dsp-worker.js`) | none | WAV parsing, resampling, 24-bit packing | rounding, clipping, two copies of the code | samples keep their value, both copies give the same bytes |
| DSP pool (`core/src/dsp-pool.js`) | workers, queue | canonicalize, sha256, terminate | the queue is drained by callers, and only after a success | every task is answered |
| Revocation registry (`core/src/revocation-registry.js`) | one record per key, a file | revoke, get, reload | a later revocation against the time of a proof | what was answered is reported, before and after a restart |
| Timestamp attestation (`core/src/timestamp-attestation.js`, `openssl-rfc3161.js`) | none | verify, normalize, parse tokens | two forms of input, of which one keeps the digest | a trusted authority attested just this receipt |
| Key manager (`core/src/key-manager.js`) | signing key, archive | sign, rotate | proofs outlive their key | proofs of an earlier key verify |
| Audit log, profiler (`core/src`) | lists | record | - | - |
| Watermark (`watermark/src`) | none | embed, extract | bits that share a tile, damaged bits, the vote | what was embedded is extracted when the audio is long enough |
| CLI (`cli/src`) | none | commands | - | - |
| Wallet (`apps/wallet`) | key pair, trust list, sessions and settings in device storage | ensureKeyPair, signDigest, redeem, end a session, trust decisions | requests and answers are lost or late, the app is killed between two writes | an ended session is ended, the halves of the key belong together |
| Recorder (`apps/recorder`) | React state, a MediaRecorder | ask for a challenge, poll, record, reset | answers that arrive after the page has moved on | the microphone opens for an authorized session only, a decision is learned |

How they interact. `handleRegistration` reads the quota, the recording sessions,
the identity sessions and the ledger in this order, calls the core to prepare and
sign the audio, and appends to the ledger, which may anchor at once (`anchorNow`).
Batches are handed to the scheduler, whose workers call `publishBatchAnchor`,
which calls the publisher and rewrites the batch store. The verifier reads the
ledger. Identity sessions are issued by the server and redeemed by the wallet.

## 2. Modules

| Module | Models | Status |
|---|---|---|
| `MerkleTree` | the hash tree as functions; a hash is the term that was hashed | done |
| `Ledger` | FileLedger over a store in file order; extends `MerkleTree` | done |
| `LedgerProofs`, `LedgerAnchorProofs` | theorems about `MerkleTree` and `Ledger` | done |
| `BatchScheduler` | the scheduler, its workers and timers | done |
| `SchedulerProofs` | theorems about `BatchScheduler` | done |
| `OneTimeGrant` | abstract: what the identity layer promises of a session | done |
| `IdentitySessions` | IdentitySessionStore; implements `OneTimeGrant` | done |
| `SessionProofs` | theorems about the steps of `IdentitySessions`, for it and for what composes it | done |
| `Registration` | handleRegistration, quota, recording sessions; extends `IdentitySessions` | done |
| `RegistrationProofs` | theorems about `Registration`; extends `SessionProofs` | done |
| `DspPool` | the pool of audio workers, its queue and its faults | done |
| `CanonicalAudio` | parsing, decoding, resampling and packing, and the worker's copy | done |
| `WatermarkCode` | Hamming code, repetition, spreading, vote | done |
| `AudioProofs` | theorems about `DspPool`, `CanonicalAudio` and `WatermarkCode` | done |
| `ProofPackages` | identity assertions, watermark payloads, what is signed, registerVoice | done |
| `TimestampAttestation` | attestations, raw tokens, trust; extends `ProofPackages` | done |
| `ProofVerification` | verifyProofPackage, nonces, revocations, key rotation at a server; extends `TimestampAttestation` | done |
| `VerificationProofs` | theorems about `ProofVerification` | done |
| `RecorderFlow` | the recorder page; extends `IdentitySessions` | done |
| `WalletFlow` | redemption and end of sessions in the wallet; extends `IdentitySessions` | done |
| `WalletKeys` | the wallet's key pair over asynchronous storage | done |
| `ClientProofs` | theorems about `RecorderFlow`, `WalletFlow` and `WalletKeys`; extends `SessionProofs` | done |
| `AnchorPublisher` | a publication with its retries and its timeout | done |

`MC*` modules give the constants values for TLC. Where one of them puts several
modules into one run (`MCAlgorithms`, `MCClients`) a behaviour is about one of
them and leaves the others alone. The pure algorithms have their inputs as states:
`MerkleSpec`, `AudioSpec` and `CodeSpec` grow a list of leaves, a WAV file or the damage
to a watermark step by step; they are the specifications that the theorems are about. `Registration` composes four
stores; the ledger in it is the append-only list that `Ledger` studies in detail,
and `BatchScheduler` calls the ledger through `publishBatchAnchor` whose two
outcomes, resolve and reject, are actions of the scheduler's workers.

### MerkleTree and Ledger

The while loops of `buildMerkleRoot` and `buildMerkleProof` are functions from a number
of rounds: `Levels` to the level that is left, `Indices` to the index of the target's
node, and `Height` is the first round after which `level.length > 1` fails.
`verifyMerkleProof` folds the proof into the leaf with `Ascend`. `InOrder` puts a set of
positions into file order by their rank.

`events` and `batches` are the two stores in file order, `eventsTorn` and
`batchesTorn` whether the file ends in half a line. `pc[r]` is the await call `r`
is at; `record`, `snapshot`, `batch`, `batchSnap` are the locals it holds across
awaits, which is where staleness lives. `StartAppend`, `ReadLatest`,
`AppendEvent`, `ReadPending`, `ReadLatestBatch`, `AppendBatch`, `RewriteEvents`,
`ReadAnchored` are appendUsageEvent with the anchorPendingEvents it may end in;
`StartPublish`, `ReadBatches`, `PublisherAnswers`, `RewriteBatches` are
publishBatchAnchor. `WriteEvents` and `WriteBatches` exist only for stores that
truncate before they write (`JsonlStorage`). `Crash` settles every call in flight
and may leave a half-written file or line. `Hazards` says which of publication,
reused ids, truncation, crash and torn lines are possible. A chain anchor, the
hash of the previous anchor and the record, is the sequence of everything hashed
so far; a content hash and a batch id are the call that made them.

### BatchScheduler

`queue`, `items`, `state`, `retry` are `#queue`, its item objects, `#stateMap` and
`#retryMap`; `timers` are the armed `setTimeout`s and `workers` the running
`#worker` loops. Items are positions that are never reused, because workers and
timers keep an object after `clear()` has dropped it. `Start` runs the new workers
to their first await at once, as the code does: the nth of them takes the nth item that
waits, `Found(n)`; a worker that wakes takes `Found(1)`. `attempts`, `stored` and
`cleared` are history. The state-change callback and the read-only getters are
left out.

### IdentitySessions, OneTimeGrant and Registration

`challenges`, `usedSessionIds` and `sessionFile` are the store's fields and its
file; every operation is synchronous and ends in the write of the file, so it is
one step. The nonce of a challenge is as unique as its session id and both sets of
used ones grow together; one set stands for both. `grants` counts authorized
registrations. Abstractly a session goes from none to offered, accepted, ended,
and is granted once on the way; `ImplementsOneTimeGrant` maps the statuses to these
phases, a session that the process has forgotten counts as ended.

`Registration` follows one request per element of `Requests` through `Receive`,
`ReadLineage`, `ReadInput`, `Sign`, `StoreEvent`. `Spend` is the stretch that
consumes the identity session and the quota. Checks that depend on nothing but the
body (formats, levels) are a free choice to refuse. `Restart` reloads both session
files, refills the quota (organizations are kept in memory) and drops the requests
in flight. The two stores have file paths of their own in the configuration
(`Persistent`, `RecordingsPersistent`); ids of recording sessions are random, so `opened`
keeps those that were given out, and none is given out again after a restart has
forgotten it.

### DspPool

`idle` and `pending` are the fields of the `DspWorker`s, `queue` that of the pool,
`alive` and `closing` say what the threads behind the workers do. The message of a
thread, the promise it settles and the caller's `drainQueue` run in one turn of the
event loop and are one action (`AnswersResult`); a caller whose task fails does not
drain (`AnswersError`). `drainQueue` is written as its result: the idle workers, in
their order, get the front of the queue (`Share`). `Dies` is the 'error' event,
`Terminate` and `Forget` are the two halves of `terminateSharedPool`, between which
callers still get the old pool. Tasks in `Broken` make `send` throw after it has
taken the worker. The server does not use the pool yet; the core exports it.

### CanonicalAudio and WatermarkCode

Both are operators over their inputs. A byte has `Byte` values, so an n-byte sample
keeps its width relative to the 32-bit integers of the decoder whatever `Byte` is; a
WAV file is the list of its chunks, of which the last of a kind counts. `WorkerDecode`
and `WorkerCanonicalize` are the copy in `dsp-worker.js`, which has drifted: it takes
floats that are not finite (and has no limit of 200 MB, which is not modelled); both
scale and clamp a finite float alike. `WorkerAgrees` asks that what both accept becomes
the same bytes. `CanonicalAudioIsFaithful` compares the samples of the result with those
of the source file, for integer samples only: of floats it says no more than that a
second conversion changes nothing (section 5 says what becomes of them). In `WatermarkCode` a tile of time
and frequency holds the sum of the polarities embedded in it: bits that share a tile
cancel out, which is what `SpreadingPlan` decides. The host signal is silent.

### ProofPackages, TimestampAttestation and ProofVerification

The hash of a value is the value, a signature is the pair of key and message; only
the hashes cut to one byte are constants and collide. A check is a pair of the reason
to refuse and the condition, in the order of the code; `FirstFailure` decides.
`BeforeNonce` and `AfterNonce` are the checks on either side of the moment the nonce
is taken, so a verification that fails late has used it up, as in the code. `Presented`
is a package some of whose fields are taken from another issued one and some left out:
`Mixes` are the sets of fields, of up to `MaxMixed` together, and `Changes` those that make
a difference between two given packages. `Heard` is every audio with every watermark, and
`Expectations` what the verifier may expect of the identity's session. The properties are
about all of these in each state, while `VerifyProof` is the request and changes the
tracker. `Restart` reloads the nonces and the revocations where they have files.

### RecorderFlow, WalletFlow and WalletKeys

In `RecorderFlow` each React state is a variable; `Show` is a rendering: when a
dependency of the polling effect changes, the effect is cleaned up and what was on its
way to it is ignored. `CreateChallenge`, `StartRecording` are the handlers up to their
await, `ChallengeArrives`, `CreateFails`, `MicrophoneOpens`, `MicrophoneDenied` what
follows; `PollAnswered`, `PollArrives`, `PollLost` are the polls. `sessionState` is the last
answer the page has kept: a session, which need not be the one on the screen, and its
status, of which the page reads the status alone. `ForgetAudio` is the cleanup of the effect
that holds the recording's URL: it stops the tracks of the stream. The page meets the
server's session store and any wallet at all. `WalletFlow` is the counterpart: the
wallet's screens, requests and answers that are lost or late, the list that outlives
the app, with the server's store and any recorder; `loading` is the confirmation screen that
waits, and `RedeemGarbled` an answer whose body fails, which nothing catches. In `WalletKeys` every access to the
storage is one step; the start of the app and a redemption both call `ensureKeyPair`.

### AnchorPublisher

`stage` is the await a publication is at, `attempt` the turn of the loop. `Failed` is
the end of the loop's body; the head of an answer ends the timeout, the body is read
without one.

## 3. Runs

| Run | Instance | Shows |
|---|---|---|
| `algorithms` | pool: 5 tasks, 2 workers, every fault, fair; Merkle: 3 hashes, up to 5 leaves; audio: 4-valued bytes, up to 4 samples and 3 chunks, 5 rates; watermark: 2 nibbles, 4 repetitions, up to 190 frames, one wrong bit | no task is lost or done twice, tasks wait beside an idle worker only after a failure, and the exact causes for which one is never answered; the root is the one of the perfect tree, binds the order, proves its leaves and no others; integer samples are kept or interpolated between their neighbours; the worker agrees; damage is corrected; long audio carries every payload |
| `ledger_serial` | 5 calls, one at a time, crashes, publications | all promises of the ledger: hash chains, roots, confirmation of answered proofs, kept events and publications, final stamps |
| `ledger_hazards` | 3 calls, 2 in flight, every hazard | the stores keep their shape; batch-before-reference holds until a publication or crash |
| `ledger_lost_event` | 2 overlapping appends | violation: an answered append is erased |
| `scheduler` | 3 batches (one unknown to the ledger), 2 items, 2 workers started once or twice, stop, clear, start at any time, fair | every item settles, but for the causes the property names; one publisher per batch unless `clear()` has dropped an item; getStatus and getState agree, attempts are bounded, stored is reported |
| `scheduler_stuck_paused` | 1 batch, stop and start, fair | violation: a retry timer that fires while stopped is spent |
| `registration` | 3 requests, 2 identity sessions, 1 recording session, all gates, quota 1, restarts | one proof per session, the one-time grant, generated proofs rest on verified ones |
| `registration_consumed` | the same | violation: a refused registration consumes the session |
| `verification` | 2 keys, 7 kinds of requests at all levels, 3 servers, 3 expectations, 2 issued packages with one field exchanged or left out, rotations, revocations, restarts | nothing passes a tracker twice; an issued package is VALID exactly where it can be verified; revocations are reported |
| `verification_mixed` | 4 of those requests: one with an identity, two generated ones of level 3 and one time that differ in metadata and event, a marked recording; the servers track no nonces; no revocations; packages of which up to 3 fields are exchanged or left out | what is VALID makes the signed claims of one issued package, and at level 3 carries receipt and attestation of one |
| `clients` | recorder and wallet with 2 sessions that may expire, 2 requests under way; 3 key pairs; 2 attempts; fair | late polls enable no microphone; a decision reaches the page; an ended session is ended; key halves match; a publication settles |
| `recorder_renewed` | the same | violation: asking for a new challenge while one is shown lets the old session enable the microphone for the new one |

Four runs state what a text of the repository says and the code does not do; the
findings in `PROJECT.json` quote the lines.

Bounds. Ledger hazards are races of two calls, with at most a third one whose
events or batch the two fight over, so three calls with two in flight reach all of
them; the serial run has five so that two batches with several events and a
publication between them occur. Merkle trees of up to five leaves have two odd
levels. The scheduler's `MaxItems` and `MaxWorkers` cap histories only: two items let two
workers take one each, or a cleared batch be queued again beside its first item; four
workers are two starts, so that old workers meet new ones.
In `registration` a session lives for the tick of the clock in which it is issued
(`Ttl = 0`), the clock ticks once (`Horizon = 1`) and a quota window is one tick, so
sessions expire between any two steps and the quota is refreshed under way; three
requests are a recording, a generation that refers to it and one competitor. Sets
of calls, batches, requests and sessions are symmetric where no liveness property is
checked. The scheduler, registration and algorithm runs switch the deadlock check
off: a stopped or idle server really rests, and an input is studied once.

In `algorithms` a byte has 4 values: the smallest number at which two, three and four
bytes differ and a value has a middle; the sample rates lie on both sides of the
canonical one (4), with and without a common divisor; up to 190 frames reach five
multiples of the stride of 37. Five tasks on two workers let two tasks wait while two run
and one more comes late. In `verification` nonces have two values, so that a
collision of one-byte nonces occurs; the two packages of `MaxIssued` are what one can be
put together from, the clock ticks once (`Horizon`), which is the lifetime of an
identity and the freshness window; `Dates` are the dates of revocations, now and later.
`MaxMixed` is one field where the tracker and the revocations are the subject, and three in
`verification_mixed`: the three fields event, receipt and attestation are what a level-3
package can take from another. There the servers track no nonces, since a tracker only
refuses more. `AcceptedIsIssued` (section 4) has no bound on either number. In `clients` sessions issued at 0 expire and those
issued at 1 do not; two sessions are the earlier and the later one that stale answers mix
up. `MaxRequests`, `MaxStarts` and `MaxKeys` cap what is under way: a stray request and
a new one, one microphone that is being opened, a key pair for each of the two callers
and one more. One redemption of the wallet at a time is a bound as well.

Fairness is assumed in `BatchScheduler!FairSpec`, `DspPool!PoolFairness`,
`RecorderFlow!FlowFairness` and `AnchorPublisher!PublisherFairness` only. The page polls
every two seconds as long as its effect runs (`setInterval`, also after an error), so a
poll reaches the server again and again, and not all answers to it are lost: weak fairness
of `HandlePoll`, strong fairness of the arrival. The publisher's timeout fires and the
resolver of the system answers; of the provider nothing is assumed. A thread
of the pool that is not being stopped answers, since its operations end for every
input; nothing is assumed of callers. Timers fire and the clock
advances because the event loop does; `Start` is fair because every route of the
server calls ensureSchedulerStarted; a worker's publication settles because the
publisher limits each request by a timeout and the number of requests by its retry
limit. That last assumption is what `PublicationSettles` shows, up to one gap it states: the
timeout is cleared before the body of the answer is read (`ledger/src/index.js:352`), so a
provider that stalls in its body can keep a worker for ever.

## 4. Proofs

The theorems are about the specifications as they stand, for every value of the
constants: any number of calls, requests, sessions, batches, workers or keys, and any
number of them in flight. Each paragraph names what a theorem assumes beyond the
assumptions on the constants, which the last part of this section lists. Every invariant
that is proved inductive contains the types of the module; where one builds on another,
the earlier theorem is used as an invariant of the later step.

### Merkle trees (`LedgerProofs`)

`MerkleProofsVerify`: for every list of leaves, of any length and with any hashes, and
every index, the proof that `BuildMerkleProof` builds leads to the root that
`BuildMerkleRoot` builds. The argument is one round at a time: the node at half the index
in the next level is the hash of the node and its step (`AscendStep`, which is where odd
levels are), so the fold of the first k steps is the node of the k-th level, and after
`Height` rounds the level is the root alone (`HeightReached`: a level of n > 1 nodes is
followed by a shorter one). The library's induction theorems take an operator as a
parameter and cannot be used; `UpTo` states induction up to n for a set instead, from a
minimal counterexample (`WFMin`). The recursive functions `Levels`, `Indices` and the fold
are `CHOOSE`n functions; `LevelsEquation`, `IndicesEquation` and `FoldEquation` prove by
`UpTo` that a function with the equation exists for each argument before using it.

`RootBindsList`: two lists of one length with one root are the same list. One round is
injective on levels of one length (`NextLevelInjective`, from the injectivity of the ideal
hash), so the argument goes down from the root. `NothingElseVerifies`: whatever proof
verifies against the root of a list is as long as the tree is high, and its leaf is in the
list. From the root down, the fold stands at a node of the level it has reached
(`NodeBelow`); a proof that is too short would make a node above the leaves the leaf that
is asked about (`NodeIsPair`), one too long would make a leaf the hash of a pair. Both are
excluded by the hypothesis that no leaf is the hash of a pair, which the code does not
enforce by a prefix but which ideal hashes of event texts satisfy.

`RootIsTreeRoot`: the root is the one of the perfect tree of the same height over the list,
where a tree whose right half would begin behind the last leaf repeats its left half.
`TreeRoot` builds it from subtrees that overlap at every leaf, the code level by level over
half as many nodes each time; `NodeIsTreeRoot` shows that node i of level k is the tree of
height k that begins at leaf i * 2^k. From the three follow `RootsBind`
(`RootIsBindingTree`) and `ProofsProveLeaves` (`ProvesExactlyItsLeaves`), of lists that grow
without a bound.

### Ledger (`LedgerProofs`, `LedgerAnchorProofs`)

* `TypeOKHolds`. The invariant is split into `StoresTyped`, `CallsTyped`, `LocalsTyped`
  and `LocalsReady` (a local that is about to be used is there); the lemmas say what each
  helper returns on typed files.
* `BatchBeforeReference` (no publication, no torn lines): no event ever refers to a batch
  that is not stored, on files that are truncated before they are written, for any overlap
  and any crash. `ReferencedBatchExists` is not inductive: a stale snapshot that is about
  to be written carries references too. `ReferenceInv` therefore asks it of the event
  store and of every snapshot, and of a call about to stamp that its batch is stored.
* `ReferencedBeforePublication` (every hazard allowed): the same until a publication has
  started or the process has stopped. `UndisturbedInv` is `ReferenceInv` as long as
  neither has happened; what has been disturbed stays so (`UndisturbedBefore`).
* `StampsMatchRoots` (no truncation, no reused ids): every stamp is the Merkle root of the
  events that carry it, whatever overlaps, crashes, tears or is published. `RootInv` asks
  of the event store and of every snapshot that it is `Sound` (unique ids; a stamp is the
  root of the events that carry it and of the batch its call built), of the batch store
  and its snapshots that they are `Built` by the calls they name, and of a batch under way
  that it was made from the snapshot that will be stamped. The lemmas about `Forward`
  carry this to stale snapshots: calls only move forwards, and what a call has built stays.

The other promises hold only on a `SerialStore`: one call in flight at a time, no
truncated and no torn files; crashes between any two steps and publications are allowed.
Without it they are false, as `ledger_lost_event` shows for one of them. Their common
invariant is `FreshInv`: what the call in flight has read is still what is stored, and the
record or batch it is about to write was made from that. It reduces the four writes
to equations on the stores (`WriteEffects`), from which follow

* `ChainsHold` (`ChainsIntact`), `NothingSkipped` (`NoEventSkipped`): each append or
  stamp keeps the order; a crash between the write of a batch and the stamps leaves
  events pending that the next anchoring takes, all of them;
* `AckedEventsStay` (`AckedEventsKept`): `KeptInv`, a call stores one event, once, and
  from then on it is there;
* `PublicationStays` (`PublicationKept`): the step that finishes a publication has found
  and written its batch, and no write takes a transaction off a batch;
* `StampsStay` (`StampsAreFinal`, no reused ids): anchoring stamps the pending events, and
  with unique ids no others;
* `AnchoredProofsStayConfirmed` (`AnchoredStaysConfirmed`, no reused ids): the proof
  answered for an anchored event is confirmed by the ledger ever after. `ConfirmInv` says
  that an anchoring call finds its event pending and leaves it stamped, and that the answer
  is what is stored; `RootInv` gives the stored root as the root of the events of the
  batch, and `BatchProofVerifies`, from `MerkleProofsVerify`, that the proof rebuilt from
  the stored events leads to it. The further assumption `NullIsNothingElse` says that null
  is not a hash and not a record, which symbolic values do not give by themselves.

### Identity sessions and registration (`SessionProofs`, `RegistrationProofs`)

`SessionProofs` is about single steps of the session store (`SessionStep`), so that the
modules which extend it can use the lemmas. `StoreInv` says that the file is as new as the
memory and that only issued sessions are known; a session is spent when it was issued and is
neither PENDING nor AUTHORIZED, or forgotten, and no step gives a spent session back
(`StoreKept`).

* `SessionsGrantOnce`, `StoreImplementsPromise`: the store alone authorizes a session once
  and implements `OneTimeGrant`: each action is mapped to a step of the abstract
  specification or to a stutter (`StepRefines`); that a reload returns to the same phases
  rests on the file being as new as the memory. `GrantsInv`: only a spent session has been granted.
* `RegistrationImplementsPromise`: the same for the composed module, where `Spend` is the
  step that consumes (`StepsOfTheStore`). `EndedStaysEnded` (`EndedIsFinal`): what was
  consumed, cancelled or has expired stays as it is or is forgotten.
* `TypesHold`: the types of the composed module.
* `OneProof` (identity sessions required): no session leads to two stored proofs.
  `OneProofPerSession` speaks of stored events; between consumption and storage the
  session is in the hand of a request, so `ProofsInv` says that every session in hand or
  in the ledger is spent and is there only once.
* `GeneratedRests` (`GeneratedRestsOnRecorded`): `RestsInv` says that a request past a gate
  can rely on what it has read for as long as it runs: events stay, and a recording
  session that was activated by a scan never returns to another kind under the same id,
  in memory or in the file.
* `QuotaHolds` (`QuotaHoldsWithoutAwait`): what is checked and counted in one step and
  what is left never exceed the quota together, whatever the others take.

### Scheduler (`SchedulerProofs`)

* `SafeInv` says that no two workers hold an item (`HeldInv`; a held item is `publishing`, a
  timer's item is `paused`) and that a batch is in the queue once. The ranks of the waiting
  items are injective (`FoundDiffers`), so workers that start together take different ones.
  `Accounts` ties the item, the state map, the retry map and the attempts of a batch together
  for as long as `clear()` has not been called, and says that a batch has one item.
* `OnePublisher` (`OnePublisherPerBatch`), for any stop, start and clear, from both: two
  workers of one batch hold two items; without `clear()` there is one, and with it at most
  one of the two is still in the queue. The exception is real (section 5).
* `AttemptsAreBounded`, `StoredReported`, `StatusesAgree` (`StatesAgree`) follow from
  `Accounts`, as long as `clear()` has not been called, as the properties themselves say.

### Verification (`VerificationProofs`)

The checks are lists; a list that has no first failure gives each of its conditions
(`NoFailure`, and `PolicySays` to `Level3Says` for each list). For every configuration, every kind of request, any keys
and byte hashes that collide at will:

* `PassedOnce` (`AcceptedOnce`): `AcceptInv`, what has been accepted is in the tracker, in
  its file too where it has one, and the check before the nonce refuses what is there.
* `RevocationIsReported` (`RevocationReported`): `RevocationInv`, the registry is what was
  last answered, through restarts.
* `AcceptedIsIssued` (`AcceptedWasIssued`): of two issued packages mixed in any number of
  fields. `IssuedInv` says that issued packages are signed by the key they name, over their
  own audio, with attestations of their own receipt. `PutTogether`: every field of a mix is
  null or that of one of the two. So its signature is that of one of them, and the signed
  message fixes the claims and the audio (`SignatureShows`, `ClaimsOfSigner`); its attestation
  is that of one of them too, not necessarily the same, and what it attests fixes the receipt
  (`AttestedReceipt`, `ReceiptOfAttested`). That the two need not be one package is the code's:
  the event and the receipt are not signed, and the receipt leaves out metadata, identity and
  watermark (section 5).
* `IssuedAreVerified` (`IssuedVerifies`): a package as issued is VALID with its own audio
  exactly where it is `Verifiable`. That is not everywhere its level and its identity are
  accepted: `Verifiable` names what registration lets through and verification refuses - a
  package without a watermark where nonces are tracked, an attestation made from a raw
  token, one that is earlier than the time the caller gave - and the equivalence says that
  there is nothing else. `FitInv` states what
  registration has seen to in the words of the checks (`Registered`: the fields of each
  level, the byte of the session in the watermark, an identity that is sound whatever is
  expected of it; `AttestedWell`: an attestation that was verified against the
  configuration, which never changes). `MadeAsRegistered` derives it from
  `RegisterRefusal`, `DigestOfSource` from the two ways to attest, and `FitVerifies` goes
  through the eight lists of checks; that a package which is VALID is `Verifiable` is read
off the same lists. It assumes `RequestsFit`, that a request has a known
  kind and level, an event id at level 3 (the handler makes one) and does not turn off the
  watermark of a generated proof of level 2 or more: the code issues such a proof and no
  verifier takes it (section 5). The registrations of `MCRequests` satisfy it.

### Clients (`ClientProofs`)

* `EndedIsEnded` (`EndedMeansEnded`): `WalletInv`, an answer that ends a session is given
  only for a spent one, requests and lists name issued sessions only, and spent sessions stay so.
* `HalvesMatch` (`KeysMatch`): `PairInv`, of a caller that is alone the secret half is
  written before the public one is, and while it is between the two there is no public half.
* `CaptureIsAuthorized` (`CaptureWasAuthorized`), unless the challenge on the screen was
  asked for while another one was shown (`renewed`; `recorder_renewed` shows that the
  exception is needed): `TabInv`, the polls on their way are of
  the session that is shown, and the microphone is open, or asked for, only for a session
  whose authorization the server has had (`NotedInv`).

### Audio (`AudioProofs`)

The pool: `OnePlace`, `QueueDrained` and `PoolTypes`, for any number of workers and tasks and
every fault. `TasksInOnePlace` needs that what a worker holds was sent (`HeldWasSent`), or a
late dispatch could meet its own task. The heart is the drain: the ranks of the idle workers
are exactly 1 to their number (`RankType`, `RankInjective`, `RankOnto` by counting), so the
front of the queue is given away once and tasks are left over only when no worker is
(`ShareFacts`).

Canonical audio, for every file, every rate and any even number of values of a byte.
`FileInv`: a file that has been begun has a format and data, of bytes.

* `WorkerMakesTheSame` (`WorkerAgrees`): the worker decodes as the server does wherever
  the server does not refuse; everything after the decoding is the same.
* `CanonicalStaysFaithful` (`CanonicalAudioIsFaithful`). A PCM sample is decoded to the
  integer of its three bytes, a zero byte below those of a 16-bit one (`DecodedIsWidened`,
  `SourceDecoded`), and integers in the range of 24 bits are written without a loss
  (`WrittenFromPcm`), so at the target rate the bytes are those of the source. At another rate
  the neighbours of an output frame lie inside the input (`NeighboursExist`, from how the
  number of output frames is rounded) and belong to the same channel (`Interleaved`), and a
  rounded mean is half a unit from what it rounds at most (`RoundedNearby`) and between what it
  is the mean of (`RoundedBetween`, `Interpolated`), so nothing is cut when it is written
  (`Resampled`, `FinalInterpolated`). That canonical audio, of floats too, is a fixed point rests
  on `WriteThenRead`: the integer that three bytes are read as has these three bytes,
  whatever integer they were the low bytes of, and is that integer if it is in the range of 24
  bits. The bytes are digits of a number in base `Byte` (`Digits`, `HasDigits`). What is written
  of a float is not compared with its value: the comparison would fail (section 5).

The watermark, for every payload and sync word, any number of nibbles, and from three
repetitions on (the code writes four).

* `DamageStaysCorrected` (`DamageIsCorrected`): of three votes one may be wrong
  (`VoteIsWon`), so only the bit that flips besides the lost repetition can lose its vote,
  and the syndrome finds one wrong bit of seven (`HammingCorrects`). The layout of the
  blocks (`Places`, `CodePlaces`) says that a flip meets one codeword and no sync word.
* `LongAudioCarries` (`LongAudioCarriesPayload`): 37 is prime, so fewer steps of 37 frames
  than there are frames never meet (`StepsPart`, `TilesDiffer`), each bit has a tile of its
  own, and what is read is what was embedded (`BitsAreRead`).

### Assumptions

On the constants: `LedgerAssumption` (null is no call, the bound on calls in flight is
positive, `Hazards` is a set of the named kinds), `SessionAssumption` and
`RegistrationAssumption` (lifetimes and quota are numbers, null is none of the values it
stands beside), `SchedulerAssumption` (the limits are positive, null is no batch, state or
retry record), `VerificationAssumption` (there is a key), `RecorderAssumption`,
`WalletAssumption`, `KeyAssumption` (their bounds are numbers, no key is no key's number),
`PoolAssumption` (there is a worker), `AudioAssumption` (a byte has an even number of values,
rates are numbers, a finite float is a fraction), `CodeAssumption` (bits are bits, and the code
has three repetitions or more; the default is four). TLC evaluates all of them. Beyond these, single
theorems assume what their paragraph says, `ProofsProveLeaves` that no leaf is the hash of
a pair, `ReferencedBeforePublication` that null is not the string "publish", and `IssuedAreVerified` (`NullIsNoValue`) that null is no number,
no authority and none of the records, sets and names that stand beside it.

### What is only model-checked

All liveness properties (fairness, ENABLED): `EventuallySettled`, `PausedIsResumed`,
`TasksAnswered`, `DecisionIsLearned`, `PublicationSettles`. Every invariant and every action property that
a passing run checks is stated by a theorem. The theorems about the audio algorithms are
about the operators of the model: that four bytes encode the float they encode (`FloatOf`) is
a constant, and of the watermark's signal nothing is proved that the model leaves out.
`BatchBeforeReference` and the theorems about serial calls say nothing of overlapping
publications, for which the properties are false.

## 5. Further divergences seen while modelling

They have no run of their own; each is a behaviour of the modules above.

* Two overlapping appends read the same last record and fork the hash chain
  (`index.js:494`, `:516`); two anchorings stamp the same pending events, and the
  proof answered with the first anchor is no longer confirmed (`:533`).
* A publication that overlaps an anchoring erases the new batch, one that overlaps
  another publication erases that one (`:601`, `:644`).
* A crash inside `replaceAll` loses records (`storage.js:65`), a batch line appended
  after half a line is unreadable (`storage.js:42`).
* A reused `usageEventId` restamps an event of an older batch (`server.js:1082`).
* `start()` after `stop()` during a publication leaves an extra worker
  (`scheduler.js:148`); a batch unknown to the ledger is reported as published
  (`:174`); `maxRetries` counts attempts, not retries (`:183`).
* A batch that was given up can never be published through the scheduler again: its item
  stays in the queue, so `schedule()` returns at once (`:55-58`), while
  `POST /batches/:id/publish-anchor` goes on answering 202 with `scheduled: true`
  (`server.js:1912-1921`).
* `clear()` while a batch is being published, and `schedule()` of that batch after it, give it
  two publishers at once, who pay for two anchors; `OnePublisherPerBatch` excepts just this.
  After `clear()` an old timer or worker overwrites the state of the item that replaced its
  own (`:178`, `:203`). `clear()` is part of the class, the server does not call it.
* Overlapping exports or generations can exceed the quota, one for each request that
  waits between check and consumption (`server.js:1039`, `:1249`).

Verification and registration of proofs:

* `docs/api.md:682` and `README.md:342` make watermark evidence mandatory, with status
  `present`, for GENERATED proofs of level 2 and more. The code asks for it only where the
  server requires level 2 (`core/src/index.js:1183`): a server with the default required
  level accepts a generated level-2 proof with no watermark in the audio.
* The nonce is recorded before audio and signature are checked
  (`core/src/index.js:1452`), so a failed verification uses up the genuine proof's nonce;
  `docs/api.md:679` speaks of the first successful observation. With a nonce of one byte a
  creator has at most 256 proofs that one tracker accepts, and two proofs of the same
  second may share a derived nonce.
* A level-3 proof made from a raw timestamp token never verifies: parsing the token loses
  the digest that the verification compares (`openssl-rfc3161.js:230`, `server.js:1286`;
  `docs/api.md:283` offers it). Nor does one whose attestation is earlier than the
  `timestamp` the caller chose, which registration does not compare.
* Level-1 and RECORDED proofs without a watermark never verify where nonces are tracked,
  since the nonce is byte 7 of the watermark payload (`core/src/index.js:1440`); a RECORDED
  level-3 proof without watermark is a ledger mismatch (`ledger/src/index.js:419`, `:723`).
* A GENERATED proof of level 2 or more registered with `includeWatermark: false`
  (`server.js:1076`, `core/src/index.js:930`) is issued and never verifies
  (`GENERATED_WATERMARK_REQUIRED`); the hypothesis of `IssuedAreVerified` excludes it.
* `key_id` is not signed; only the ledger ties it to the signer. Below level 3 an
  attestation is not checked but decides `historical_validity`. The receipt that is
  attested leaves out metadata, identity and watermark, and the event id is not signed: of two
  level-3 proofs of one audio, key, type and time, the first with `usage_event_id`,
  `ledger_anchor` and `timestamp_attestation` of the second is VALID, and claims an event
  that neither claims together with its metadata (`core/src/index.js:278-292`, `:984-992`,
  `:1467-1475`). `VRI-PROTOCOL-v2.0.md:247` lists just these fields of the receipt, so no text is
  contradicted; `AcceptedWasIssued` states what is left. A second revocation overwrites the
  first (`revocation-registry.js:62`). The identity is checked against the time of the
  verification, so a proof with an identity expires with it.
* The session that a request expects of the identity (`expectedSessionId` and the like,
  `server.js:1767-1773`) is not looked at where the package has no identity.
* `metadata` of the caller overrides the session context it is merged with
  (`core/src/index.js:919`).

Audio and watermark:

* A float sample is scaled to 32 bits (`core/src/index.js:639`) and its low 24 bits are written
  (`:605-610`), so 0.25 becomes -1; `VRI-PROTOCOL-v1.0.md:107` asks for samples quantized to 24
  bits. The worker takes floats that are not finite and has no limit of 200 MB.
* When the number of frames is a multiple of 37 the stride maps many bits to one tile and
  some payloads are lost; a payload that differs in one byte counts as recovered.

Recorder and wallet:

* "Crear sesión QR" keeps the old challenge until the new one arrives
  (`App.tsx:168-195`): `recorder_renewed` is what a poll of the old session, AUTHORIZED,
  does then. It also ends the polling of the new session before it began
  (`App.tsx:119`), so a decision on that session never reaches the page: `Overtaken` in
  `DecisionIsLearned` excepts it. The microphone that answers after a reset or a new
  challenge starts a recording without an authorized session (`App.tsx:217-253`).
  `renewed` marks these cases and `CaptureWasAuthorized` excludes them.
* A recording that runs while the page is renewed is stopped only if the page held an
  earlier one, whose effect is cleaned up (`App.tsx:161-166`); otherwise it is forgotten and
  goes on filling `chunksRef`. A late `onstop` shows "finished" over a new session.
* The wallet is never told that a session was CONSUMED or EXPIRED, and the dashboard ends
  only its first AUTHORIZED entry: one that cannot be canceled hides the older ones. When
  the answer to a redemption is lost the server has AUTHORIZED a session the wallet does
  not list and cannot end; when the body of that answer fails (`identity.ts:364`) nothing catches
  it either, and the screen waits until it is left.
* Two overlapping calls of `ensureKeyPair` can leave halves of two pairs
  (`crypto.ts:163-164`); `overlapped` excludes them from `KeysMatch`. The settings keep the
  public key of the start after it has been generated anew.

## 6. What is not modelled

HTTP parsing, routing, CORS and response formatting; logging, audit log and profiler, which
nothing reads back; the database backends, whose transactions and order of equal timestamps
are the database's own; the CLI, a thin caller of the core. Signatures, hashes and
certificates are ideal and openssl is external; of the watermark's signal processing only
where bits go and how they are voted on is modelled, not how loud a carrier must be. A KMS
whose `sign()` is asynchronous is not modelled (registerVoice does not await it). Of the
wallet, the trust list, the settings and the loading of the stores at the start are left
out: the trust list and the settings are read, changed and written back without a lock, so
the last writer wins. The interleaved reads of `getMerkleProof` are taken at one moment; a
session file torn by a crash is not modelled, the next start refuses to read it.
`PROJECT.json` lists every component with its status.
