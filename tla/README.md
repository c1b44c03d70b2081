# Verification of Agent Archivist

TLA+ models of Agent Archivist's client and ingestion service, the TLC
configurations that check them on small instances, and TLAPS proofs of the
properties that matter most for every value of the constants.

Agent Archivist collects coding-agent session histories. A host client captures
ranges of transcript files, materializes each as a bundle in a spool directory,
uploads it under a frozen identity and drops it only when a signed receipt
proves the service stored it. The service is stateless: replicas share nothing
but an S3-compatible object store, in which content-addressed blobs and
provenance manifests are the source of truth.

The claim that makes the system worth having is one of custody: *a captured
range is never held by nobody*. Most of the project is about the ways in which
crashes, lost answers, races and clocks could break that claim.

- [Inventory](#1-inventory)
- [Plan](#2-plan)
- [Modules and the code](#3-modules-and-the-code)
- [Runs](#4-runs)
- [Bounds](#5-bounds)
- [Fairness](#6-fairness)
- [Proofs](#7-proofs)
- [Findings](#8-findings)
- [Remarks](#9-remarks)
- [What is not modelled](#10-what-is-not-modelled)
- [Running it](#11-running-it)

## 1. Inventory

Paths are relative to `crates/`; each component is listed in `PROJECT.json` with
its files and its status.

### Client (`archivist-client-core`, adapters)

| Part | State | Operations | Correct when |
|---|---|---|---|
| Spool (`spool.rs`) | bundle and staging files in one directory; rows of `spool_entries` | `materialize` (stage, rename, sync, row), `reconcile`, `remove` | a live row has its bundle; nothing complete is removed before its acknowledgement; one pass settles the directory |
| Pressure gate (`spool/pressure.rs`) | one latched Boolean in memory | `evaluate`, at every admission and every cycle | bytes are admitted only below the cap; usage overshoots by at most one bundle |
| Upload (`upload.rs`) | `frozen_requests`, attempt counts and schedule, `quarantined_uploads` | `freeze_upload`, `claim_due_upload`, `quarantine_upload` | a request is minted once, a retry is on disk before the attempt, its wait never shrinks, its own receipt settles it, quarantine is final |
| Acknowledgement (`acknowledgement.rs`) | `receipts`, `sources.last_cursor` and watermark | `acknowledge_receipt`: one transaction, then the bundle's removal | acknowledged exactly when a receipt for that range is stored; the cursor passes no range without one |
| Scheduler (`scheduler.rs`) | none (pure plan) | `plan`: reserve, then backfill | no plan spends beyond its means; the wait of a source that is promised a chunk is bounded by what ranks ahead of it |
| State database (`state.rs`, `state/`) | SQLite, `synchronous=FULL`, one-mutator lock, migrations | transactions, lock, migration ladder | one mutator; no partial transaction |
| Operator cycle (`archivist-cli`, `operator.rs`) | none | reconcile, gate, measure, plan, report (lines 392-433); nothing in the repository captures, claims or executes grants in a loop yet | every part gets its turn |
| Capture (`archivist-adapter-sdk`, adapters) | generation tracker, cursor, digests | `next_chunk`: stat, probe, read, detect, emit | a generation emits exactly what it acknowledged, and ends only for a file that did more than grow |

### Service (`archivist-server`, `-storage`, `-storage-s3`, `-auth`)

| Part | State | Operations | Correct when |
|---|---|---|---|
| Ingest route (`routes.rs`) | one attempt's future and its blocking commit task | admit, load evidence, stream, commit tail, receipt, deadline | a receipt means three durable, verified objects |
| Commit layer (`commit.rs`, `sequence.rs`, `manifests.rs`, `blob.rs`) | objects in the store | conditional create or overwrite, classification, ordered tail | references never dangle; manifests are written once; outcomes are honest |
| Store client (`raw_write.rs`) | multipart sessions | begin, part, complete, abort, put | a lost answer is harmless to a retry |
| Trust cache (`trust_cache.rs`) and chain walk (`authority.rs`) | cached resolutions with a lease | `resolve`, `resolve_authority`, `verify_signing_at` | no trust older than the lease |
| Readiness (`state.rs`) | last verified control read | `record_verified_control_read`, `evaluate` | ready only after, and shortly after, a verified read |
| Admission and shutdown (`guard.rs`, `serve.rs`, `multipart.rs`) | in-flight slots, token buckets, open uploads | admit, release, begin, complete, abort, drain, sweep | slots come back, no session leaks or is taken from its writer, shutdown ends |
| Collection (`collection.rs`, `retention.rs`) | retention entries, two scans, a plan, an audit journal | scan, build, execute and resume | a retained occurrence keeps its content; the journal accounts for every removal |
| Authorization (`authorize.rs`, `revocation.rs`, `delegation.rs`) | control records, epochs | pointer and history folds | a revoked client is refused |
| Receipts (`receipts.rs`) | signing schedule | sign | certified keys only |

### How they interact

The client's parts share one SQLite database and one directory, under one
mutator process that holds the state-directory lock, so the client is a
sequential program that may die between any two durable writes. It talks to the
service by an HTTP request that may be lost, answered twice (by a retry), or
answered after the client has given up. Replicas run attempts concurrently and
meet only in the object store, whose calls may fail, or take effect although
their answer is lost. Within a replica, requests share the trust cache (a lock
that is not held across the walk), the readiness ledger, the in-flight slots and
the registry of open multipart sessions, which a shutdown sweeps. Collectors run
beside the replicas and meet them only in the store. At the client's other end a
harness owns the transcript files and changes them at any moment, also between
the system calls of a capture pass.

### What is hard

- **Crashes between durable writes**: after the rename and before the row; after
  the acknowledgement commit and before the removal; between blob, occurrence
  and attestation. A power loss also undoes directory changes nobody synced.
- **Answers**: late, duplicated, re-dated receipts; store calls that took effect
  although they failed; a deadline that drops the request but not the commit.
- **Races**: two replicas contesting one occurrence; a slow walk inserting over a
  newer resolution; an upload between the last look of a collector and its
  delete; a file replaced between the stat and the read; a shutdown's sweep
  beside commits nobody waits for.
- **Clocks**: a retry schedule relative to a clock, a lease on a wall clock that
  jumps.
- **Limits**: a gate that latches between two thresholds and cannot see orphans;
  an exponential backoff with a persisted, growing exponent.

`PROJECT.json` lists 40 hazards at the lines where they bite, each with the
properties that would catch it going wrong, or with the reason none does yet.

## 2. Plan

In order of importance.

1. **Client spool** - `Pressure`, `Spool`, proofs in `PipelineProofs`. *Done.*
2. **Upload and acknowledgement** - `UploadQueue`, composed with `Spool` over one
   table in `ClientPipeline`, against the abstract `RangeCustody`. *Done.*
3. **Ingest commit** - `IngestCommit`, proofs in `IngestProofs`. *Done.*
4. **Trust cache and readiness** - `TrustCache`, proofs in `TrustProofs`. *Done.*
5. **Collection** - retention, two-scan mark, resumable sweep. *Done.*
6. **Server lifecycle** - admission, deadline, multipart sessions, shutdown. *Done.*
7. **File capture** - generations, cursor and the adapter's pass. *Done.*
8. **Scheduler** - the plan as a function and its waiting bound. *Done.*
9. **Proofs** - the safety properties and refinements of 1 to 8 (section 7).
   *Done*, but for the one section 7 names. Liveness is not in the provers' reach.

Left aside: revocation epochs and an end-to-end composition of `ClientPipeline`
with `IngestCommit`. The two meet only in the receipts, and what each side needs
of them is a property of its own module: `ReceiptMeansDurable` on the service's
side, `AcknowledgedIffReceipted` on the client's.

## 3. Modules and the code

```
Pressure <- Spool <- ClientPipeline -> RangeCustody   (refinement)
                     ClientPipeline -> UploadQueue    (instance, refinement)
                     ClientPipeline <- PipelineProofs -> UploadProofs (instance)
IngestCommit <- IngestProofs             UploadQueue     <- UploadProofs
TrustCache   <- TrustProofs              Collection      <- CollectionProofs
FileCapture, Scheduler <- CaptureProofs  ServerLifecycle <- ServerProofs
FiniteFacts  <- PipelineProofs, CollectionProofs, CaptureProofs
```

An arrow to the left is EXTENDS, one to the right INSTANCE. `FiniteFacts` holds
the lemmas about finite sets, folds and sums that several proofs need.
Each `MC...` module instantiates one of these for TLC. A few
definitions, each commented as what it gets wrong, are plausible mistakes, one per property, used to confirm that the
property would notice them; no specification uses them.

### `Pressure`

`PressureGate::evaluate` as operators: `CapLive`, `FloorLive`, the saturating
`resume_threshold_bytes`, `Evaluate` (the latch's next value) and `Reasons`. The
latch is a variable of `Spool`. `UMax` is the width of the unsigned product.

### `Spool`

| Variable | Code |
|---|---|
| `file` | the directory entry of an identity: nothing, its staging name, its bundle name |
| `possible` | the directory states a power loss could leave (a change is durable after `sync_directory`) |
| `row`, `indexed` | `spool_entries.state`; whether `index_orphan` inserted it |
| `minted` | identities drawn by `mint_uuid_v7` |
| `pc`, `cur`, `todo` | where the mutator stands in a call |
| `paused` | `PressureGate.paused`, lost at a restart |

`materialize` is `Materialize` (gate, then identity), `WriteAndSyncStaging`,
`RenameBundle`, `SyncDirectory`, `InsertSpoolEntry`: five actions because the
process may die between any two. `StagingFails` and `MaterializeFails` are its
error returns, with what each leaves on disk. `reconcile` is `StartReconcile`,
one `ReconcileEntry` per directory entry, `FinishReconcile` or
`ReconcileFails`. The acknowledgement is `CommitAcknowledged`, `RemoveBundle` or
`RemoveFails` (`CleanupPending`). `Crash` is process death, `PowerLoss` chooses
any possible directory. The states `uploading` and `uploaded` that the schema
allows are written by no code and are left out.

### `UploadQueue`

Each action is one SQLite transaction. `FreezeUpload` writes only the first time;
`ClaimDueUpload` takes the first due row in `next_attempt_at, spool_entry_id`
order and commits count and schedule *before* the attempt; `AttemptFails` maps a
failure through `decide`, and only quarantine writes; `AcknowledgeReceipt` is the
join (`LoadPending`), the binding (`ValidateBinding`), the admissibility of a
second receipt, the cursor conflict, then receipt, cursor, watermark and row
together. Time is relative (`wait`), so that the clock needs no bound. A receipt
is its request, the occurrence it names and a digest that tells two receipts of
one request apart; only receipts that verify reach the model. `BindRange` is the
capture engine's insert into `ranges`, modelled from how the acknowledgement
joins it. `attempt_count` saturates at `MaxAttempts`, which is beyond the value
at which `upper_bound_ms` reaches its cap. The tables start empty, in three
definitions after the migrations that create them (`SourcesInit`, `QueueInit`,
`UpgradedInit`).

### `ClientPipeline` and `RangeCustody`

`ClientPipeline` extends `Spool` and instantiates `UploadQueue` over the same
`row`. A transaction runs only while no spool call does (`pc = "idle"`), since
the mutator is one process; the clock and the network run beside it. `content`
is the range whose bytes a bundle holds, and a new row describes exactly those
bytes, whichever of `materialize` and `reconcile` inserts it.
`AcknowledgeAndCleanUp` is the acknowledgement of `UploadQueue` and the row
commit of `Spool` in one step, as in the code's single transaction.

`RangeCustody` is what all this promises: none, held, receipted, released, in
that order and with no way back.

### `IngestCommit`

| Variable | Code |
|---|---|
| `blob`, `occ`, `att` | what stands at each derived key |
| `pc`, `req`, `out` | an attempt: its step, its envelope, body and proof, its occurrence's outcome |
| `waiting` | the client still awaits the response |
| `presented`, `issued`, `received` | history: what was validly presented, signed, delivered |

`Receive`, `LoadEvidence`, `Stream`, `CommitBlob`, `CommitOccurrence`,
`CommitAttestation`, `IssueReceipt` follow `attempt_pipeline`, `attempt_commit`
and `land_tail_and_receipt`. A body is the declared bytes, too few of them, or
as many with another digest; `DrainVerdict` is the order in which the drain and
`commit_blob` judge it. `CallFails` is a call that did nothing, `AnswerLost` one
that did everything and was answered by a failure, `Deadline` the timeout that
takes the client away while the blocking commit runs on, `Crash` the death of a
replica with all its attempts. `commit_manifest` chooses between conditional
create and deterministic overwrite by the store's capability;
`classify_existing` judges an existing object by the evidence the store gives:
digest, size or nothing. A document is a model value, so two envelopes of one
occurrence may build equal or different ones (a manifest carries `source_time`,
which is no identity input).

### `TrustCache`

One tenant, a root authority and the successor one rotation link may install.
A request's `resolve` is four steps, because the lock is not held across them:
`Begin` reads the clock, `Lookup` answers from a fresh entry or evicts, `Walk`
reads the chain without the lock, `Insert` stores with the instant `Begin` read.
`Conclude` applies `verify_signing_at` and, if the record is accepted, refreshes
the readiness ledger; the rule refuses an instant past a retirement the
resolution knows of, and one before the signer was established or that is no
instant at all (`SignedAt`). `time` is true elapsed time, which `Instant` follows;
`wall` is `SystemClock`, which `StepClock` may set ahead or to zero. `LinksHanded`
is what a caller's closure may serve the walk: no link, as on the ingest route
(`routes.rs:393`), the published one, or bytes that do not verify.

### `Collection`

| Variable | Code |
|---|---|
| `present`, `version`, `landed`, `attempt` | the store: blobs with the commitment they show, occurrences, and ingest attempts between the two |
| `tomb`, `held` | `RetentionState`, with the age of the anchoring tombstone |
| `collector`, `listing`, `scans`, `plan` | two `ReferenceScan`s and the `CollectionPlan` |
| `journal`, `worker`, `swept` | the audit chain, each worker's place in `execute_resumable`, what the plan's deletes removed |

A listing takes the blobs and then, while uploads go on, the occurrences
(`ListBlobs`, `CompleteScan`). A worker's turn at a key is `Head_`,
`RecordPending`, `DeleteBlob`, `RecordOutcome`, since it may die, or another
worker may move, between any two; `append_audit_event` refuses another
event at an occupied sequence number, which is all that keeps two workers apart; a
byte-identical event the audit store may accept or refuse. A failed delete may
have removed the blob. `Versioned` says whether the store shows a version or
only an ETag. Only the enabled collector is modelled.

### `ServerLifecycle`

One replica, and a session per request. `admitted` and `share` are the two
permits, dropped together with the future that holds them (`Released`).
`SpawnCommit` moves a request to the blocking pool, from where `BeginSession`,
`Streamed` or `StreamFails`, `CommitSession`, `AbortSession` and `LandTail` carry
it on whether or not `DropFuture` has taken its future away. `open` is what the
backend holds, `live` and `abandoned` what `OpenUploads` knows; a call that fails
may have taken effect. A request of a connection
accepted before the signal may still arrive while the replica drains. `Signal`, `Drained` or `DrainTimesOut`, `AbortAbandoned`
and `Return` are the phases of `serve`; `ProcessEnds` starts the replica again
with an empty registry and leaves to the store's lifecycle rule what was open.

### `FileCapture`

`Stat`, `Probe`, `Open`, `Read` are one `next_chunk`, with the harness's `Write`
between any two of them and, for a file rewritten in place, within the read:
`Reads` returns a prefix of the content at the open followed by the content now.
`DetectGeneration` is the decision table in its order of precedence, `Observe`
the tracker, `EmitRecords` the cursor of a log and `EmitObject` the digest of a
whole-object stream. Digests are the contents they were taken of; an object is
shown to the tracker as `DigestProbe`, its digest and a newline, and since the raw
digest may hold a newline byte of its own, some contents (`BrokenDigests`) have one
that does. `generation.number` counts the generations opened, over restarts too;
`steady` is a history variable, see `RotatesForCause` below. A file is a
short sequence over three letters: a newline, plain text, and text that carries
an account member (the dialect's version 2). `Restart` loses tracker and cursor,
which are held in memory only. `None` stands for "no file" and "not yet
acknowledged"; `NoneAssumption` keeps it apart from the values it is compared
with, as `Option` does in the code. The decision tables are IF chains, since
their guards overlap and the code's first match wins.

### `Scheduler`

The code sorts and then loops. `InOrder` is both at once, a fold over the set of
sources that takes the last one of the given order off first: `Reservations` folds
`Reserve` over the active sources in identifier order, `Backfill` folds
`BackfillStep` over all sources in rank order, `Plan` is both. `Cycle` is the
operator's planning round; `Execute`, which carries its grants out, is external: the
cycle reports the plan's totals, and the daemon that executes it does not exist yet.
`Measure` lets a source grow, fail its scan or measure cleanly again.
`waits` is a history variable: the rounds each source may still go without a
grant, by the bound computed when its wait began, or `Forever` where the round
promises it nothing. A source that is served, or that had no promise, is promised
its next chunk afresh; every other one counts down.

## 4. Runs

| Run | Shows | Distinct states |
|---|---|---|
| `spool_crash` | three bundles, three faults: live rows keep their bundles, rows of `materialize` name bundles a power loss could not undo, no bundle goes before its acknowledgement, a completed pass settles the directory, usage is bounded; orphans are indexed and debris is removed in the end | 55,536 |
| `upload_queue` | two bundles, which may carry one range twice, two receipts per request, restarts: acknowledged iff receipted and once per range, the cursor comes from a receipted range, requests and quarantines are final, an entry's own receipt is accepted, the backoff never shrinks | 624,979 |
| `client_pipeline` | spool and queue together keep `RangeCustody`, still implement `UploadQueue`, and the cursor skips nothing | 465,364 |
| `ingest_commit` | two attempts on two replicas (one cannot sign) of two envelopes contesting one occurrence, with faults of every kind: the safety of the commit, and a client that goes on presenting its envelope gets a receipt | 299,538 |
| `trust_cache` | two racing requests, a rotation, links handed, withheld or broken, a stepped clock: staleness and readiness | 7,779,161 |
| `collection` | two workers and repeated passes beside uploads, retries, tombstones and holds, on a store with versions | 111,212 |
| `server_lifecycle` | three requests of two clients, two slots, two faults, shutdowns and restarts | 72,394 |
| `file_capture` | two changes and one restart, both stream kinds, all six causes of a rotation | 96,692 |
| `scheduler` | all backlogs of three sources over the chosen sizes, one new measurement, then rounds until nothing is left | 46,989 |
| `upload_replaced_file` | violation, finding 1 | |
| `collection_etag` | violation, finding 2 | |
| `scheduler_documented_bound` | violation, finding 3 | |

The properties that took the most thought:

- `UsageBounded` is weaker than "usage stays at the cap", which is false: the
  gate admits a bundle of any size below the cap, and it cannot see orphans that
  `reconcile` indexes later. What holds is an overshoot of one bundle.
- `CursorIsReceipted` and `CursorNeverSkips`: cursor and watermark are written in
  two branches of one function. The first says they always come from one
  acknowledged range; the second that everything at or below the watermark is
  receipted or still in the spool, acknowledged out of order or not.
- `AcknowledgedIffReceipted` includes that a range is acknowledged once: a crash
  can leave an orphan whose range is captured again; only the range row keeps
  both from being acknowledged.
- `NoDanglingReference` is about every intermediate state, not only the ends of
  attempts: a reader of the store may come at any moment.
- `RetryConverges` is stated for envelopes whose occurrence no different document
  contests; a contested one ends in a conflict by design.
- `StalenessBounded` compares two true instants (when the chain was read, when
  the request began) although the code compares two wall-clock readings. A clock set
  back stretches the lease by what it lost, and the property says by no more.
- `ReconcileSettles`: the usage the gate measures equals the bytes in the
  directory after a pass, which is what `live_usage_bytes` says of itself.
- `SessionsAccounted` says of every intermediate state who will end an open
  session: its writer, the sweep, or (for a session whose creation was never
  answered, or that outlived its process) the store's lifecycle rule. Its last
  part, that the sweep takes nothing from a writer, is what the `abandoned` flag
  of the registry is for: a commit that outlived its deadline is in flight while
  `serve` considers the replica drained.
- `RetainedContentKept` judges a delete by the occurrences standing at that
  moment, not by the scans it was planned from. It holds because every way from
  a blob to its occurrence is shorter than the separation of the scans, and
  because a newer upload changes the commitment; `collection_etag` removes the
  second reason.
- `OwnReceiptAccepted` says what makes a retry end: whatever else of the source was
  acknowledged, in whatever order and however often a range was spooled, the entry's
  own verified receipt is not refused. It needs ranges of a source to end at
  different offsets; finding 1 is the case in which they do not. Whether a receipt
  ever comes is the server's affair: an answer such as 409 stops the attempt and
  leaves the entry retained, and whether it is attempted again is the affair of an
  engine that is not in the repository. Neither is claimed.
- `RotatesForCause` judges a rotation by the file and not by the decision table: if
  at every moment since the pass's stat the file was the acknowledged one, grown or
  as it was (`steady`), the generation goes on, however appends tear the read. The
  converse does not hold: a torn read, or a replacement after the stat, whose bytes
  extend the acknowledged prefix continues the old generation for that pass, since
  identity and bytes are taken by different calls. `CaptureCatchesUp` says that a
  later pass puts this right.
- `PromiseKept` counts in whole chunks what the scheduler's comment counts in bytes,
  and its comment names who is promised nothing; finding 3 is the documented bound.

## 5. Bounds

Every bound is a constant of the cfg, named in the module that uses it.

- `spool_crash`: three entries, two of one byte that together reach the cap of two
  and one of three bytes that passes it at once; free space above and at the
  floor; `MaxFaults = 3`, enough for a failed call, a crash in its recovery and
  another in the next pass. An identity is drawn once, so entries bound the
  behaviours. `PowerLoss` is an action of `PowerSpec` only; `possible` already
  says in every state of `spool_crash` what a loss at that moment would leave, and
  the theorem covers any number of losses.
- `upload_queue`: two entries and two ranges of one source let one range be spooled
  twice and two ranges be acknowledged in either order; two receipts per request
  tell a repeated from a re-dated one; a base of 2, a cap of 3 and
  `Bits = 2` make the product overflow at the first failure and the shift at the second, within `MaxAttempts`; `MaxOverdue = 1` bounds how
  long a due row may wait unclaimed. Requests and digests are only compared, so
  permuting them is a symmetry. These runs end when everything is settled and ranges run out, hence
  `CHECK_DEADLOCK FALSE`.
- `client_pipeline`: two entries, two successive ranges, one crash or failed call,
  one attempt each. The interesting interleavings are between spool calls and
  transactions, not between retries, which `upload_queue` has explored.
- `ingest_commit`: two attempts suffice for every race at a key, since a commit
  reads and writes one key at a time; one replica signs and one does not; two
  documents of different length at one occurrence separate the three kinds of
  evidence; a fault may be a failed call, a lost answer, a deadline or a death,
  and the client's retries are unbounded.
- `trust_cache`: a lease of 2 and two units of time put a request exactly at the
  lease's end; the clock starts at 1 and may be stepped to any reading
  from 0 to a whole lease ahead, so that it is set back by less than a lease, by a
  lease and by more.
- `collection`: two occurrences of one blob are the smallest case of shared content;
  two uploads of it, two executions of a plan and one fault put a retry, a second
  worker and a death or lost answer around one delete. `AttemptTime < Separation`
  is an assumption: the server's deadline and the client's retries are minutes,
  the separation of the scans a day. Ages stop counting at the threshold they are
  compared with, and passes repeat for ever.
- `server_lifecycle`: two slots and three requests fill the cap; a share of one with
  two requests of one client fills the share; two faults allow a failed commit
  followed by a failed abort. Restarts after a completed shutdown are unbounded.
- `file_capture`: eight contents of at most five letters with torn tails, one and
  two records, changes of the last, the first and the length; two inodes let one
  be reused; two changes put one before and one into a pass, or both into one. The
  contents of one and four letters have a digest with a newline byte.
- `scheduler`: backlogs of 0, 1, 3 and 6 bytes with a chunk of 2 give no chunk, part
  of one, and several; capacities and quanta of odd size force the rounding;
  `Forever` (-1) stands for no promise; a promised wait is at least 1 and counts down.

## 6. Fairness

- `SpoolFairSpec`: a started call runs on (`WF` of its steps), as the mutator is a
  sequential program, and a pass is started again and again (`SF` of
  `StartReconcile`), as the operator cycle reconciles at the head of every cycle.
  The number of faults is finite, as in any execution that makes progress.
- `FairSpec` of `IngestCommit`: the runtime drives each attempt it accepted (`WF`
  of `Advance`), and a client without a receipt presents its envelope again to
  each replica (`SF` of that presentation), as the retry schedule does.

- `ServerFairSpec`: the blocking pool runs its tasks and the two timers, the
  deadline and the drain window, fire (`WF`). A request's body is the client's:
  nothing is assumed of `Streamed` and `StreamFails`.
- `CaptureFairSpec`: passes go on (`WF` of `Pass`). This is the contract `next_chunk` has
  with its caller: no production loop calls it yet; the harness may stop or not.

`SchedulerSpec` needs none: its bounds are counted in rounds, whenever they are run
and executed. `Spec` of `TrustCache`, `QueueSpec`, `CollectionSpec`, `PipeSpec` and `PowerSpec` assume nothing: for claims and for collection passes the repository has no loop whose scheduling could justify more.

## 7. Proofs

All theorems hold for every value of the constants that satisfies the named
assumptions of the modules (`PressureAssumption`, `SpoolAssumption`,
`QueueAssumption` and its copy `PipelineAssumption`, `IngestAssumption`,
`TrustAssumption`, `CollectionAssumption`, `ServerAssumption`,
`ContentsAssumption`, `NoneAssumption`, `SourcesAssumption`, `SizesAssumption`),
that is for any number of entries, attempts, requests, sources and faults.
`PressureAssumption` takes the resume percentage from 0..100, the range the
setting is validated to (`pressure.rs:113`). TLC evaluates each of these assumptions on the
instances it runs. Three theorems carry a hypothesis of their own: two a capability
of the store that the code distinguishes (`ConditionalCreate`, `Versioned`), one that
no two ranges of a source end at one offset (`OwnReceiptsAreAccepted`).

### `FiniteFacts`

The library's induction theorems take an operator as a parameter, which the
installed provers cannot instantiate. These lemmas go around that: an induction
hypothesis is a *set* of good subsets, and a set all of whose proper subsets are
good is good (`Hereditary`), so by the least cardinality of a bad one there is
none (`SubsetInduction`). From it: a recursion that takes one element off at a
time has a solution (`FoldExists`), and only one (`FoldUnique`), which turns the
community modules' `MapThenFoldSet` from a CHOOSE into an equation per set; and
the laws of `SumFunctionOnSet`, that a sum grows with each element (`SumSteps`),
with the set (`SumMonotone`) and with the summands (`SumDominates`).

### `IngestProofs`

`IngestInv` says what an attempt's step implies about the store
(`ProgressIsDurable`: an attempt at "attestation" has its blob and its occurrence
standing), that receipts have their three objects, and that an attestation key
holds its own envelope's document only. The argument is a lemma per action over
two facts: a step changes the store as one attempt's call would (`StoreStep`),
and such a change never takes anything away (`Kept`). `ReferencesNeverDangle`
and `ReceiptsMeanDurable` hold on both store profiles.

`OutcomeInv` adds that a claim of "created" or "already present", carried by a
running attempt or written in a receipt, names the document that stands; it is
kept because such a claim is made only where creates are conditional, and there
nothing is replaced. It gives `ReceiptsAreHonest` and `IngestTypeCorrect`.
`ManifestsAreWrittenOnce` assumes `ConditionalCreate = TRUE`; section 9 says why.

`VerifiedInv` adds that an attempt past its drain was validly presented with a
body of the declared digest, so that whatever the remaining calls write, and
however often they are repeated after a lost answer, was vouched for
(`StoreHoldsVerified`).

### `TrustProofs`

The code compares wall-clock readings, the property true instants. The proof's
idea is the *lead* of a resolution, `cachedAt - readAt`: how far the clock of its
lease was ahead of true time when the chain was read. Setting the clock back lowers
its present lead by as much as it raises `setBack`, so no lead exceeds the two
together, and for a request about to look a resolution up, either the chain was read
after the request began or the request's own clock is that far ahead (`Comparable`). Then the age the
code computes bounds the true age. `TrustInv` states this of cached entries and
of resolutions walked but not yet inserted, since a slow insert may come late.
It yields `TrustTypeCorrect` and `CachedTrustIsFresh`, whatever links the callers
serve. `ReadyByEvidence` is the action property of the readiness
ledger: it turns ready only by a step that carries the evidence.

### `UploadProofs`

`AcknowledgedIffReceipted` is not inductive: the acknowledgement joins row, range
and request, and each of the three could have moved. `QueueInv` pins them. A
frozen request has a row and a row its payload (`RowInv`), the entry a range is
bound to carries that range (`BindingInv`), a stored receipt matches the request
and the payload of the entry its range is bound to (`ReceiptInv`), and no
acknowledged range ends beyond its source's watermark (`WatermarkCovers`). With
the lemma that the backoff never exceeds its cap, overflow or not
(`UpperBoundCapped`), it yields `QueueTypeCorrect`,
`AcknowledgementsAreReceipted`, `CursorsAreReceipted`, `WatermarksCover` and the
action property `PromisesStayFinal`. `OwnReceiptsAreAccepted` follows from it as
well: a refusal needs a range with a receipt already, which by `ReceiptInv` is the
entry's own, or a watermark at the range's end with another cursor, which by
`CursorIsReceipted` comes from another range with the same end; the hypothesis
excludes that.

### `PipelineProofs`

*The spool.* `SpoolInv` adds to the type invariant and `LiveRowHasBundle` what the mutator's
position says of the entry it works on (`PositionInv`: at "synced" its file is a
bundle, at "cleanup" its row is acknowledged, ...) and that an identity not yet
drawn has left no trace (`UnmintedInv`). Without the first, the row commit could
be of anything; without the second, `materialize` could stage over a bundle.
From it follow `SpoolTypeCorrect`, `LiveRowsKeepBundles` and, as an action
property, `BundlesKeptUntilAcknowledged`.

With power losses the directory may fall back and `PositionInv` no longer holds
as it stands. `PowerInv` speaks of `possible` instead: the visible state is one of
the possible ones, and at "synced" the bundle is the only one. It yields
`SyncedRowsSurvivePowerLoss`.

`ReconcileAlwaysSettles` is about the step that ends a scan. `ScanInv` says that
while `reconcile` runs, every entry no longer in `todo` is reconciled: its staging
file is gone, its bundle has a row. When `todo` is empty this holds of all, and
`ReconciledIsSettled` turns it into what the property says of the finished scan.

`UsageStaysBounded`: the gate measures once, before a bundle is staged, and the
row that counts the bundle commits four steps later. `AdmissionInv` says that
until then the recorded usage stays below the cap, which holds since one mutator
writes and nothing but its own commit adds to a usage the gate has seen.
`AdmittedBelowCap` says that a gate which admits has measured less than the cap,
latched or not, since the resume threshold is never above it. So the row that
commits is the one bundle over the cap, and whatever row goes, one remains
(`OneOverShrinks`).

*The pipeline.* `PipeInv` is `SpoolInv`, the instance's `QueueInv` and `ContentInv`: a row
describes the bytes of the bundle it was inserted for. Neither part's own proof
is repeated. Every step of the pipeline is a spool step or a stutter, and a
queue step or a stutter, so each part keeps its half; only `ContentInv` needs
work. The second simulation is the refinement `PipelineRunsUploadQueue`. The
first state and every step also map to `RangeCustody` under the custody mapping,
`PipelineKeepsCustody`: the one step that releases a range is the file's removal,
and there `PositionInv` and `ReceiptInv` say that the entry is acknowledged and
its receipt stored. `CursorsNeverSkip` follows from the same invariant.

### `CollectionProofs`

On any store: `CollectionInv` says of a worker that the delete it is about to
issue has its pending event in the journal and that an outcome "deleted" it is
about to record stands for a removal; hence `JournalAlwaysAccounts`, with any
number of workers on one plan.

On a store that exposes versions (`Versioned`): a version orders the uploads of a
key, so a commitment that still stands says that nothing was uploaded since. An
attempt whose blob is untouched since the first scan is at least as old as that
scan (`FirstScanInv`). No attempt lives as long as the scans lie apart
(`AttemptTime < Separation`, in `CollectionAssumption`, see section 5; `build`
accepts no two scans less than a day apart). So the second scan has seen every occurrence of an untouched blob
(`SecondScanInv`), and one that still stands as the plan expects it has no
attempt under way and only cleared occurrences (`PlanInv`). At the conditional
delete this is `RetainedContentStays`. Without `Versioned` it is false: finding 2.

### `ServerProofs`

`ServerInv` adds to `SessionsAccounted` that a request short of its commit holds
its slot, so a drained server has none (`FuturesHoldSlots`), that nobody works on a
session that is abandoned or in the sweep's snapshot (`AbandonedIsOver`), and
the sweep's books: what it set out to abort is aborted, still to be called, or a
failure (`SweepInv`). It yields `ServerTypeCorrect`, `SessionsStayAccounted` and
`CleanReturnsAreClean`.

### `CaptureProofs`

For any contents and any rewrite between or inside the passes. The facts about
record boundaries come first: `LastNewline` exists by well-foundedness, and the
tail kept from the last pass joined to the chunk read now is the complete prefix
of the file (`ChunkCompletes`). `TableDecides` says what each row of the decision
table implies of the two histories. Then `CaptureInv`, which adds to
`EmittedIsAcknowledged` that a stream never acknowledged has emitted and
remembers nothing, that an object's tracker and its capture hold one digest, that
what is acknowledged ends in a newline (`CompleteInv`), and that in a steady pass
the identity taken, the file opened and the file under the path all continue what is
acknowledged (`SteadyInv`). It yields `EmittedStaysAcknowledged` and, as an action
property, `GenerationsCloseForCause`: a read of such a file, torn between two of its
contents, still extends the acknowledged prefix (`TornReadKeeps`,
`AcknowledgedSurvives`), so the table's only row is the one that continues.

*The scheduler.* Each of plan()'s two loops is first shown to be a recursion over
the sources served so far (`ReservationsLoop`, `BackfillLoop`: the order backfill
spends in is total, so the fold's next source is determined). Then what the loop
has done is an invariant of that recursion, proved by `SubsetInduction`:
`ReservedFor` (all of the sources seen are served and the bytes spent are the sum
of their chunks, or they ask for more than the capacity) and `BackfilledFor` (no
share beyond residual, quantum or capacity; a source passed over found less than a
chunk left, and those ahead of it were granted the rest in whole chunks). At the
end of both loops this is `PlanStaysWithinMeans`.

`PromisedSourcesAreServed` relates rounds. `WaitsInv` says that a source's
remaining wait is at least what the present round would promise it. A round only
takes away, from each source at least the chunks it granted (`CycleShrinks`, with
the least number of chunks that hold a backlog, `CeilDivLeast`); so reservations
that fitted go on fitting and leave no less (`ReservationsGoOnFitting`), nobody
new comes ahead of a source that was not served (`AheadShrinks`), and the chunks
ahead of it fall by at least a round's worth: the quotient falls by one
(`BoundFalls`). Since no promise is for less than one round, no wait reaches zero.

### Only model-checked

Liveness: `DebrisEventuallyResolved`, `RetryConverges`, `SlotsComeBack`,
`ShutdownCompletes`, `CaptureCatchesUp`. It is out of the prover's reach, as is anything with
`ENABLED`. Of the safety properties of the passing runs `BackoffNeverShrinks`, which
needs the powers of two, is only model-checked; every other invariant, action
property and refinement is also a theorem.

## 8. Findings

In each, a run shows what the code does against what its own documentation says;
`PROJECT.json` has the quotations.

1. **A replaced file can make an entry's own receipt unacceptable**
   (`upload_replaced_file`, `acknowledgement.rs:609`). The watermark is per source,
   range ends are offsets in a generation. A range of a new generation ending where
   the old one did is refused at every acknowledgement, though its receipt is valid.
2. **An ETag does not tell an upload from its repetition** (`collection_etag`,
   `collection.rs:1410`). `has_commitment` accepts an ETag alone. Every upload of
   a blob key carries the same bytes and thus the same ETag, so a blob uploaded
   again after the second scan passes the HEAD and the conditional delete, and
   the occurrence that lands behind the upload loses its content. With a version
   the same run passes.
3. **The waiting bound of the scheduler is short by the rounding**
   (`scheduler_documented_bound`, `scheduler.rs:330`). The documented round is
   `ceil(A / C) + 1` in bytes. Grants are whole chunks, and the capacity is no
   multiple of one: below a chunk of capacity a source with one outstanding byte is
   never served, and with three bytes of capacity, chunks of two and six bytes ahead,
   one that is promised round 3 is served in round 4. `WholeChunkBound` is the bound
   that holds.

## 9. Remarks

Places where the models had to follow the code against a comment, or where a
reader may expect more than the code gives. No run depends on these as failures.

- *Power loss and orphans.* `index_orphan` (`spool.rs:882`) commits a row without a
  directory sync, so a power loss can remove the bundle under it, against
  `spool.rs:7` and `:19`. `SyncedRowSurvivesPowerLoss` is therefore stated of the
  rows `materialize` committed.
- *Overwriting stores.* Where creates are not conditional, `commit.rs:288` replaces
  what stands, and the occurrence manifest carries `source_time`, which is no
  identity input, so the last of two uploads that differ in it wins;
  `manifests.rs:40` says "write-once". `ManifestsAreWrittenOnce` assumes
  `ConditionalCreate = TRUE`.
- *A clock at zero.* The saturating difference at `trust_cache.rs:194` makes every
  entry look new when the clock reads 0 or was set back, against lines 84-86 ("fails
  closed toward re-walking") and line 200 ("bounded by the same lease either way").
  `StalenessBounded` says by how much the lease then stretches.
- *The ingest route follows no rotation.* Its closure (`routes.rs:393`) returns no
  link, against `authorize.rs:401-405`: a successor's records are refused there, and
  a retirement goes unnoticed. Nothing is claimed of following a rotation.
- *Expired references.* After a sweep an expired occurrence still names its
  collected blob, and `ReferenceScan::new` refuses every later scan for it
  (`collection.rs:453`, `REFERENCE_ABSENT`) until that content is uploaded again;
  other expendable content stays meanwhile, against `collection.rs:17-22`. So no
  property says that what nobody needs goes.
- *Late holds.* A legal hold placed after `build` does not stop that plan's sweep
  (`collection.rs:1113`), against `docs/protocol/v1.md:1561`; `RetainedContentKept`
  judges by what the plan had cleared.
- *The deadline leaves the commit running.* `guard.rs:338` says "dropped, never
  abandoned running"; the future is dropped, the blocking commit is not. More
  commits than slots may run, `Drained` does not wait for them, and no timer
  bounds the body they read.
- *A short reservation closes the round.* A reservation that does not fit closes
  backfill and every later reservation, in identifier order, for as long as capacity
  stays short.
- *Stat before read.* A file replaced between the two is recorded under the old
  identity; the next pass sees the new one, rotates and captures it again. The
  Claude adapter checks the format in a read of its own; a log that acquires an
  account member inside the header window is refused until it is rediscovered.
- *Restarts.* Captures are opened without a tracker (`lib.rs:784`), and nothing calls
  `AcknowledgedSource::from_parts`, although `file_generation.rs:102` says detection
  survives a restart: the next pass opens a second initial generation.
- *Ended sessions.* `S3RawWriteStore.sessions` keeps the entry of every session of
  the process, and an abort answered "not found" counts as done.

## 10. What is not modelled

- Authorization folds, revocation epochs and delegation: `IngestCommit` stands on a
  Boolean verdict of authorization, fixed when the evidence is loaded, so nothing
  is said about a revocation published during a long stream.
- The arithmetic of the token bucket (a rate refusal is one way to be refused),
  the engine that will capture, claim and execute grants, and the migration ladder.
- Copied sidecars, discovery, and the codex, opencode and pi variants of
  `next_chunk`, which drive the tracker and cursor that `FileCapture` models.
- Cryptography, canonical encoding, digests, key derivation: pure functions of
  bytes. The models use identities where the code compares digests, which takes
  collision freedom for granted, and take "the signature verifies" as given.
- HTTP and multipart framing, header parsing, error wording, metrics, the inference
  proxy and format-specific adapters: parsing without protocol state of its own.
- Catalog, export and audit jobs: passes over immutable objects.
- SQLite is taken to be what `synchronous=FULL` promises, and the state-directory
  lock to admit one mutator.

## 11. Running it

In this directory, with the community modules and the TLAPS library on the path:

```
tlc -workers 2 -config MCSpool.cfg MCSpool
tlc -workers 2 -config MCTrustCache.cfg MCTrustCache
tlapm FiniteFacts.tla
for m in Upload Pipeline Ingest Trust Collection Server Capture; do
  tlapm ${m}Proofs.tla
done
```

Every run takes under three minutes. `PROJECT.json` lists the runs with their
properties, the mutation that each property must notice, the source lines each
definition stands for, the hazards and the theorems.
