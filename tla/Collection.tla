----------------------------- MODULE Collection -----------------------------
(***************************************************************************)
(* Blob collection: the retention records of archivist-auth retention.rs   *)
(* and the two-pass mark and the resumable sweep of archivist-storage      *)
(* collection.rs, run against a store into which ingest attempts keep      *)
(* writing.  Several workers may execute one plan, each may die between    *)
(* two calls, and a listing is no snapshot.                                *)
(*                                                                         *)
(* Time is kept as ages that stop counting once they no longer matter.     *)
(***************************************************************************)
EXTENDS Naturals, Sequences, FiniteSets

CONSTANTS
    Blobs,          \* blob keys, ordered as the plan's decisions are
    Occurrences,    \* occurrence identities
    BlobOf,         \* the blob an occurrence manifest names
    Workers,        \* processes that may execute a plan
    Versioned,      \* the store exposes a version; else an ETag of the bytes
    AttemptTime,    \* the longest way of an ingest attempt from its blob to
                    \* its occurrence
    Separation,     \* MIN_SCAN_SEPARATION_SECONDS
    Grace,          \* DELETION_GRACE_SECONDS
    MaxWrites,      \* bound: uploads of one blob
    MaxStarts,      \* bound: executions of one plan
    MaxFaults,      \* bound: failed store calls and dead workers
    Idle, Never

ASSUME CollectionAssumption ==
    /\ Blobs \subseteq Nat /\ IsFiniteSet(Blobs)
    /\ BlobOf \in [Occurrences -> Blobs]
    /\ Versioned \in BOOLEAN
    /\ AttemptTime \in Nat /\ Separation \in Nat /\ AttemptTime < Separation
    /\ Grace \in Nat /\ MaxWrites \in Nat /\ MaxStarts \in Nat /\ MaxFaults \in Nat
    /\ Idle \notin Nat /\ Never \notin Nat

VARIABLES
    present,    \* blobs standing in the store
    version,    \* uploads of each blob so far: the version its key shows
    landed,     \* occurrence manifests standing
    attempt,    \* age of an attempt whose blob is complete, or Idle
    tomb,       \* age of the first tombstone, or Never
    held,       \* occurrences under an active legal hold
    collector,  \* "scan", "listed", "marked" or "reported"
    listing,    \* the blobs the scan under way has listed, with commitments
    scans,      \* the completed scans of this pass, at most two
    age,        \* time since the first of them completed
    plan,       \* [expected, cleared] of the marked plan
    journal,    \* the audit events of the plan
    starts,     \* executions of the plan begun
    worker,     \* each worker's place in execute_resumable
    swept,      \* blobs this plan's deletes removed
    faults

storeVars == <<present, version, landed, attempt>>
retentionVars == <<tomb, held>>
markVars == <<collector, listing, scans, age, plan>>
sweepVars == <<journal, starts, worker, swept>>
vars == <<storeVars, retentionVars, markVars, sweepVars, faults>>

\* What a listing or a HEAD shows of a key, 0 when it is absent.  Encoding is
\* deterministic, so every upload of one blob has one size and one ETag.
Commitment(b) ==
    IF b \notin present THEN 0 ELSE IF Versioned THEN version[b] ELSE 1

ReferencesTo(b) == { o \in Occurrences : BlobOf[o] = b }

NoListing == [b \in Blobs |-> 0]
NoPlan == [expected |-> NoListing, cleared |-> {}]
Resting == [pc |-> "idle", seq |-> 0, todo |-> {}, seen |-> 0, outcome |-> "none"]

CollectionInit ==
    /\ present = {} /\ version = [b \in Blobs |-> 0]
    /\ landed = {} /\ attempt = [o \in Occurrences |-> Idle]
    /\ tomb = [o \in Occurrences |-> Never] /\ held = {}
    /\ collector = "scan" /\ listing = NoListing /\ scans = <<>> /\ age = 0
    /\ plan = NoPlan /\ journal = <<>> /\ starts = 0
    /\ worker = [w \in Workers |-> Resting]
    /\ swept = {} /\ faults = 0

Fault == faults < MaxFaults /\ faults' = faults + 1
NoFault == UNCHANGED faults

-------------------------------------------------------------------------------
(* The world around the collector.                                         *)

\* commit_blob of an ingest attempt, a first upload or a retry: the bytes are
\* put at the key whether or not the blob or the occurrence already stands.
CompleteBlob(o) ==
    /\ attempt[o] = Idle /\ version[BlobOf[o]] < MaxWrites
    /\ present' = present \cup {BlobOf[o]}
    /\ version' = [version EXCEPT ![BlobOf[o]] = @ + 1]
    /\ attempt' = [attempt EXCEPT ![o] = 0]
    /\ UNCHANGED <<landed, retentionVars, markVars, sweepVars, faults>>

LandOccurrence(o) ==
    /\ attempt[o] # Idle
    /\ landed' = landed \cup {o}
    /\ attempt' = [attempt EXCEPT ![o] = Idle]
    /\ UNCHANGED <<present, version, retentionVars, markVars, sweepVars, faults>>

\* The attempt dies between its blob and its occurrence.
DropAttempt(o) ==
    /\ attempt[o] # Idle
    /\ attempt' = [attempt EXCEPT ![o] = Idle]
    /\ UNCHANGED <<present, version, landed, retentionVars, markVars, sweepVars, faults>>

Aged(a, limit) == IF a < limit THEN a + 1 ELSE a

Tick ==
    /\ \A o \in Occurrences : attempt[o] # Idle => attempt[o] < AttemptTime
    /\ attempt' = [o \in Occurrences |-> IF attempt[o] = Idle THEN Idle ELSE attempt[o] + 1]
    /\ tomb' = [o \in Occurrences |-> IF tomb[o] = Never THEN Never ELSE Aged(tomb[o], Grace)]
    /\ age' = IF scans = <<>> THEN age ELSE Aged(age, Separation)
    /\ UNCHANGED <<present, version, landed, held, collector, listing, scans, plan,
                   sweepVars, faults>>

\* RetentionState::apply over the authority's records in epoch order: the
\* first tombstone is the anchor for good, a hold stands until a release.
Tombstone(o) ==
    /\ o \in landed /\ tomb[o] = Never
    /\ tomb' = [tomb EXCEPT ![o] = 0]
    /\ UNCHANGED <<storeVars, held, markVars, sweepVars, faults>>

LegalHold(o) ==
    /\ o \in landed \ held
    /\ held' = held \cup {o}
    /\ UNCHANGED <<storeVars, tomb, markVars, sweepVars, faults>>

Release(o) ==
    /\ o \in held
    /\ held' = held \ {o}
    /\ UNCHANGED <<storeVars, tomb, markVars, sweepVars, faults>>

eligible_at(o) == tomb[o] # Never /\ o \notin held /\ tomb[o] >= Grace

-------------------------------------------------------------------------------
(* The mark phase.                                                         *)

\* The inventory's pages come in key order: blobs before occurrences.
ListBlobs ==
    /\ collector = "scan" /\ Len(scans) < 2
    /\ collector' = "listed"
    /\ listing' = [b \in Blobs |-> Commitment(b)]
    /\ UNCHANGED <<storeVars, retentionVars, scans, age, plan, sweepVars, faults>>

\* The rest of the enumeration, and ReferenceScan::new: a reference to a blob
\* that the inventory does not hold refuses the scan.
CompleteScan ==
    /\ collector = "listed"
    /\ collector' = "scan"
    /\ listing' = NoListing
    /\ IF \A o \in landed : listing[BlobOf[o]] # 0
       THEN /\ scans' = Append(scans, [blobs |-> listing, refs |-> landed, apart |-> age])
            /\ age' = IF scans = <<>> THEN 0 ELSE age
       ELSE UNCHANGED <<scans, age>>
    /\ UNCHANGED <<storeVars, retentionVars, plan, sweepVars, faults>>

\* No DecisionReason holds against the blob: it is in both scans, with one
\* commitment, and every occurrence that names it, in either scan or in the
\* retention view alone, is past its grace and not held.
Marked(b) ==
    /\ scans[1].blobs[b] # 0 /\ scans[2].blobs[b] # 0
    /\ scans[1].blobs[b] = scans[2].blobs[b]
    /\ \A o \in (scans[1].refs \cup scans[2].refs) \cap ReferencesTo(b) : eligible_at(o)
    /\ \A o \in ReferencesTo(b) :
          (tomb[o] # Never \/ o \in held) => eligible_at(o)

\* CollectionPlan::build.  Scans too close together refuse, and the second is
\* taken again.
Build ==
    /\ collector = "scan" /\ Len(scans) = 2
    /\ IF scans[2].apart >= Separation
       THEN /\ collector' = "marked"
            /\ plan' = [expected |-> [b \in Blobs |-> IF Marked(b) THEN scans[1].blobs[b] ELSE 0],
                        cleared |-> { o \in Occurrences : eligible_at(o) }]
            /\ scans' = <<>> /\ age' = 0
       ELSE /\ scans' = <<scans[1]>>
            /\ UNCHANGED <<collector, plan, age>>
    /\ UNCHANGED <<storeVars, retentionVars, listing, sweepVars, faults>>

-------------------------------------------------------------------------------
(* The sweep: execute_resumable.                                           *)

Step(w, r) == worker' = [worker EXCEPT ![w] = r]
Halt(w) == Step(w, Resting)
FirstOf(keys) == CHOOSE k \in keys : \A j \in keys : k <= j
Key(w) == FirstOf(worker[w].todo)
Event(k, outcome) == [key |-> k, outcome |-> outcome]
Completed == { k \in Blobs : \E i \in DOMAIN journal : journal[i] = Event(k, "deleted") }

\* The journal is read and validated; completed keys are not taken again.
Start(w) ==
    /\ collector = "marked" /\ worker[w].pc = "idle" /\ starts < MaxStarts
    /\ starts' = starts + 1
    /\ Step(w, [Resting EXCEPT !.pc = "head", !.seq = Len(journal),
                  !.todo = { b \in Blobs : plan.expected[b] # 0 } \ Completed])
    /\ UNCHANGED <<storeVars, retentionVars, markVars, journal, swept, faults>>

\* The pre-delete HEAD of the next candidate.
Head_(w) ==
    /\ worker[w].pc = "head" /\ worker[w].todo # {}
    /\ LET k == Key(w)
           Recorded(outcome) == Step(w, [worker[w] EXCEPT !.pc = "record", !.outcome = outcome])
       IN  \/ Commitment(k) = plan.expected[k] /\ NoFault
              /\ Step(w, [worker[w] EXCEPT !.pc = "pending", !.seen = Commitment(k)])
           \/ k \in present /\ Commitment(k) # plan.expected[k] /\ NoFault
              /\ Recorded("changed_before_delete")
           \/ (IF k \in present THEN Fault ELSE NoFault)
              /\ Recorded("unreadable_before_delete")
    /\ UNCHANGED <<storeVars, retentionVars, markVars, journal, starts, swept>>

\* append_audit_event.  The audit store must refuse a conflicting replay of an
\* occupied sequence, and the execution then returns the error; an identical
\* event (one chain, so one previous digest) it may accept or refuse.
append_audit_event(w, event, after) ==
    \/ worker[w].seq = Len(journal) /\ journal' = Append(journal, event) /\ Step(w, after)
    \/ /\ worker[w].seq < Len(journal) /\ UNCHANGED journal
       /\ Halt(w) \/ (journal[worker[w].seq + 1] = event /\ Step(w, after))

RecordPending(w) ==
    /\ worker[w].pc = "pending"
    /\ append_audit_event(w, Event(Key(w), "delete_pending"),
                          [worker[w] EXCEPT !.pc = "delete", !.seq = @ + 1])
    /\ UNCHANGED <<storeVars, retentionVars, markVars, starts, swept, faults>>

\* Bug: the delete is not conditional on what the HEAD observed.
DeleteAnyway(w) ==
    /\ worker[w].pc = "delete"
    /\ present' = present \ {Key(w)} /\ swept' = swept \cup {Key(w)}
    /\ Step(w, [worker[w] EXCEPT !.pc = "record", !.outcome = "deleted"])
    /\ NoFault
    /\ UNCHANGED <<version, landed, attempt, retentionVars, markVars, journal, starts>>

\* Bug: a refused condition is reported as done.
DeleteMisreported(w) ==
    /\ worker[w].pc = "delete"
    /\ IF Commitment(Key(w)) = worker[w].seen
       THEN present' = present \ {Key(w)} /\ swept' = swept \cup {Key(w)}
       ELSE UNCHANGED <<present, swept>>
    /\ Step(w, [worker[w] EXCEPT !.pc = "record", !.outcome = "deleted"])
    /\ NoFault
    /\ UNCHANGED <<version, landed, attempt, retentionVars, markVars, journal, starts>>

\* delete_blob, conditional on the observed commitment.  A failure may come
\* before or after the object was removed.
DeleteBlob(w) ==
    /\ worker[w].pc = "delete"
    /\ LET k == Key(w)
           Answered(outcome) == Step(w, [worker[w] EXCEPT !.pc = "record", !.outcome = outcome])
           Removed == present' = present \ {k} /\ swept' = swept \cup {k}
       IN  \/ Commitment(k) = worker[w].seen /\ Removed
              /\ \/ Answered("deleted") /\ NoFault
                 \/ Answered("delete_failed") /\ Fault
           \/ Commitment(k) # worker[w].seen /\ UNCHANGED <<present, swept>>
              /\ Answered("changed_before_delete") /\ NoFault
           \/ UNCHANGED <<present, swept>> /\ Answered("delete_failed") /\ Fault
    /\ UNCHANGED <<version, landed, attempt, retentionVars, markVars, journal, starts>>

RecordOutcome(w) ==
    /\ worker[w].pc = "record"
    /\ append_audit_event(w, Event(Key(w), worker[w].outcome),
                          [worker[w] EXCEPT !.pc = "head", !.seq = @ + 1,
                              !.todo = @ \ {Key(w)}, !.seen = 0, !.outcome = "none"])
    /\ UNCHANGED <<storeVars, retentionVars, markVars, starts, swept, faults>>

\* Every candidate has its outcome: the report is returned.
Report(w) ==
    /\ worker[w].pc = "head" /\ worker[w].todo = {}
    /\ Halt(w)
    /\ collector' = "reported"
    /\ UNCHANGED <<storeVars, retentionVars, listing, scans, age, plan, journal, starts,
                   swept, faults>>

WorkerDies(w) ==
    /\ worker[w].pc # "idle" /\ Fault
    /\ Halt(w)
    /\ UNCHANGED <<storeVars, retentionVars, markVars, journal, starts, swept>>

\* The next pass begins with a first scan.
NextPass ==
    /\ collector = "reported" \/ (collector = "marked" /\ starts = MaxStarts)
    /\ \A w \in Workers : worker[w].pc = "idle"
    /\ collector' = "scan" /\ plan' = NoPlan
    /\ journal' = <<>> /\ starts' = 0 /\ swept' = {}
    /\ UNCHANGED <<storeVars, retentionVars, listing, scans, age, worker, faults>>

-------------------------------------------------------------------------------
SweepStep(w) ==
    Head_(w) \/ RecordPending(w) \/ DeleteBlob(w) \/ RecordOutcome(w) \/ Report(w)

CollectionNext ==
    \/ \E o \in Occurrences :
          \/ CompleteBlob(o) \/ LandOccurrence(o) \/ DropAttempt(o)
          \/ Tombstone(o) \/ LegalHold(o) \/ Release(o)
    \/ Tick
    \/ ListBlobs \/ CompleteScan \/ Build \/ NextPass
    \/ \E w \in Workers : Start(w) \/ SweepStep(w) \/ WorkerDies(w)

CollectionSpec == CollectionInit /\ [][CollectionNext]_vars

-------------------------------------------------------------------------------
(* Properties.                                                             *)

\* Shared content is never removed while a retained occurrence names it
\* (SEC-008): whatever is uploaded, retried or dropped around the two scans
\* and the sweep, a delete finds only occurrences the plan's retention view
\* had cleared, and a blob uploaded again after it was removed is not removed
\* a second time, however many workers execute the plan.
RetainedContentKept ==
    [][\A b \in present \ present' :
          landed \cap ReferencesTo(b) \subseteq plan.cleared /\ b \notin swept]_vars

\* The journal accounts for the sweep although workers die, answers are lost
\* and two workers execute one plan: every removal has its delete-pending
\* event, and a deleted event means the blob was removed.
JournalAccounts ==
    /\ \A b \in swept : \E i \in DOMAIN journal : journal[i] = Event(b, "delete_pending")
    /\ Completed \subseteq swept
===============================================================================
