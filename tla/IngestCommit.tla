---------------------------- MODULE IngestCommit ----------------------------
(***************************************************************************)
(* One ingest attempt, from the admitted request to the signed receipt:    *)
(* attempt_pipeline, attempt_commit and land_tail_and_receipt of           *)
(* archivist-server src/routes.rs over commit_blob, commit_provenance and  *)
(* commit_manifest of archivist-storage.  Replicas share nothing but the   *)
(* object store; several attempts, also of one frozen envelope, run at     *)
(* once, and a store call may take effect although its answer is lost.     *)
(***************************************************************************)
EXTENDS Naturals, FiniteSets

CONSTANTS
    Attempts,            \* attempts that may be under way at once
    ReplicaOf,           \* the replica that runs each of them
    SigningReplicas,     \* replicas that retain a receipt schedule
    Envelopes,           \* frozen envelopes
    BlobOf,              \* the declared blob digest, the blob's key
    OccurrenceOf,        \* the occurrence identity, which folds the digest
    DocumentOf,          \* the occurrence manifest's bytes
    LengthOf,            \* the length of a manifest
    ConditionalCreate,   \* capabilities().conditional_create is Supported
    Evidence,            \* what AlreadyExists may report of the stored object
    MaxFaults,           \* bound: failed or lost calls, deadlines, crashes
    Absent, NoEnvelope

Replicas == { ReplicaOf[a] : a \in Attempts }
Blobs == { BlobOf[e] : e \in Envelopes }
Occurrences == { OccurrenceOf[e] : e \in Envelopes }
Documents == { DocumentOf[e] : e \in Envelopes }

\* What the body carries: the declared bytes, too few of them (or a broken
\* frame), or as many bytes with another digest.
Bodies == {"declared", "truncated", "altered"}

ASSUME IngestAssumption ==
    /\ SigningReplicas \subseteq Replicas
    /\ \A e, f \in Envelopes :
          OccurrenceOf[e] = OccurrenceOf[f] => BlobOf[e] = BlobOf[f]
    /\ \A x \in Documents \cup Envelopes : LengthOf[x] \in Nat
    /\ ConditionalCreate \in BOOLEAN
    /\ Evidence \subseteq {"digest", "size", "none"} /\ Evidence # {}
    /\ MaxFaults \in Nat
    /\ Absent \notin Documents \cup Envelopes \cup Bodies
    /\ NoEnvelope \notin Envelopes

VARIABLES
    blob,       \* content standing at each blob key
    occ,        \* document standing at each occurrence key
    att,        \* document standing at each attestation key
    pc,         \* where each attempt stands; "idle" when there is none
    req,        \* [env, body, proof] of the attempt
    out,        \* the outcome its occurrence commit reported (the blob's is
                \* always unknown, and no other envelope has its attestation)
    waiting,    \* attempts whose client still awaits the response
    presented,  \* envelopes presented with their bytes and a valid signature
    issued,     \* receipts signed
    received,   \* envelopes whose client holds a receipt
    faults      \* failures so far, at most MaxFaults

vars == <<blob, occ, att, pc, req, out, waiting, presented, issued, received, faults>>

Outcomes == {"created", "already_present", "unknown"}
NoRequest == [env |-> NoEnvelope, body |-> "declared", proof |-> FALSE]
ReceiptRecords == [env : Envelopes, occ : Outcomes]

IngestInit ==
    /\ blob = [k \in Blobs |-> Absent]
    /\ occ = [k \in Occurrences |-> Absent]
    /\ att = [e \in Envelopes |-> Absent]
    /\ pc = [a \in Attempts |-> "idle"]
    /\ req = [a \in Attempts |-> NoRequest]
    /\ out = [a \in Attempts |-> "none"]
    /\ waiting = {} /\ presented = {} /\ issued = {} /\ received = {}
    /\ faults = 0

-------------------------------------------------------------------------------
(* The commit decision layer.  A result is the object left standing and    *)
(* the outcome reported, or "conflict".                                    *)

classify_existing(stored, doc, evidence) ==
    CASE evidence = "digest" ->
            IF stored = doc THEN "equivalent" ELSE "contradicts"
      [] evidence = "size" ->
            IF LengthOf[stored] = LengthOf[doc] THEN "unproven" ELSE "contradicts"
      [] OTHER -> "unproven"

\* Bug: the create is not conditional on absence.
CreateAnyway(stored, doc, evidence) == [stored |-> doc, outcome |-> "created"]

\* Bug: an existing object is a conflict, whatever it holds.
ReplayConflicts(stored, doc, evidence) ==
    IF stored = Absent THEN [stored |-> doc, outcome |-> "created"]
    ELSE [stored |-> stored, outcome |-> "conflict"]

\* Bug: presence alone is taken for deduplication.
PresenceIsEnough(stored, doc, evidence) ==
    IF stored = Absent THEN [stored |-> doc, outcome |-> "created"]
    ELSE [stored |-> stored, outcome |-> "already_present"]

commit_by_conditional_create(stored, doc, evidence) ==
    IF stored = Absent THEN [stored |-> doc, outcome |-> "created"]
    ELSE [stored |-> stored,
          outcome |-> CASE classify_existing(stored, doc, evidence) = "equivalent" ->
                              "already_present"
                        [] classify_existing(stored, doc, evidence) = "contradicts" ->
                              "conflict"
                        [] OTHER -> "unknown"]

commit_by_deterministic_overwrite(stored, doc) == [stored |-> doc, outcome |-> "unknown"]

commit_manifest(stored, doc, evidence) ==
    IF ConditionalCreate THEN commit_by_conditional_create(stored, doc, evidence)
    ELSE commit_by_deterministic_overwrite(stored, doc)

-------------------------------------------------------------------------------
(* How an attempt moves and ends.  A deadline or a lost connection takes   *)
(* the client away; the blocking task runs on without it.                  *)

Goto(a, step) == pc' = [pc EXCEPT ![a] = step]

Reset(as) ==
    /\ pc' = [a \in Attempts |-> IF a \in as THEN "idle" ELSE pc[a]]
    /\ req' = [a \in Attempts |-> IF a \in as THEN NoRequest ELSE req[a]]
    /\ out' = [a \in Attempts |-> IF a \in as THEN "none" ELSE out[a]]
    /\ waiting' = waiting \ as

Ended(a) == Reset({a})

Fault ==
    /\ faults < MaxFaults
    /\ faults' = faults + 1

-------------------------------------------------------------------------------
(* Actions of the route.                                                   *)

\* A request arrives and is admitted.  The proof is the signature over the
\* four digests, under the key and scope the control records grant.
Receive(a, e, body, proof) ==
    /\ pc[a] = "idle"
    /\ Goto(a, "evidence")
    /\ req' = [req EXCEPT ![a] = [env |-> e, body |-> body, proof |-> proof]]
    /\ waiting' = waiting \cup {a}
    /\ presented' = IF body = "declared" /\ proof THEN presented \cup {e} ELSE presented
    /\ UNCHANGED <<blob, occ, att, out, issued, received, faults>>

\* The linked-client records were read and verified.
LoadEvidence(a) ==
    /\ pc[a] = "evidence"
    /\ Goto(a, "stream")
    /\ UNCHANGED <<blob, occ, att, req, out, waiting, presented, issued, received, faults>>

\* Bug: the encoder's gate is never consulted.
DrainUngated(r) == IF r.body = "declared" THEN "verified" ELSE "conflict"

\* Bug: the finished session is not held to the declared digest.
DrainUndigested(r) ==
    IF r.body = "truncated" \/ ~r.proof THEN "rejected" ELSE "verified"

\* The verdict at the end of the stream: the drain's framing, extent and
\* signed-request checks drop the encoder's gate; commit_blob compares the
\* digest behind it.
DrainVerdict(r) ==
    IF r.body = "truncated" \/ ~r.proof THEN "rejected"
    ELSE IF r.body = "altered" THEN "conflict" ELSE "verified"

\* The one streaming pass into an uncommitted multipart session.  A refused
\* verdict aborts the session before anything completes.
Stream(a) ==
    /\ pc[a] = "stream"
    /\ IF DrainVerdict(req[a]) = "verified"
       THEN /\ Goto(a, "complete")
            /\ UNCHANGED <<req, out, waiting>>
       ELSE Ended(a)
    /\ UNCHANGED <<blob, occ, att, presented, issued, received, faults>>

\* What each store call leaves standing: complete_multipart puts the
\* session's bytes at the declared key whatever stood there; the two
\* manifests go through commit_manifest.
OccurrenceResult(a, evidence) ==
    commit_manifest(occ[OccurrenceOf[req[a].env]], DocumentOf[req[a].env], evidence)
AttestationResult(a, evidence) == commit_manifest(att[req[a].env], req[a].env, evidence)

WriteBlob(a) == blob' = [blob EXCEPT ![BlobOf[req[a].env]] = req[a].body]
WriteOccurrence(a, evidence) ==
    occ' = [occ EXCEPT ![OccurrenceOf[req[a].env]] = OccurrenceResult(a, evidence).stored]
WriteAttestation(a, evidence) ==
    att' = [att EXCEPT ![req[a].env] = AttestationResult(a, evidence).stored]

\* Bug: the attestation is landed before its occurrence.
AttestationFirst(a) ==
    /\ pc[a] = "complete"
    /\ WriteBlob(a)
    /\ Goto(a, "attestation")
    /\ UNCHANGED <<occ, att, req, out, waiting, presented, issued, received, faults>>

\* commit_blob's last step.
CommitBlob(a) ==
    /\ pc[a] = "complete"
    /\ WriteBlob(a)
    /\ Goto(a, "occurrence")
    /\ UNCHANGED <<occ, att, req, out, waiting, presented, issued, received, faults>>

\* Bug: the outcome does not reach the receipt.
OutcomeDropped(a, evidence) ==
    /\ pc[a] = "occurrence"
    /\ WriteOccurrence(a, evidence)
    /\ Goto(a, "attestation")
    /\ UNCHANGED <<blob, att, req, out, waiting, presented, issued, received, faults>>

\* The provenance tail.  A conflict ends the attempt with what stands.
CommitOccurrence(a, evidence) ==
    /\ pc[a] = "occurrence"
    /\ WriteOccurrence(a, evidence)
    /\ IF OccurrenceResult(a, evidence).outcome = "conflict"
       THEN Ended(a)
       ELSE /\ Goto(a, "attestation")
            /\ out' = [out EXCEPT ![a] = OccurrenceResult(a, evidence).outcome]
            /\ UNCHANGED <<req, waiting>>
    /\ UNCHANGED <<blob, att, presented, issued, received, faults>>

CommitAttestation(a, evidence) ==
    /\ pc[a] = "attestation"
    /\ WriteAttestation(a, evidence)
    /\ IF AttestationResult(a, evidence).outcome = "conflict"
       THEN Ended(a)
       ELSE /\ Goto(a, "receipt")
            /\ UNCHANGED <<req, out, waiting>>
    /\ UNCHANGED <<blob, occ, presented, issued, received, faults>>

\* All three objects stand.  A replica with no usable schedule answers
\* partial_commit; a signed receipt reaches only a client still there.
IssueReceipt(a) ==
    /\ pc[a] = "receipt"
    /\ IF ReplicaOf[a] \in SigningReplicas
       THEN /\ issued' = issued \cup {[env |-> req[a].env, occ |-> out[a]]}
            /\ received' = received \cup { req[b].env : b \in waiting \cap {a} }
       ELSE UNCHANGED <<issued, received>>
    /\ Ended(a)
    /\ UNCHANGED <<blob, occ, att, presented, faults>>

\* A call to the control registry or the object store fails and nothing was
\* applied: unavailable, and the attempt ends where it stands.
CallFails(a) ==
    /\ pc[a] \in {"evidence", "stream", "complete", "occurrence", "attestation"}
    /\ Fault
    /\ Ended(a)
    /\ UNCHANGED <<blob, occ, att, presented, issued, received>>

\* The store applied the call and its answer was lost: to the attempt it is
\* the same failure.
AnswerLost(a, evidence) ==
    /\ \/ pc[a] = "complete" /\ WriteBlob(a) /\ UNCHANGED <<occ, att>>
       \/ pc[a] = "occurrence" /\ WriteOccurrence(a, evidence) /\ UNCHANGED <<blob, att>>
       \/ pc[a] = "attestation" /\ WriteAttestation(a, evidence) /\ UNCHANGED <<blob, occ>>
    /\ Fault
    /\ Ended(a)
    /\ UNCHANGED <<presented, issued, received>>

\* The request deadline elapses or the connection goes.  Only an attempt
\* still reading evidence dies with its future: the commit runs in a
\* blocking task that nothing cancels.
Deadline(a) ==
    /\ a \in waiting
    /\ Fault
    /\ IF pc[a] = "evidence"
       THEN Ended(a)
       ELSE waiting' = waiting \ {a} /\ UNCHANGED <<pc, req, out>>
    /\ UNCHANGED <<blob, occ, att, presented, issued, received>>

\* A replica dies with every attempt it runs.
Crash(r) ==
    /\ \E a \in Attempts : ReplicaOf[a] = r /\ pc[a] # "idle"
    /\ Fault
    /\ Reset({ a \in Attempts : ReplicaOf[a] = r })
    /\ UNCHANGED <<blob, occ, att, presented, issued, received>>

\* What an attempt does when nothing fails.
Advance(a) ==
    \/ LoadEvidence(a) \/ Stream(a)
    \/ CommitBlob(a)
    \/ \E evidence \in Evidence :
          CommitOccurrence(a, evidence) \/ CommitAttestation(a, evidence)
    \/ IssueReceipt(a)

Next ==
    \/ \E a \in Attempts :
          \/ \E e \in Envelopes, body \in Bodies, proof \in BOOLEAN :
                Receive(a, e, body, proof)
          \/ Advance(a) \/ CallFails(a) \/ Deadline(a)
          \/ \E evidence \in Evidence : AnswerLost(a, evidence)
    \/ \E r \in Replicas : Crash(r)

Spec == IngestInit /\ [][Next]_vars

\* The runtime drives every attempt it started, and a client that holds no
\* receipt presents its frozen envelope again, to each replica in turn.
FairSpec ==
    /\ Spec
    /\ \A a \in Attempts : WF_vars(Advance(a))
    /\ \A a \in Attempts, e \in Envelopes :
          SF_vars(e \notin received /\ Receive(a, e, "declared", TRUE))

-------------------------------------------------------------------------------
(* Properties.                                                             *)

Steps == {"idle", "evidence", "stream", "complete", "occurrence",
          "attestation", "receipt"}
Requests == [env : Envelopes \cup {NoEnvelope}, body : Bodies, proof : BOOLEAN]

\* Every variable holds a value of its kind.
IngestTypeOK ==
    /\ blob \in [Blobs -> Bodies \cup {Absent}]
    /\ occ \in [Occurrences -> Documents \cup {Absent}]
    /\ att \in [Envelopes -> Envelopes \cup {Absent}]
    /\ pc \in [Attempts -> Steps]
    /\ req \in [Attempts -> Requests]
    /\ out \in [Attempts -> Outcomes \cup {"none"}]
    /\ waiting \subseteq Attempts
    /\ presented \subseteq Envelopes
    /\ issued \subseteq ReceiptRecords
    /\ received \subseteq Envelopes
    /\ faults \in 0..MaxFaults

\* A signed receipt means three durable objects (routes.rs, RCPT-001): the
\* declared bytes at the blob key and both manifests, and they stay,
\* whatever other attempts write, lose or abandon afterwards.
ReceiptMeansDurable ==
    \A r \in issued :
        /\ blob[BlobOf[r.env]] = "declared"
        /\ occ[OccurrenceOf[r.env]] # Absent
        /\ att[r.env] = r.env

\* No reader of the store ever finds an attestation without its occurrence
\* or an occurrence without its blob (commit_sequence), at any moment of any
\* interleaving of attempts, failed calls and crashes.
NoDanglingReference ==
    /\ \A e \in Envelopes :
          att[e] # Absent => occ[OccurrenceOf[e]] # Absent
    /\ \A e \in Envelopes :
          occ[OccurrenceOf[e]] # Absent => blob[BlobOf[e]] = "declared"

\* Nothing appears at a derived key unless an envelope naming that key was
\* presented with its declared bytes and a valid signature over them
\* (DrainChunks, GateEncoder), and a blob key holds only the bytes it names.
NothingUnverifiedStored ==
    /\ \A k \in Blobs : blob[k] # Absent =>
          blob[k] = "declared" /\ \E e \in presented : BlobOf[e] = k
    /\ \A k \in Occurrences : occ[k] # Absent =>
          \E e \in presented : OccurrenceOf[e] = k
    /\ \A e \in Envelopes : att[e] # Absent => e \in presented

\* A receipt that claims its occurrence was created or already present
\* claims exact bytes (commit_by_conditional_create, RCPT-003): the document
\* standing at the key is the one this envelope builds.
OutcomesAreHonest ==
    \A r \in issued :
        r.occ \in {"created", "already_present"} =>
            occ[OccurrenceOf[r.env]] = DocumentOf[r.env]

\* A manifest, once written, is never replaced (manifests.rs: immutable and
\* write-once at the derived keys).
ManifestsWriteOnce ==
    [][ /\ \A k \in Occurrences : occ[k] # Absent => occ'[k] = occ[k]
        /\ \A e \in Envelopes : att[e] # Absent => att'[e] = att[e] ]_vars

\* A client that goes on presenting its frozen envelope ends up with a
\* receipt (sequence.rs: the identical retry converges on what stands) in
\* spite of failed calls, lost answers, deadlines and crashes, unless another
\* document already stands at its occurrence key.
RetryConverges ==
    \A e \in Envelopes :
        <>(e \in received \/ occ[OccurrenceOf[e]] \notin {Absent, DocumentOf[e]})
===============================================================================
