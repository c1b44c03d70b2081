----------------------------- MODULE IngestProofs -----------------------------
(***************************************************************************)
(* TLAPS proofs about IngestCommit: for any set of replicas, attempts and  *)
(* envelopes, any store profile and any number of failures, no reference   *)
(* dangles, a signed receipt means three durable objects and nothing       *)
(* unverified is stored.                                                   *)
(***************************************************************************)
EXTENDS IngestCommit, TLAPS

\* How far an attempt got tells what stands in the store: the attempt only
\* moves on behind an answer, and nothing is ever removed or replaced by
\* Absent.  ReceiptMeansDurable and NoDanglingReference are not inductive
\* without it.
Progress(a) ==
    /\ pc[a] # "idle" => req[a].env \in Envelopes
    /\ pc[a] \in {"complete", "occurrence", "attestation", "receipt"} =>
          req[a].body = "declared"
    /\ pc[a] \in {"occurrence", "attestation", "receipt"} =>
          blob[BlobOf[req[a].env]] = "declared"
    /\ pc[a] \in {"attestation", "receipt"} =>
          occ[OccurrenceOf[req[a].env]] # Absent
    /\ pc[a] = "receipt" => att[req[a].env] # Absent

ProgressIsDurable == \A a \in Attempts : Progress(a)

\* The parts of the type invariant the argument needs.
Shape ==
    /\ blob \in [Blobs -> Bodies \cup {Absent}]
    /\ occ \in [Occurrences -> Documents \cup {Absent}]
    /\ att \in [Envelopes -> Envelopes \cup {Absent}]
    /\ pc \in [Attempts -> Steps]
    /\ req \in [Attempts -> Requests]

ReceiptsDurable ==
    \A r \in issued :
        /\ r.env \in Envelopes
        /\ blob[BlobOf[r.env]] = "declared"
        /\ occ[OccurrenceOf[r.env]] # Absent
        /\ att[r.env] # Absent

\* An attestation key holds nothing but its own envelope's attestation.
OwnAttestation == \A e \in Envelopes : att[e] \in {e, Absent}

IngestInv ==
    Shape /\ ProgressIsDurable /\ ReceiptsDurable /\ OwnAttestation /\ NoDanglingReference

-------------------------------------------------------------------------------
(* What one attempt's step may do to the store, and what it keeps.         *)

StoreTypes ==
    /\ blob \in [Blobs -> Bodies \cup {Absent}]
    /\ occ \in [Occurrences -> Documents \cup {Absent}]
    /\ att \in [Envelopes -> Envelopes \cup {Absent}]

StoreStep(a) ==
    \/ UNCHANGED <<blob, occ, att>>
    \/ pc[a] = "complete" /\ WriteBlob(a) /\ UNCHANGED <<occ, att>>
    \/ \E evidence \in Evidence :
          pc[a] = "occurrence" /\ WriteOccurrence(a, evidence) /\ UNCHANGED <<blob, att>>
    \/ \E evidence \in Evidence :
          pc[a] = "attestation" /\ WriteAttestation(a, evidence) /\ UNCHANGED <<blob, occ>>

\* Nothing that stands is taken away.
Kept ==
    /\ \A k \in Blobs : blob[k] = "declared" => blob'[k] = "declared"
    /\ \A k \in Occurrences : occ[k] # Absent => occ'[k] # Absent
    /\ \A e \in Envelopes : att[e] # Absent => att'[e] # Absent

\* A commit leaves its document or the one that stood, never nothing
\* (commit_manifest on either profile).
LEMMA CommitLeavesSomething ==
    ASSUME NEW stored, NEW doc, NEW evidence, doc # Absent
    PROVE  /\ commit_manifest(stored, doc, evidence).stored \in {stored, doc}
           /\ commit_manifest(stored, doc, evidence).stored # Absent
  BY DEF commit_manifest, commit_by_conditional_create, commit_by_deterministic_overwrite

\* Every envelope's keys and documents are keys and documents.
LEMMA KeysOfEnvelope ==
    ASSUME NEW e \in Envelopes
    PROVE  /\ BlobOf[e] \in Blobs /\ OccurrenceOf[e] \in Occurrences
           /\ DocumentOf[e] \in Documents
           /\ e # Absent /\ DocumentOf[e] # Absent /\ Absent # "declared"
  BY IngestAssumption DEF Blobs, Occurrences, Documents, Bodies

\* A store step keeps what stands, writes each key its own kind of object,
\* and writes in the order that leaves no reference dangling.
LEMMA StoreStepSafe ==
    ASSUME IngestInv, NEW a \in Attempts, StoreStep(a)
    PROVE  StoreTypes' /\ Kept /\ OwnAttestation' /\ NoDanglingReference'
  <1>0. StoreTypes /\ OwnAttestation /\ NoDanglingReference /\ ProgressIsDurable
    BY DEF IngestInv, Shape, StoreTypes
  <1>1. CASE UNCHANGED <<blob, occ, att>>
    BY <1>0, <1>1 DEF StoreTypes, Kept, OwnAttestation, NoDanglingReference
  <1>2. CASE pc[a] = "complete" /\ WriteBlob(a) /\ UNCHANGED <<occ, att>>
    <2> DEFINE e == req[a].env
    <2>1. e \in Envelopes /\ req[a].body = "declared"
      BY <1>0, <1>2 DEF ProgressIsDurable, Progress
    <2>2. blob' = [blob EXCEPT ![BlobOf[e]] = "declared"]
      BY <1>2, <2>1 DEF WriteBlob
    <2>3. \A k \in Blobs : blob'[k] = "declared" \/ blob'[k] = blob[k]
      BY <1>0, <2>2 DEF StoreTypes
    <2>4. StoreTypes'
      BY <1>0, <1>2, <2>2 DEF StoreTypes, Bodies
    <2>5. Kept /\ OwnAttestation'
      BY <1>0, <1>2, <2>3 DEF Kept, OwnAttestation
    <2>6. NoDanglingReference'
      BY <1>0, <1>2, <2>3, KeysOfEnvelope DEF NoDanglingReference
    <2> QED BY <2>4, <2>5, <2>6
  <1>3. CASE \E evidence \in Evidence :
               pc[a] = "occurrence" /\ WriteOccurrence(a, evidence) /\ UNCHANGED <<blob, att>>
    <2> DEFINE e == req[a].env
    <2>0. PICK evidence \in Evidence :
            pc[a] = "occurrence" /\ WriteOccurrence(a, evidence) /\ UNCHANGED <<blob, att>>
      BY <1>3
    <2> DEFINE new == commit_manifest(occ[OccurrenceOf[e]], DocumentOf[e], evidence).stored
    <2>1. e \in Envelopes /\ blob[BlobOf[e]] = "declared"
      BY <1>0, <2>0 DEF ProgressIsDurable, Progress
    <2>2. occ' = [occ EXCEPT ![OccurrenceOf[e]] = new]
      BY <2>0 DEF WriteOccurrence, OccurrenceResult
    <2>3. new \in {occ[OccurrenceOf[e]], DocumentOf[e]} /\ new # Absent
      BY <2>1, KeysOfEnvelope, CommitLeavesSomething
    <2>4. new \in Documents \cup {Absent}
      BY <1>0, <2>1, <2>3, KeysOfEnvelope DEF StoreTypes
    <2> HIDE DEF new
    <2>5. StoreTypes'
      BY <1>0, <2>0, <2>2, <2>4 DEF StoreTypes
    <2>6. \A k \in Occurrences : occ'[k] = occ[k] \/ (k = OccurrenceOf[e] /\ occ'[k] # Absent)
      BY <1>0, <2>2, <2>3 DEF StoreTypes
    <2>7. Kept /\ OwnAttestation'
      BY <1>0, <2>0, <2>6 DEF Kept, OwnAttestation
    <2>8. \A f \in Envelopes : occ'[OccurrenceOf[f]] # Absent => blob'[BlobOf[f]] = "declared"
      <3> TAKE f \in Envelopes
      <3> HAVE occ'[OccurrenceOf[f]] # Absent
      <3>1. CASE occ[OccurrenceOf[f]] # Absent
        BY <1>0, <2>0, <3>1 DEF NoDanglingReference
      <3>2. CASE occ[OccurrenceOf[f]] = Absent
        <4>1. OccurrenceOf[f] = OccurrenceOf[e]
          BY <2>6, <3>2, KeysOfEnvelope
        <4> QED BY <2>0, <2>1, <4>1, IngestAssumption
      <3> QED BY <3>1, <3>2
    <2>9. \A f \in Envelopes : att'[f] # Absent => occ'[OccurrenceOf[f]] # Absent
      BY <1>0, <2>0, <2>6, KeysOfEnvelope DEF NoDanglingReference
    <2>10. NoDanglingReference'
      BY <2>8, <2>9 DEF NoDanglingReference
    <2> QED BY <2>5, <2>7, <2>10
  <1>4. CASE \E evidence \in Evidence :
               pc[a] = "attestation" /\ WriteAttestation(a, evidence) /\ UNCHANGED <<blob, occ>>
    <2> DEFINE e == req[a].env
    <2>0. PICK evidence \in Evidence :
            pc[a] = "attestation" /\ WriteAttestation(a, evidence) /\ UNCHANGED <<blob, occ>>
      BY <1>4
    <2> DEFINE new == commit_manifest(att[e], e, evidence).stored
    <2>1. e \in Envelopes /\ occ[OccurrenceOf[e]] # Absent
      BY <1>0, <2>0 DEF ProgressIsDurable, Progress
    <2>2. att' = [att EXCEPT ![e] = new]
      BY <2>0 DEF WriteAttestation, AttestationResult
    <2>3. new \in {att[e], e} /\ new # Absent
      BY <2>1, KeysOfEnvelope, CommitLeavesSomething
    <2>4. new = e
      BY <1>0, <2>1, <2>3 DEF OwnAttestation
    <2> HIDE DEF new
    <2>5. \A f \in Envelopes : att'[f] = IF f = e THEN e ELSE att[f]
      BY <1>0, <2>1, <2>2, <2>4 DEF StoreTypes
    <2>6. StoreTypes'
      BY <1>0, <2>0, <2>1, <2>2, <2>4 DEF StoreTypes
    <2>7. Kept /\ OwnAttestation'
      BY <1>0, <2>0, <2>1, <2>5, KeysOfEnvelope DEF Kept, OwnAttestation
    <2>8. NoDanglingReference'
      BY <1>0, <2>0, <2>1, <2>5 DEF NoDanglingReference
    <2> QED BY <2>6, <2>7, <2>8
  <1> QED BY <1>1, <1>2, <1>3, <1>4 DEF StoreStep

-------------------------------------------------------------------------------
(* What every action of an attempt preserves.                              *)

\* An attempt that does not move, or that ends, still tells the truth.
LEMMA ProgressKept ==
    ASSUME IngestInv, Kept, NEW b \in Attempts,
           (pc'[b] = pc[b] /\ req'[b] = req[b]) \/ pc'[b] = "idle"
    PROVE  Progress(b)'
  <1>1. Progress(b)
    BY DEF IngestInv, ProgressIsDurable
  <1> QED BY <1>1, KeysOfEnvelope DEF Progress, Kept

\* Receipts already signed keep their objects.
LEMMA ReceiptsKept ==
    ASSUME IngestInv, Kept
    PROVE  \A r \in issued :
              /\ r.env \in Envelopes
              /\ blob'[BlobOf[r.env]] = "declared"
              /\ occ'[OccurrenceOf[r.env]] # Absent
              /\ att'[r.env] # Absent
  BY KeysOfEnvelope DEF IngestInv, ReceiptsDurable, Kept

\* The whole store half of a step that signs nothing, and the progress of
\* every attempt but the one that moves.
LEMMA StepFrame ==
    ASSUME IngestInv, NEW a \in Attempts, StoreStep(a), issued' = issued,
           pc' \in [Attempts -> Steps], req' \in [Attempts -> Requests],
           \A b \in Attempts \ {a} :
               (pc'[b] = pc[b] /\ req'[b] = req[b]) \/ pc'[b] = "idle",
           Kept => Progress(a)'
    PROVE  IngestInv'
  <1>1. StoreTypes' /\ Kept /\ OwnAttestation' /\ NoDanglingReference'
    BY StoreStepSafe
  <1>2. ProgressIsDurable'
    BY <1>1, ProgressKept DEF ProgressIsDurable
  <1>3. ReceiptsDurable'
    BY <1>1, ReceiptsKept DEF ReceiptsDurable
  <1>4. Shape'
    BY <1>1 DEF Shape, StoreTypes
  <1> QED BY <1>1, <1>2, <1>3, <1>4 DEF IngestInv

\* Ending attempts leaves them idle and well formed.
LEMMA ResetFrame ==
    ASSUME IngestInv, NEW as, Reset(as)
    PROVE  /\ pc' \in [Attempts -> Steps] /\ req' \in [Attempts -> Requests]
           /\ \A b \in Attempts :
                 (pc'[b] = pc[b] /\ req'[b] = req[b]) \/ pc'[b] = "idle"
           /\ \A b \in Attempts \cap as : pc'[b] = "idle"
  <1>1. NoRequest \in Requests
    BY DEF NoRequest, Requests, Bodies
  <1>2. pc \in [Attempts -> Steps] /\ req \in [Attempts -> Requests]
    BY DEF IngestInv, Shape
  <1>3. /\ pc' = [a \in Attempts |-> IF a \in as THEN "idle" ELSE pc[a]]
        /\ req' = [a \in Attempts |-> IF a \in as THEN NoRequest ELSE req[a]]
    BY DEF Reset
  <1> QED BY <1>1, <1>2, <1>3 DEF Steps

\* An attempt that ends with its store call preserves the invariant.
LEMMA EndedSafe ==
    ASSUME IngestInv, NEW a \in Attempts, StoreStep(a), Ended(a), issued' = issued
    PROVE  IngestInv'
  <1>1. /\ pc' \in [Attempts -> Steps] /\ req' \in [Attempts -> Requests]
        /\ \A b \in Attempts :
              (pc'[b] = pc[b] /\ req'[b] = req[b]) \/ pc'[b] = "idle"
    BY ResetFrame DEF Ended
  <1>2. Kept => Progress(a)'
    BY <1>1, ProgressKept
  <1> QED BY <1>1, <1>2, StepFrame

\* An attempt that moves to its next step preserves the invariant when that
\* step is true of it.
LEMMA MovedSafe ==
    ASSUME IngestInv, NEW a \in Attempts, NEW step \in Steps, StoreStep(a),
           Goto(a, step), req' = req, issued' = issued, Kept => Progress(a)'
    PROVE  IngestInv'
  <1>1. pc \in [Attempts -> Steps] /\ req \in [Attempts -> Requests]
    BY DEF IngestInv, Shape
  <1>2. pc' = [pc EXCEPT ![a] = step]
    BY DEF Goto
  <1>3. pc' \in [Attempts -> Steps] /\ \A b \in Attempts \ {a} : pc'[b] = pc[b]
    BY <1>1, <1>2
  <1> QED BY <1>1, <1>3, StepFrame

-------------------------------------------------------------------------------
(* The invariant is inductive: one lemma per action that moves an attempt. *)

LEMMA ReceiveSafe ==
    ASSUME IngestInv, NEW a \in Attempts, NEW e \in Envelopes, NEW body \in Bodies,
           NEW proof \in BOOLEAN, Receive(a, e, body, proof)
    PROVE  IngestInv'
  <1> DEFINE r == [env |-> e, body |-> body, proof |-> proof]
  <1>1. pc \in [Attempts -> Steps] /\ req \in [Attempts -> Requests]
    BY DEF IngestInv, Shape
  <1>2. r \in Requests /\ r.env = e
    BY DEF Requests
  <1>3. pc' = [pc EXCEPT ![a] = "evidence"] /\ req' = [req EXCEPT ![a] = r]
    BY DEF Receive, Goto
  <1> HIDE DEF r
  <1>4. /\ pc' \in [Attempts -> Steps] /\ req' \in [Attempts -> Requests]
        /\ \A b \in Attempts \ {a} : pc'[b] = pc[b] /\ req'[b] = req[b]
        /\ pc'[a] = "evidence" /\ req'[a].env = e
    BY <1>1, <1>2, <1>3 DEF Steps
  <1>5. Progress(a)'
    BY <1>4 DEF Progress
  <1>6. StoreStep(a) /\ issued' = issued
    BY DEF Receive, StoreStep
  <1> QED BY <1>4, <1>5, <1>6, StepFrame

LEMMA LoadEvidenceSafe ==
    ASSUME IngestInv, NEW a \in Attempts, LoadEvidence(a)
    PROVE  IngestInv'
  <1>1. pc[a] = "evidence" /\ Progress(a) /\ pc \in [Attempts -> Steps]
    BY DEF LoadEvidence, IngestInv, ProgressIsDurable, Shape
  <1>2. pc' = [pc EXCEPT ![a] = "stream"] /\ req' = req
    BY DEF LoadEvidence, Goto
  <1>3. Progress(a)'
    BY <1>1, <1>2 DEF Progress
  <1>4. StoreStep(a) /\ issued' = issued /\ Goto(a, "stream") /\ "stream" \in Steps
    BY DEF LoadEvidence, StoreStep, Steps
  <1> QED BY <1>2, <1>3, <1>4, MovedSafe

LEMMA StreamSafe ==
    ASSUME IngestInv, NEW a \in Attempts, Stream(a)
    PROVE  IngestInv'
  <1>1. pc[a] = "stream" /\ Progress(a) /\ pc \in [Attempts -> Steps]
    BY DEF Stream, IngestInv, ProgressIsDurable, Shape
  <1>2. StoreStep(a) /\ issued' = issued
    BY DEF Stream, StoreStep
  <1>3. CASE DrainVerdict(req[a]) = "verified"
    <2>1. pc' = [pc EXCEPT ![a] = "complete"] /\ req' = req /\ Goto(a, "complete")
      BY <1>3 DEF Stream, Goto
    <2>2. req[a].body = "declared"
      <3>1. req[a].body \in Bodies
        BY DEF IngestInv, Shape, Requests
      <3> QED BY <1>3, <3>1 DEF DrainVerdict, Bodies
    <2>3. Progress(a)'
      BY <1>1, <2>1, <2>2 DEF Progress
    <2>4. "complete" \in Steps
      BY DEF Steps
    <2> QED BY <1>2, <2>1, <2>3, <2>4, MovedSafe
  <1>4. CASE DrainVerdict(req[a]) # "verified"
    <2>1. Ended(a)
      BY <1>4 DEF Stream
    <2> QED BY <1>2, <2>1, EndedSafe
  <1> QED BY <1>3, <1>4

LEMMA CommitBlobSafe ==
    ASSUME IngestInv, NEW a \in Attempts, CommitBlob(a)
    PROVE  IngestInv'
  <1>1. pc[a] = "complete" /\ Progress(a) /\ pc \in [Attempts -> Steps] /\ StoreTypes
    BY DEF CommitBlob, IngestInv, ProgressIsDurable, Shape, StoreTypes
  <1>2. pc' = [pc EXCEPT ![a] = "occurrence"] /\ req' = req
    BY DEF CommitBlob, Goto
  <1>3. req[a].env \in Envelopes /\ req[a].body = "declared"
    BY <1>1 DEF Progress
  <1>4. blob'[BlobOf[req[a].env]] = "declared"
    BY <1>1, <1>3, KeysOfEnvelope DEF CommitBlob, WriteBlob, StoreTypes
  <1>5. Progress(a)'
    BY <1>1, <1>2, <1>3, <1>4 DEF Progress
  <1>6. StoreStep(a) /\ issued' = issued /\ Goto(a, "occurrence") /\ "occurrence" \in Steps
    BY <1>1 DEF CommitBlob, StoreStep, Steps
  <1> QED BY <1>2, <1>5, <1>6, MovedSafe

LEMMA CommitOccurrenceSafe ==
    ASSUME IngestInv, NEW a \in Attempts, NEW evidence \in Evidence,
           CommitOccurrence(a, evidence)
    PROVE  IngestInv'
  <1>1. pc[a] = "occurrence" /\ Progress(a) /\ pc \in [Attempts -> Steps] /\ StoreTypes
    BY DEF CommitOccurrence, IngestInv, ProgressIsDurable, Shape, StoreTypes
  <1>2. StoreStep(a) /\ issued' = issued
    BY <1>1 DEF CommitOccurrence, StoreStep
  <1>3. CASE OccurrenceResult(a, evidence).outcome = "conflict"
    <2>1. Ended(a)
      BY <1>3 DEF CommitOccurrence
    <2> QED BY <1>2, <2>1, EndedSafe
  <1>4. CASE OccurrenceResult(a, evidence).outcome # "conflict"
    <2>1. pc' = [pc EXCEPT ![a] = "attestation"] /\ req' = req /\ Goto(a, "attestation")
      BY <1>4 DEF CommitOccurrence, Goto
    <2>2. req[a].env \in Envelopes
      BY <1>1 DEF Progress
    <2>3. OccurrenceResult(a, evidence).stored # Absent
      BY <2>2, KeysOfEnvelope, CommitLeavesSomething DEF OccurrenceResult
    <2>4. occ'[OccurrenceOf[req[a].env]] # Absent
      BY <1>1, <2>2, <2>3, KeysOfEnvelope DEF CommitOccurrence, WriteOccurrence, StoreTypes
    <2>5. blob' = blob
      BY DEF CommitOccurrence
    <2>6. Progress(a)'
      BY <1>1, <2>1, <2>4, <2>5 DEF Progress
    <2>7. "attestation" \in Steps
      BY DEF Steps
    <2> QED BY <1>2, <2>1, <2>6, <2>7, MovedSafe
  <1> QED BY <1>3, <1>4

LEMMA CommitAttestationSafe ==
    ASSUME IngestInv, NEW a \in Attempts, NEW evidence \in Evidence,
           CommitAttestation(a, evidence)
    PROVE  IngestInv'
  <1>1. pc[a] = "attestation" /\ Progress(a) /\ pc \in [Attempts -> Steps] /\ StoreTypes
    BY DEF CommitAttestation, IngestInv, ProgressIsDurable, Shape, StoreTypes
  <1>2. StoreStep(a) /\ issued' = issued
    BY <1>1 DEF CommitAttestation, StoreStep
  <1>3. CASE AttestationResult(a, evidence).outcome = "conflict"
    <2>1. Ended(a)
      BY <1>3 DEF CommitAttestation
    <2> QED BY <1>2, <2>1, EndedSafe
  <1>4. CASE AttestationResult(a, evidence).outcome # "conflict"
    <2>1. pc' = [pc EXCEPT ![a] = "receipt"] /\ req' = req /\ Goto(a, "receipt")
      BY <1>4 DEF CommitAttestation, Goto
    <2>2. req[a].env \in Envelopes
      BY <1>1 DEF Progress
    <2>3. AttestationResult(a, evidence).stored # Absent
      BY <2>2, KeysOfEnvelope, CommitLeavesSomething DEF AttestationResult
    <2>4. att'[req[a].env] # Absent
      BY <1>1, <2>2, <2>3 DEF CommitAttestation, WriteAttestation, StoreTypes
    <2>5. blob' = blob /\ occ' = occ
      BY DEF CommitAttestation
    <2>6. Progress(a)'
      BY <1>1, <2>1, <2>4, <2>5 DEF Progress
    <2>7. "receipt" \in Steps
      BY DEF Steps
    <2> QED BY <1>2, <2>1, <2>6, <2>7, MovedSafe
  <1> QED BY <1>3, <1>4

\* The one action that signs: what the attempt's progress says is exactly
\* what the receipt will mean.
LEMMA IssueReceiptSafe ==
    ASSUME IngestInv, NEW a \in Attempts, IssueReceipt(a)
    PROVE  IngestInv'
  <1>1. pc[a] = "receipt" /\ Progress(a) /\ ReceiptsDurable
    BY DEF IssueReceipt, IngestInv, ProgressIsDurable
  <1>2. UNCHANGED <<blob, occ, att>> /\ Ended(a)
    BY DEF IssueReceipt
  <1>3. StoreStep(a)
    BY <1>2 DEF StoreStep
  <1>4. StoreTypes' /\ Kept /\ OwnAttestation' /\ NoDanglingReference'
    BY <1>3, StoreStepSafe
  <1>5. /\ pc' \in [Attempts -> Steps] /\ req' \in [Attempts -> Requests]
        /\ \A b \in Attempts :
              (pc'[b] = pc[b] /\ req'[b] = req[b]) \/ pc'[b] = "idle"
    BY <1>2, ResetFrame DEF Ended
  <1>6. ProgressIsDurable'
    BY <1>4, <1>5, ProgressKept DEF ProgressIsDurable
  <1>7. \A r \in issued' : r \in issued \/ r.env = req[a].env
    BY DEF IssueReceipt
  <1>8. ReceiptsDurable'
    BY <1>1, <1>2, <1>7 DEF ReceiptsDurable, Progress
  <1>9. Shape'
    BY <1>4, <1>5 DEF Shape, StoreTypes
  <1> QED BY <1>4, <1>6, <1>8, <1>9 DEF IngestInv

LEMMA CrashSafe ==
    ASSUME IngestInv, NEW r \in Replicas, Crash(r)
    PROVE  IngestInv'
  <1>1. PICK a \in Attempts : ReplicaOf[a] = r /\ pc[a] # "idle"
    BY DEF Crash
  <1>2. StoreStep(a) /\ issued' = issued
    BY DEF Crash, StoreStep
  <1>3. /\ pc' \in [Attempts -> Steps] /\ req' \in [Attempts -> Requests]
        /\ \A b \in Attempts :
              (pc'[b] = pc[b] /\ req'[b] = req[b]) \/ pc'[b] = "idle"
    BY ResetFrame DEF Crash
  <1>4. Kept => Progress(a)'
    BY <1>3, ProgressKept
  <1> QED BY <1>2, <1>3, <1>4, StepFrame

LEMMA DeadlineSafe ==
    ASSUME IngestInv, NEW a \in Attempts, Deadline(a)
    PROVE  IngestInv'
  <1>1. StoreStep(a) /\ issued' = issued
    BY DEF Deadline, StoreStep
  <1>2. CASE pc[a] = "evidence"
    <2>1. Ended(a)
      BY <1>2 DEF Deadline
    <2> QED BY <1>1, <2>1, EndedSafe
  <1>3. CASE pc[a] # "evidence"
    <2>1. pc' = pc /\ req' = req
      BY <1>3 DEF Deadline
    <2>2. pc' \in [Attempts -> Steps] /\ req' \in [Attempts -> Requests]
      BY <2>1 DEF IngestInv, Shape
    <2>3. Kept => Progress(a)'
      BY <2>1, ProgressKept
    <2> QED BY <1>1, <2>1, <2>2, <2>3, StepFrame
  <1> QED BY <1>2, <1>3

LEMMA FailureSafe ==
    ASSUME IngestInv, NEW a \in Attempts,
           CallFails(a) \/ \E evidence \in Evidence : AnswerLost(a, evidence)
    PROVE  IngestInv'
  <1>1. CASE CallFails(a)
    <2>1. StoreStep(a) /\ issued' = issued /\ Ended(a)
      BY <1>1 DEF CallFails, StoreStep
    <2> QED BY <2>1, EndedSafe
  <1>2. CASE \E evidence \in Evidence : AnswerLost(a, evidence)
    <2>1. StoreStep(a) /\ issued' = issued /\ Ended(a)
      BY <1>2 DEF AnswerLost, StoreStep
    <2> QED BY <2>1, EndedSafe
  <1> QED BY <1>1, <1>2

LEMMA IngestInitSafe == IngestInit => IngestInv
  <1> SUFFICES ASSUME IngestInit PROVE IngestInv
    OBVIOUS
  <1>1. NoRequest \in Requests /\ "idle" \in Steps
    BY DEF NoRequest, Requests, Bodies, Steps
  <1>2. Shape
    BY <1>1 DEF IngestInit, Shape
  <1>3. ProgressIsDurable
    BY DEF IngestInit, ProgressIsDurable, Progress
  <1>4. ReceiptsDurable
    BY DEF IngestInit, ReceiptsDurable
  <1>5. OwnAttestation
    BY DEF IngestInit, OwnAttestation
  <1>6. NoDanglingReference
    BY KeysOfEnvelope DEF IngestInit, NoDanglingReference
  <1> QED BY <1>2, <1>3, <1>4, <1>5, <1>6 DEF IngestInv

LEMMA IngestInvStutters ==
    ASSUME IngestInv, UNCHANGED vars
    PROVE  IngestInv'
  BY DEF IngestInv, vars, Shape, ProgressIsDurable, Progress, ReceiptsDurable,
         OwnAttestation, NoDanglingReference

LEMMA IngestInvInductive == IngestInv /\ [Next]_vars => IngestInv'
  <1> SUFFICES ASSUME IngestInv, [Next]_vars PROVE IngestInv'
    OBVIOUS
  <1>1. CASE UNCHANGED vars
    BY <1>1, IngestInvStutters
  <1>2. CASE \E r \in Replicas : Crash(r)
    BY <1>2, CrashSafe
  <1>3. ASSUME NEW a \in Attempts, NEW e \in Envelopes, NEW body \in Bodies,
               NEW proof \in BOOLEAN, Receive(a, e, body, proof)
        PROVE  IngestInv'
    BY <1>3, ReceiveSafe
  <1>4. ASSUME NEW a \in Attempts, Advance(a)
        PROVE  IngestInv'
    <2>1. CASE LoadEvidence(a)
      BY <2>1, LoadEvidenceSafe
    <2>2. CASE Stream(a)
      BY <2>2, StreamSafe
    <2>3. CASE CommitBlob(a)
      BY <2>3, CommitBlobSafe
    <2>4. CASE \E evidence \in Evidence : CommitOccurrence(a, evidence)
      BY <2>4, CommitOccurrenceSafe
    <2>5. CASE \E evidence \in Evidence : CommitAttestation(a, evidence)
      BY <2>5, CommitAttestationSafe
    <2>6. CASE IssueReceipt(a)
      BY <2>6, IssueReceiptSafe
    <2> QED BY <1>4, <2>1, <2>2, <2>3, <2>4, <2>5, <2>6 DEF Advance
  <1>5. ASSUME NEW a \in Attempts,
               CallFails(a) \/ \E evidence \in Evidence : AnswerLost(a, evidence)
        PROVE  IngestInv'
    BY <1>5, FailureSafe
  <1>6. ASSUME NEW a \in Attempts, Deadline(a)
        PROVE  IngestInv'
    BY <1>6, DeadlineSafe
  <1> QED BY <1>1, <1>2, <1>3, <1>4, <1>5, <1>6 DEF Next

LEMMA IngestInvHolds == Spec => []IngestInv
  BY IngestInitSafe, IngestInvInductive, PTL DEF Spec

\* No reader of the archive finds an attestation without its occurrence or
\* an occurrence without its blob, whatever the store profile and however
\* many attempts, failures and crashes (commit_sequence's write order).
THEOREM ReferencesNeverDangle == Spec => []NoDanglingReference
  <1>1. IngestInv => NoDanglingReference
    BY DEF IngestInv
  <1> QED BY <1>1, IngestInvHolds, PTL

\* A receipt the server signs stands for three durable objects, for good
\* (land_tail_and_receipt, RCPT-001).
THEOREM ReceiptsMeanDurable == Spec => []ReceiptMeansDurable
  <1>1. IngestInv => ReceiptMeansDurable
    BY DEF IngestInv, ReceiptsDurable, OwnAttestation, ReceiptMeansDurable
  <1> QED BY <1>1, IngestInvHolds, PTL

-------------------------------------------------------------------------------
(* Manifests are written once where the store offers conditional create,   *)
(* and what a receipt claims of its occurrence is the truth.               *)

WriteOnceStep ==
    /\ \A k \in Occurrences : occ[k] # Absent => occ'[k] = occ[k]
    /\ \A e \in Envelopes : att[e] # Absent => att'[e] = att[e]

LEMMA ConditionalCreateKeeps ==
    ASSUME ConditionalCreate, NEW stored, NEW doc, NEW evidence, stored # Absent
    PROVE  commit_manifest(stored, doc, evidence).stored = stored
  BY DEF commit_manifest, commit_by_conditional_create

LEMMA StoreStepWritesOnce ==
    ASSUME IngestInv, ConditionalCreate, NEW a \in Attempts, StoreStep(a)
    PROVE  WriteOnceStep
  <1>0. StoreTypes
    BY DEF IngestInv, Shape, StoreTypes
  <1>1. CASE UNCHANGED <<occ, att>>
    BY <1>1 DEF WriteOnceStep
  <1>2. ASSUME NEW evidence \in Evidence, WriteOccurrence(a, evidence), att' = att
        PROVE  WriteOnceStep
    <2> DEFINE k == OccurrenceOf[req[a].env]
    <2>1. occ' = [occ EXCEPT ![k] = OccurrenceResult(a, evidence).stored]
      BY <1>2 DEF WriteOccurrence
    <2>2. occ[k] # Absent => OccurrenceResult(a, evidence).stored = occ[k]
      BY ConditionalCreateKeeps DEF OccurrenceResult
    <2> HIDE DEF k
    <2>3. \A j \in Occurrences : occ[j] # Absent => occ'[j] = occ[j]
      BY <1>0, <2>1, <2>2 DEF StoreTypes
    <2> QED BY <1>2, <2>3 DEF WriteOnceStep
  <1>3. ASSUME NEW evidence \in Evidence, WriteAttestation(a, evidence), occ' = occ
        PROVE  WriteOnceStep
    <2> DEFINE e == req[a].env
    <2>1. att' = [att EXCEPT ![e] = AttestationResult(a, evidence).stored]
      BY <1>3 DEF WriteAttestation
    <2>2. att[e] # Absent => AttestationResult(a, evidence).stored = att[e]
      BY ConditionalCreateKeeps DEF AttestationResult
    <2> HIDE DEF e
    <2>3. \A f \in Envelopes : att[f] # Absent => att'[f] = att[f]
      BY <1>0, <2>1, <2>2 DEF StoreTypes
    <2> QED BY <1>3, <2>3 DEF WriteOnceStep
  <1> QED BY <1>1, <1>2, <1>3 DEF StoreStep

\* Every step of the specification is one attempt's store step.
LEMMA EveryStepIsStoreStep ==
    ASSUME [Next]_vars
    PROVE  UNCHANGED <<blob, occ, att>> \/ \E a \in Attempts : StoreStep(a)
  <1>1. CASE UNCHANGED vars
    BY <1>1 DEF vars
  <1>2. CASE \E r \in Replicas : Crash(r)
    BY <1>2 DEF Crash
  <1>3. ASSUME NEW a \in Attempts, NEW e \in Envelopes, NEW body \in Bodies,
               NEW proof \in BOOLEAN, Receive(a, e, body, proof)
        PROVE  UNCHANGED <<blob, occ, att>>
    BY <1>3 DEF Receive
  <1>4. ASSUME NEW a \in Attempts, Advance(a)
        PROVE  UNCHANGED <<blob, occ, att>> \/ StoreStep(a)
    BY <1>4 DEF Advance, LoadEvidence, Stream, CommitBlob, CommitOccurrence,
                CommitAttestation, IssueReceipt, StoreStep
  <1>5. ASSUME NEW a \in Attempts,
               CallFails(a) \/ Deadline(a) \/ \E evidence \in Evidence : AnswerLost(a, evidence)
        PROVE  UNCHANGED <<blob, occ, att>> \/ StoreStep(a)
    BY <1>5 DEF CallFails, Deadline, AnswerLost, StoreStep
  <1> QED BY <1>1, <1>2, <1>3, <1>4, <1>5 DEF Next

\* With conditional create no attempt, however it races, fails or retries,
\* replaces a manifest (commit_by_conditional_create).  The overwrite profile
\* has no such theorem: commit_by_deterministic_overwrite replaces what stands.
THEOREM ManifestsAreWrittenOnce ==
    ASSUME ConditionalCreate = TRUE
    PROVE  Spec => ManifestsWriteOnce
  <1>1. IngestInv /\ [Next]_vars => WriteOnceStep
    <2> SUFFICES ASSUME IngestInv, [Next]_vars PROVE WriteOnceStep
      OBVIOUS
    <2>1. CASE UNCHANGED <<blob, occ, att>>
      BY <2>1 DEF WriteOnceStep
    <2>2. CASE \E a \in Attempts : StoreStep(a)
      BY <2>2, StoreStepWritesOnce
    <2> QED BY <2>1, <2>2, EveryStepIsStoreStep
  <1>2. IngestInv /\ [Next]_vars =>
          [/\ \A k \in Occurrences : occ[k] # Absent => occ'[k] = occ[k]
           /\ \A e \in Envelopes : att[e] # Absent => att'[e] = att[e]]_vars
    BY <1>1 DEF WriteOnceStep
  <1> QED BY <1>2, IngestInvHolds, PTL DEF Spec, ManifestsWriteOnce

-------------------------------------------------------------------------------
(* Types and outcomes.  A claim of created or already present is only made *)
(* where the store conditionally creates, and there the claimed document   *)
(* stays; a running attempt must carry its claim truthfully to the receipt.*)

Claim(outcome, e) ==
    /\ outcome \in Outcomes
    /\ outcome \in {"created", "already_present"} =>
          ConditionalCreate /\ occ[OccurrenceOf[e]] = DocumentOf[e]

OutcomeCarried(a) ==
    pc[a] \in {"attestation", "receipt"} => Claim(out[a], req[a].env)

Rest ==
    /\ out \in [Attempts -> Outcomes \cup {"none"}]
    /\ waiting \subseteq Attempts
    /\ presented \subseteq Envelopes
    /\ issued \subseteq ReceiptRecords
    /\ received \subseteq Envelopes
    /\ faults \in 0..MaxFaults

OutcomeInv ==
    /\ Rest
    /\ \A a \in Attempts : OutcomeCarried(a)
    /\ \A r \in issued : Claim(r.occ, r.env)

\* A claim once true stays true.
LEMMA ClaimKept ==
    ASSUME IngestInv, NEW e \in Envelopes, NEW outcome, Claim(outcome, e), [Next]_vars
    PROVE  Claim(outcome, e)'
  <1>1. CASE ~ConditionalCreate
    BY <1>1 DEF Claim
  <1>2. CASE ConditionalCreate
    <2>1. WriteOnceStep
      <3>1. CASE UNCHANGED <<occ, att>>
        BY <3>1 DEF WriteOnceStep
      <3>2. CASE \E a \in Attempts : StoreStep(a)
        BY <1>2, <3>2, StoreStepWritesOnce
      <3> QED BY <3>1, <3>2, EveryStepIsStoreStep
    <2> QED BY <2>1, KeysOfEnvelope DEF Claim, WriteOnceStep
  <1> QED BY <1>1, <1>2

\* What the commit layer reports of an object it leaves standing.
LEMMA ResultHonest ==
    ASSUME NEW stored, NEW doc, NEW evidence,
           commit_manifest(stored, doc, evidence).outcome # "conflict"
    PROVE  /\ commit_manifest(stored, doc, evidence).outcome \in Outcomes
           /\ commit_manifest(stored, doc, evidence).outcome \in {"created", "already_present"}
                => ConditionalCreate /\ commit_manifest(stored, doc, evidence).stored = doc
  BY DEF commit_manifest, commit_by_conditional_create, commit_by_deterministic_overwrite,
         classify_existing, Outcomes

\* An attempt that stands still, or ends, carries what it carried.
LEMMA CarriedKept ==
    ASSUME IngestInv, OutcomeInv, [Next]_vars, NEW b \in Attempts,
           \/ pc'[b] = pc[b] /\ req'[b] = req[b] /\ out'[b] = out[b]
           \/ pc'[b] \in {"idle", "evidence", "stream", "complete", "occurrence"}
           \/ pc[b] = "attestation" /\ req'[b] = req[b] /\ out'[b] = out[b]
    PROVE  OutcomeCarried(b)'
  <1>1. CASE pc'[b] \in {"idle", "evidence", "stream", "complete", "occurrence"}
    BY <1>1 DEF OutcomeCarried
  <1>2. CASE pc[b] \in {"attestation", "receipt"} /\ req'[b] = req[b] /\ out'[b] = out[b]
    <2>1. req[b].env \in Envelopes
      BY <1>2 DEF IngestInv, ProgressIsDurable, Progress
    <2>2. Claim(out[b], req[b].env)
      BY <1>2 DEF OutcomeInv, OutcomeCarried
    <2>3. Claim(out[b], req[b].env)'
      BY <1>2, <2>1, <2>2, ClaimKept DEF Claim
    <2> QED BY <2>3 DEF OutcomeCarried
  <1> QED BY <1>1, <1>2 DEF OutcomeCarried

\* Receipts already signed keep their claims.
LEMMA ClaimsKept ==
    ASSUME IngestInv, OutcomeInv, [Next]_vars
    PROVE  \A r \in issued : Claim(r.occ, r.env)'
  <1> SUFFICES ASSUME NEW r \in issued PROVE Claim(r.occ, r.env)'
    OBVIOUS
  <1>1. r.env \in Envelopes /\ Claim(r.occ, r.env)
    BY DEF IngestInv, ReceiptsDurable, OutcomeInv
  <1> QED BY <1>1, ClaimKept

\* The types a step that ends attempts leaves behind.
LEMMA ResetRest ==
    ASSUME OutcomeInv, NEW as, Reset(as)
    PROVE  /\ out' \in [Attempts -> Outcomes \cup {"none"}]
           /\ waiting' \subseteq Attempts
           /\ \A b \in Attempts :
                 \/ pc'[b] = pc[b] /\ req'[b] = req[b] /\ out'[b] = out[b]
                 \/ pc'[b] = "idle"
  <1>1. out \in [Attempts -> Outcomes \cup {"none"}] /\ waiting \subseteq Attempts
    BY DEF OutcomeInv, Rest
  <1> QED BY <1>1 DEF Reset

\* A step that signs nothing and leaves every attempt still, ended or short
\* of its occurrence preserves the outcomes.
LEMMA QuietStep ==
    ASSUME IngestInv, OutcomeInv, [Next]_vars, Rest', issued' = issued,
           \A b \in Attempts :
               \/ pc'[b] = pc[b] /\ req'[b] = req[b] /\ out'[b] = out[b]
               \/ pc'[b] \in {"idle", "evidence", "stream", "complete", "occurrence"}
               \/ pc[b] = "attestation" /\ req'[b] = req[b] /\ out'[b] = out[b]
    PROVE  OutcomeInv'
  <1>1. \A b \in Attempts : OutcomeCarried(b)'
    BY CarriedKept
  <1>2. \A r \in issued' : Claim(r.occ, r.env)'
    BY ClaimsKept
  <1> QED BY <1>1, <1>2 DEF OutcomeInv

LEMMA EndedOutcome ==
    ASSUME IngestInv, OutcomeInv, [Next]_vars, NEW as, Reset(as),
           UNCHANGED <<presented, issued, received>>, faults' \in 0..MaxFaults
    PROVE  OutcomeInv'
  <1>1. Rest'
    BY ResetRest DEF OutcomeInv, Rest
  <1> QED BY <1>1, ResetRest, QuietStep

LEMMA FaultCounts ==
    ASSUME OutcomeInv, Fault
    PROVE  faults' \in 0..MaxFaults
  BY IngestAssumption DEF OutcomeInv, Rest, Fault

LEMMA AdvanceOutcome ==
    ASSUME IngestInv, OutcomeInv, [Next]_vars, NEW a \in Attempts, Advance(a)
    PROVE  OutcomeInv'
  <1>0. /\ pc \in [Attempts -> Steps] /\ req \in [Attempts -> Requests] /\ Rest
        /\ faults \in 0..MaxFaults
    BY DEF IngestInv, Shape, OutcomeInv, Rest
  <1>1. CASE LoadEvidence(a) \/ CommitBlob(a)
    <2>1. Rest' /\ issued' = issued
      BY <1>0, <1>1 DEF LoadEvidence, CommitBlob, Rest
    <2>2. \A b \in Attempts :
            \/ pc'[b] = pc[b] /\ req'[b] = req[b] /\ out'[b] = out[b]
            \/ pc'[b] \in {"stream", "occurrence"}
      BY <1>0, <1>1 DEF LoadEvidence, CommitBlob, Goto
    <2> QED BY <2>1, <2>2, QuietStep
  <1>2. CASE Stream(a)
    <2>1. CASE Ended(a)
      BY <1>0, <1>2, <2>1, EndedOutcome DEF Stream, Ended
    <2>2. CASE Goto(a, "complete") /\ UNCHANGED <<req, out, waiting>>
      <3>1. Rest' /\ issued' = issued
        BY <1>0, <1>2, <2>2 DEF Stream, Rest
      <3>2. \A b \in Attempts :
              \/ pc'[b] = pc[b] /\ req'[b] = req[b] /\ out'[b] = out[b]
              \/ pc'[b] = "complete"
        BY <1>0, <2>2 DEF Goto
      <3> QED BY <3>1, <3>2, QuietStep
    <2> QED BY <1>2, <2>1, <2>2 DEF Stream
  <1>3. ASSUME NEW evidence \in Evidence, CommitOccurrence(a, evidence)
        PROVE  OutcomeInv'
    <2>1. CASE Ended(a)
      BY <1>0, <1>3, <2>1, EndedOutcome DEF CommitOccurrence, Ended
    <2>2. CASE /\ OccurrenceResult(a, evidence).outcome # "conflict"
               /\ Goto(a, "attestation")
               /\ out' = [out EXCEPT ![a] = OccurrenceResult(a, evidence).outcome]
               /\ UNCHANGED <<req, waiting>>
      <3> DEFINE e == req[a].env
                 result == OccurrenceResult(a, evidence)
      <3>1. e \in Envelopes
        BY <1>3 DEF IngestInv, ProgressIsDurable, Progress, CommitOccurrence
      <3>2. /\ result.outcome \in Outcomes
            /\ result.outcome \in {"created", "already_present"} =>
                  ConditionalCreate /\ result.stored = DocumentOf[e]
        BY <2>2, ResultHonest DEF OccurrenceResult
      <3>3. occ'[OccurrenceOf[e]] = result.stored
        BY <1>3, <3>1, KeysOfEnvelope DEF CommitOccurrence, WriteOccurrence, IngestInv, Shape
      <3> HIDE DEF result
      <3>4. /\ out' = [out EXCEPT ![a] = result.outcome]
            /\ out \in [Attempts -> Outcomes \cup {"none"}]
        BY <1>0, <2>2 DEF Rest, result
      <3>5. out'[a] = result.outcome /\ out' \in [Attempts -> Outcomes \cup {"none"}]
        BY <3>2, <3>4
      <3>6. Rest' /\ issued' = issued
        BY <1>0, <1>3, <2>2, <3>5 DEF CommitOccurrence, Rest
      <3>7. OutcomeCarried(a)'
        BY <2>2, <3>2, <3>3, <3>5 DEF OutcomeCarried, Claim
      <3>8. \A b \in Attempts \ {a} : pc'[b] = pc[b] /\ req'[b] = req[b] /\ out'[b] = out[b]
        BY <1>0, <2>2, <3>4 DEF Goto
      <3>9. \A b \in Attempts : OutcomeCarried(b)'
        BY <3>7, <3>8, CarriedKept
      <3>10. \A r \in issued' : Claim(r.occ, r.env)'
        BY <3>6, ClaimsKept
      <3> QED BY <3>6, <3>9, <3>10 DEF OutcomeInv
    <2> QED BY <1>3, <2>1, <2>2 DEF CommitOccurrence
  <1>4. ASSUME NEW evidence \in Evidence, CommitAttestation(a, evidence)
        PROVE  OutcomeInv'
    <2>1. CASE Ended(a)
      BY <1>0, <1>4, <2>1, EndedOutcome DEF CommitAttestation, Ended
    <2>2. CASE Goto(a, "receipt") /\ UNCHANGED <<req, out, waiting>>
      <3>1. Rest' /\ issued' = issued /\ pc[a] = "attestation"
        BY <1>0, <1>4, <2>2 DEF CommitAttestation, Rest
      <3>2. \A b \in Attempts :
              \/ pc'[b] = pc[b] /\ req'[b] = req[b] /\ out'[b] = out[b]
              \/ pc[b] = "attestation" /\ req'[b] = req[b] /\ out'[b] = out[b]
        BY <1>0, <2>2, <3>1 DEF Goto
      <3> QED BY <3>1, <3>2, QuietStep
    <2> QED BY <1>4, <2>1, <2>2 DEF CommitAttestation
  <1>5. CASE IssueReceipt(a)
    <2> DEFINE e == req[a].env
               new == [env |-> e, occ |-> out[a]]
    <2>1. e \in Envelopes /\ Claim(out[a], e)
      BY <1>5 DEF IssueReceipt, IngestInv, ProgressIsDurable, Progress, OutcomeInv, OutcomeCarried
    <2>2. new \in ReceiptRecords /\ new.env = e /\ new.occ = out[a]
      BY <2>1 DEF ReceiptRecords, Claim
    <2>3. occ' = occ /\ presented' = presented /\ faults' = faults /\ Reset({a})
      BY <1>5 DEF IssueReceipt, Ended
    <2>4. \A r \in issued' : r \in issued \/ r = new
      BY <1>5 DEF IssueReceipt
    <2> HIDE DEF new
    <2>5. \A r \in issued' : Claim(r.occ, r.env)'
      <3> SUFFICES ASSUME NEW r \in issued' PROVE Claim(r.occ, r.env)'
        OBVIOUS
      <3>1. CASE r \in issued
        BY <3>1, ClaimsKept
      <3>2. CASE r = new
        BY <2>1, <2>2, <2>3, <3>2 DEF Claim
      <3> QED BY <2>4, <3>1, <3>2
    <2>6. issued' \subseteq ReceiptRecords
      BY <1>0, <2>2, <2>4 DEF Rest
    <2>7. received' \subseteq Envelopes
      BY <1>0, <1>5, <2>1 DEF IssueReceipt, Rest
    <2>8. Rest'
      BY <1>0, <2>3, <2>6, <2>7, ResetRest DEF Rest
    <2>9. \A b \in Attempts : OutcomeCarried(b)'
      BY <2>3, ResetRest, CarriedKept
    <2> QED BY <2>5, <2>8, <2>9 DEF OutcomeInv
  <1> QED BY <1>1, <1>2, <1>3, <1>4, <1>5 DEF Advance

LEMMA OutcomeInvInductive == IngestInv /\ OutcomeInv /\ [Next]_vars => OutcomeInv'
  <1> SUFFICES ASSUME IngestInv, OutcomeInv, [Next]_vars PROVE OutcomeInv'
    OBVIOUS
  <1>0. pc \in [Attempts -> Steps] /\ req \in [Attempts -> Requests] /\ Rest
    BY DEF IngestInv, Shape, OutcomeInv
  <1>1. CASE UNCHANGED vars
    BY <1>0, <1>1, QuietStep DEF vars, Rest
  <1>2. ASSUME NEW r \in Replicas, Crash(r)
        PROVE  OutcomeInv'
    BY <1>2, FaultCounts, EndedOutcome DEF Crash
  <1>3. ASSUME NEW a \in Attempts, NEW e \in Envelopes, NEW body \in Bodies,
               NEW proof \in BOOLEAN, Receive(a, e, body, proof)
        PROVE  OutcomeInv'
    <2>1. Rest' /\ issued' = issued
      BY <1>0, <1>3 DEF Receive, Rest
    <2>2. \A b \in Attempts :
            \/ pc'[b] = pc[b] /\ req'[b] = req[b] /\ out'[b] = out[b]
            \/ pc'[b] = "evidence"
      BY <1>0, <1>3 DEF Receive, Goto
    <2> QED BY <2>1, <2>2, QuietStep
  <1>4. ASSUME NEW a \in Attempts, Advance(a)
        PROVE  OutcomeInv'
    BY <1>4, AdvanceOutcome
  <1>5. ASSUME NEW a \in Attempts,
               CallFails(a) \/ \E evidence \in Evidence : AnswerLost(a, evidence)
        PROVE  OutcomeInv'
    BY <1>5, FaultCounts, EndedOutcome DEF CallFails, AnswerLost, Ended
  <1>6. ASSUME NEW a \in Attempts, Deadline(a)
        PROVE  OutcomeInv'
    <2>1. faults' \in 0..MaxFaults /\ UNCHANGED <<presented, issued, received>>
      BY <1>6, FaultCounts DEF Deadline
    <2>2. CASE Ended(a)
      BY <2>1, <2>2, EndedOutcome DEF Ended
    <2>3. CASE waiting' = waiting \ {a} /\ UNCHANGED <<pc, req, out>>
      <3>1. Rest'
        BY <1>0, <2>1, <2>3 DEF Rest
      <3> QED BY <2>1, <2>3, <3>1, QuietStep
    <2> QED BY <1>6, <2>2, <2>3 DEF Deadline
  <1> QED BY <1>1, <1>2, <1>3, <1>4, <1>5, <1>6 DEF Next

LEMMA OutcomeInvHolds == Spec => []OutcomeInv
  <1>1. IngestInit => OutcomeInv
    <2> SUFFICES ASSUME IngestInit PROVE OutcomeInv
      OBVIOUS
    <2>1. Rest
      BY IngestAssumption DEF IngestInit, Rest
    <2>2. \A a \in Attempts : OutcomeCarried(a)
      BY DEF IngestInit, OutcomeCarried
    <2>3. \A r \in issued : Claim(r.occ, r.env)
      BY DEF IngestInit
    <2> QED BY <2>1, <2>2, <2>3 DEF OutcomeInv
  <1> QED BY <1>1, OutcomeInvInductive, IngestInvHolds, PTL DEF Spec

\* Type correctness of the ingest commit.
THEOREM IngestTypeCorrect == Spec => []IngestTypeOK
  <1>1. IngestInv /\ OutcomeInv => IngestTypeOK
    BY DEF IngestInv, Shape, OutcomeInv, Rest, IngestTypeOK
  <1> QED BY <1>1, IngestInvHolds, OutcomeInvHolds, PTL

\* A receipt never claims more of its occurrence than the store proved: a
\* claim of created or already present names the document that stands
\* (commit_by_conditional_create, RCPT-003, RCPT-004).
THEOREM ReceiptsAreHonest == Spec => []OutcomesAreHonest
  <1>1. OutcomeInv => OutcomesAreHonest
    BY DEF OutcomeInv, Claim, OutcomesAreHonest
  <1> QED BY <1>1, OutcomeInvHolds, PTL

-------------------------------------------------------------------------------
(* Nothing unverified is stored.  A request that carries its declared      *)
(* bytes and a valid signature was presented so, and no attempt gets past  *)
(* its stream without both.                                                *)

Vouched(a) ==
    /\ pc[a] # "idle" /\ req[a].body = "declared" /\ req[a].proof =>
          req[a].env \in presented
    /\ pc[a] \in {"complete", "occurrence", "attestation", "receipt"} =>
          req[a].body = "declared" /\ req[a].proof

VerifiedInv == (\A a \in Attempts : Vouched(a)) /\ NothingUnverifiedStored

\* An attempt that stands still, ends, or moves on behind the gate is
\* vouched for as before.
LEMMA VouchedKept ==
    ASSUME NEW b \in Attempts, Vouched(b), presented \subseteq presented',
           \/ pc'[b] = pc[b] /\ req'[b] = req[b]
           \/ pc'[b] = "idle"
           \/ /\ pc[b] # "idle" /\ req'[b] = req[b]
              /\ \/ pc'[b] = "stream"
                 \/ pc[b] \in {"complete", "occurrence", "attestation", "receipt"}
                 \/ req[b].body = "declared" /\ req[b].proof
    PROVE  Vouched(b)'
  BY DEF Vouched

\* How a step moves the attempts and the record of what was presented.
LEMMA StepIsVouched ==
    ASSUME IngestInv, VerifiedInv, [Next]_vars
    PROVE  presented \subseteq presented' /\ \A b \in Attempts : Vouched(b)'
  <1>0. /\ pc \in [Attempts -> Steps] /\ req \in [Attempts -> Requests]
        /\ \A b \in Attempts : Vouched(b)
    BY DEF IngestInv, Shape, VerifiedInv
  <1>1. CASE UNCHANGED vars
    BY <1>0, <1>1, VouchedKept DEF vars
  <1>2. ASSUME NEW as, Reset(as), presented' = presented
        PROVE  \A b \in Attempts : Vouched(b)'
    BY <1>0, <1>2, ResetFrame, VouchedKept
  <1>3. ASSUME NEW r \in Replicas, Crash(r)
        PROVE  presented' = presented /\ \A b \in Attempts : Vouched(b)'
    BY <1>2, <1>3 DEF Crash
  <1>4. ASSUME NEW a \in Attempts, NEW e \in Envelopes, NEW body \in Bodies,
               NEW proof \in BOOLEAN, Receive(a, e, body, proof)
        PROVE  presented \subseteq presented' /\ \A b \in Attempts : Vouched(b)'
    <2>1. /\ presented' = IF body = "declared" /\ proof THEN presented \cup {e} ELSE presented
          /\ pc' = [pc EXCEPT ![a] = "evidence"]
          /\ req' = [req EXCEPT ![a] = [env |-> e, body |-> body, proof |-> proof]]
      BY <1>4 DEF Receive, Goto
    <2>2. presented \subseteq presented'
      BY <2>1
    <2>3. Vouched(a)'
      <3>1. pc'[a] = "evidence" /\ req'[a] = [env |-> e, body |-> body, proof |-> proof]
        BY <1>0, <2>1
      <3>2. req'[a].env = e /\ req'[a].body = body /\ req'[a].proof = proof
        BY <3>1
      <3>3. body = "declared" /\ proof => e \in presented'
        BY <2>1
      <3> QED BY <3>1, <3>2, <3>3 DEF Vouched
    <2>4. \A b \in Attempts \ {a} : pc'[b] = pc[b] /\ req'[b] = req[b]
      BY <1>0, <2>1
    <2> QED BY <1>0, <2>2, <2>3, <2>4, VouchedKept
  <1>5. ASSUME NEW a \in Attempts, NEW step, Goto(a, step), req' = req, presented' = presented,
               pc[a] # "idle",
               \/ step = "stream"
               \/ pc[a] \in {"complete", "occurrence", "attestation", "receipt"}
               \/ req[a].body = "declared" /\ req[a].proof
        PROVE  \A b \in Attempts : Vouched(b)'
    <2>1. pc'[a] = step /\ \A b \in Attempts \ {a} : pc'[b] = pc[b]
      BY <1>0, <1>5 DEF Goto
    <2> QED BY <1>0, <1>5, <2>1, VouchedKept
  <1>6. ASSUME NEW a \in Attempts, Advance(a)
        PROVE  presented' = presented /\ \A b \in Attempts : Vouched(b)'
    <2>1. CASE LoadEvidence(a)
      BY <1>5, <2>1 DEF LoadEvidence
    <2>2. CASE Stream(a)
      <3>1. CASE DrainVerdict(req[a]) = "verified"
        <4>1. req[a].body \in Bodies
          BY <1>0 DEF Requests
        <4>2. req[a].body = "declared" /\ req[a].proof
          BY <3>1, <4>1 DEF DrainVerdict, Bodies
        <4> QED BY <1>5, <2>2, <3>1, <4>2 DEF Stream
      <3>2. CASE DrainVerdict(req[a]) # "verified"
        BY <1>2, <2>2, <3>2 DEF Stream, Ended
      <3> QED BY <3>1, <3>2
    <2>3. CASE CommitBlob(a)
      BY <1>5, <2>3 DEF CommitBlob
    <2>4. ASSUME NEW evidence \in Evidence, CommitOccurrence(a, evidence)
          PROVE  presented' = presented /\ \A b \in Attempts : Vouched(b)'
      BY <1>2, <1>5, <2>4 DEF CommitOccurrence, Ended
    <2>5. ASSUME NEW evidence \in Evidence, CommitAttestation(a, evidence)
          PROVE  presented' = presented /\ \A b \in Attempts : Vouched(b)'
      BY <1>2, <1>5, <2>5 DEF CommitAttestation, Ended
    <2>6. CASE IssueReceipt(a)
      BY <1>2, <2>6 DEF IssueReceipt, Ended
    <2> QED BY <1>6, <2>1, <2>2, <2>3, <2>4, <2>5, <2>6 DEF Advance
  <1>7. ASSUME NEW a \in Attempts,
               CallFails(a) \/ Deadline(a) \/ \E evidence \in Evidence : AnswerLost(a, evidence)
        PROVE  presented' = presented /\ \A b \in Attempts : Vouched(b)'
    <2>1. presented' = presented /\ (Ended(a) \/ UNCHANGED <<pc, req>>)
      BY <1>7 DEF CallFails, Deadline, AnswerLost
    <2>2. CASE Ended(a)
      BY <1>2, <2>1, <2>2 DEF Ended
    <2>3. CASE UNCHANGED <<pc, req>>
      BY <1>0, <2>1, <2>3, VouchedKept
    <2> QED BY <2>1, <2>2, <2>3
  <1> QED BY <1>1, <1>3, <1>4, <1>6, <1>7 DEF Next

\* A store step writes only at the keys of a presented envelope.
LEMMA StoreStepVerified ==
    ASSUME IngestInv, VerifiedInv, NEW a \in Attempts, StoreStep(a),
           presented \subseteq presented'
    PROVE  NothingUnverifiedStored'
  <1> DEFINE e == req[a].env
  <1>0. StoreTypes /\ NothingUnverifiedStored /\ Vouched(a) /\ Progress(a)
    BY DEF IngestInv, Shape, StoreTypes, VerifiedInv, ProgressIsDurable
  <1>1. pc[a] \in {"complete", "occurrence", "attestation"} =>
          e \in presented' /\ e \in Envelopes /\ req[a].body = "declared"
    BY <1>0 DEF Vouched, Progress
  <1>2. CASE UNCHANGED <<blob, occ, att>>
    BY <1>0, <1>2 DEF NothingUnverifiedStored
  <1>3. CASE pc[a] = "complete" /\ WriteBlob(a) /\ UNCHANGED <<occ, att>>
    <2>1. \A k \in Blobs : blob'[k] = blob[k] \/ (k = BlobOf[e] /\ blob'[k] = "declared")
      BY <1>0, <1>1, <1>3 DEF WriteBlob, StoreTypes
    <2> QED BY <1>0, <1>1, <1>3, <2>1 DEF NothingUnverifiedStored
  <1>4. ASSUME NEW evidence \in Evidence, pc[a] = "occurrence", WriteOccurrence(a, evidence),
               UNCHANGED <<blob, att>>
        PROVE  NothingUnverifiedStored'
    <2>1. \A k \in Occurrences : occ'[k] = occ[k] \/ k = OccurrenceOf[e]
      BY <1>0, <1>4 DEF WriteOccurrence, StoreTypes
    <2> QED BY <1>0, <1>1, <1>4, <2>1 DEF NothingUnverifiedStored
  <1>5. ASSUME NEW evidence \in Evidence, pc[a] = "attestation", WriteAttestation(a, evidence),
               UNCHANGED <<blob, occ>>
        PROVE  NothingUnverifiedStored'
    <2>1. \A f \in Envelopes : att'[f] = att[f] \/ f = e
      BY <1>0, <1>5 DEF WriteAttestation, StoreTypes
    <2> QED BY <1>0, <1>1, <1>5, <2>1 DEF NothingUnverifiedStored
  <1> QED BY <1>2, <1>3, <1>4, <1>5 DEF StoreStep

\* Nothing reaches a key of the store that was not presented with the bytes
\* it names and a signature over them (DrainChunks, GateEncoder), however
\* many attempts stream, fail and retry at once.
THEOREM StoreHoldsVerified == Spec => []NothingUnverifiedStored
  <1>1. IngestInit => VerifiedInv
    BY DEF IngestInit, VerifiedInv, Vouched, NothingUnverifiedStored
  <1>2. IngestInv /\ VerifiedInv /\ [Next]_vars => VerifiedInv'
    <2> SUFFICES ASSUME IngestInv, VerifiedInv, [Next]_vars PROVE VerifiedInv'
      OBVIOUS
    <2>1. presented \subseteq presented' /\ \A b \in Attempts : Vouched(b)'
      BY StepIsVouched
    <2>2. NothingUnverifiedStored'
      <3>1. CASE UNCHANGED <<blob, occ, att>>
        BY <2>1, <3>1 DEF VerifiedInv, NothingUnverifiedStored
      <3>2. CASE \E a \in Attempts : StoreStep(a)
        BY <2>1, <3>2, StoreStepVerified
      <3> QED BY <3>1, <3>2, EveryStepIsStoreStep
    <2> QED BY <2>1, <2>2 DEF VerifiedInv
  <1>3. VerifiedInv => NothingUnverifiedStored
    BY DEF VerifiedInv
  <1> QED BY <1>1, <1>2, <1>3, IngestInvHolds, PTL DEF Spec
===============================================================================
