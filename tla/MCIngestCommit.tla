---------------------------- MODULE MCIngestCommit ----------------------------
(* Small instances of IngestCommit for TLC.                                *)
EXTENDS IngestCommit

CONSTANTS a1, a2, rA, rB, e1, e2, e3, k1, oA, oB, dA, dB, dC

MCReplicaOf == [a \in Attempts |-> IF a = a1 THEN rA ELSE rB]
MCBlobOf == [e \in Envelopes |-> k1]

\* An origin and its relay upload one source event: e1 and e2 name one
\* occurrence.  The manifest folds source_time, which is no identity input,
\* so the two documents may differ.  e3 is another range with equal bytes.
MCOccurrenceOf == [e \in Envelopes |-> IF e = e3 THEN oB ELSE oA]
MCDocumentOf ==
    [e \in Envelopes |-> CASE e = e1 -> dA [] e = e2 -> dB [] OTHER -> dC]
MCLengthOf == [x \in Envelopes \cup {dA, dB, dC} |-> IF x = dB THEN 2 ELSE 1]
===============================================================================
