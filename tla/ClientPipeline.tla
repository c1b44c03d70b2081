--------------------------- MODULE ClientPipeline ----------------------------
(***************************************************************************)
(* The client composed: the spool directory and its mutator (Spool), and   *)
(* the upload and acknowledgement transactions (UploadQueue), over the one *)
(* spool_entries table they share.  The mutator is one sequential process, *)
(* so a transaction runs only between two spool calls; the network and the *)
(* clock run beside it.                                                    *)
(***************************************************************************)
EXTENDS Spool

CONSTANTS
    Occurrences, Sources, SourceOf, RangeEnd, CursorOf, Requests, Digests,
    BaseMs, CapMs, Bits, MaxAttempts, MaxOverdue,
    NoRequest, NoOccurrence, NoCursor, NoReceipt, Never

VARIABLES
    content,       \* the occurrence whose payload a bundle file carries
    payload, request, rangeEntry, attempts, wait, quarantined,
    receipt, watermark, cursor, inflight, replies

Q == INSTANCE UploadQueue

ASSUME PipelineAssumption == Q!QueueAssumption

pipeVars == <<spoolVars, content, payload, request, rangeEntry, attempts, wait,
              quarantined, receipt, watermark, cursor, inflight, replies>>

PipeInit ==
    /\ SpoolInit /\ Q!QueueInit
    /\ content = [e \in Entries |-> NoOccurrence]

\* A new spool_entries row describes the bytes under the bundle name, whether
\* materialize or reconcile inserts it.
RowsDescribeContent ==
    payload' = [e \in Entries |->
                  IF row[e] = "none" /\ row'[e] # "none" THEN content[e] ELSE payload[e]]

\* One step of a spool call; materialize is given the range to write.
SpoolCall ==
    /\ SpoolStep
    /\ \E o \in Occurrences :
            content' = [e \in Entries |-> IF e \in minted' \ minted THEN o ELSE content[e]]
    /\ RowsDescribeContent
    /\ UNCHANGED <<request, rangeEntry, attempts, wait, quarantined, receipt,
                   watermark, cursor, inflight, replies>>

\* Transactions of the mutator between two spool calls.
Transaction ==
    /\ pc = "idle"
    /\ \/ \E e \in Entries : Q!BindRange(e)
       \/ \E e \in Entries, r \in Requests : Q!FreezeUpload(e, r)
       \/ \E e \in Entries : \E delay \in Q!full_jitter_ms(attempts[e]) : Q!ClaimDueUpload(e, delay)
       \/ \E e \in Entries, failure \in Q!Failures : Q!AttemptFails(e, failure)
    /\ UNCHANGED <<spoolVars, content>>

\* The world beside the mutator.
Outside ==
    /\ \/ Q!Tick
       \/ \E e \in Entries, o \in Occurrences, d \in Digests : Q!ReceiptArrives(e, o, d)
    /\ UNCHANGED <<spoolVars, content>>

\* Bug: the spool row is acknowledged outside the receipt transaction.
AcknowledgeRowFirst ==
    \E e \in Entries, rc \in replies :
        /\ rc.req = request[e]
        /\ CommitAcknowledged(e)
        /\ UNCHANGED <<content, payload, request, rangeEntry, attempts, wait,
                       quarantined, receipt, watermark, cursor, inflight, replies>>

\* acknowledge_receipt: the transaction commits, then the cleanup begins.
AcknowledgeAndCleanUp ==
    \E e \in Entries, rc \in replies :
        /\ Q!AcknowledgeReceipt(e, rc)
        /\ CommitAcknowledged(e)
        /\ UNCHANGED content

ProcessDeath ==
    /\ Crash
    /\ inflight' = {}
    /\ UNCHANGED <<content, payload, request, rangeEntry, attempts, wait,
                   quarantined, receipt, watermark, cursor, replies>>

PipeNext ==
    \/ SpoolCall \/ Transaction \/ Outside \/ AcknowledgeAndCleanUp \/ ProcessDeath

PipeSpec == PipeInit /\ [][PipeNext]_pipeVars

-------------------------------------------------------------------------------
(* Properties.                                                             *)

\* Where each entry's captured range is, in the abstract specification's words.
custodyOf ==
    [e \in Entries |->
        IF receipt[e] # NoReceipt
        THEN IF file[e] = "bundle" THEN "receipted" ELSE "released"
        ELSE IF file[e] = "bundle" THEN "held" ELSE "none"]

Custody == INSTANCE RangeCustody WITH custody <- custodyOf

\* The client keeps the promise of RangeCustody: across every interleaving of
\* materialize, reconcile, upload, acknowledgement, failed calls and process
\* deaths a complete bundle stays until a receipt for that range is stored.
KeepsCustody == Custody!CustodySpec

\* The composed client still runs the upload protocol of UploadQueue.
RunsUploadQueue == Q!QueueSpec

\* The cursor never skips a range: a recorded range at or below the source's
\* watermark is receipted, or its bundle is still in the spool to be uploaded.
CursorNeverSkips ==
    \A o \in Occurrences :
        LET e == rangeEntry[o]
        IN  (e # NoEntry /\ RangeEnd[o] <= watermark[SourceOf[o]]) =>
                \/ receipt[e] # NoReceipt /\ receipt[e].occ = content[e]
                \/ file[e] = "bundle" /\ content[e] = o
===============================================================================
