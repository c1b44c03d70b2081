----------------------------- MODULE UploadQueue -----------------------------
(***************************************************************************)
(* The upload half of the client state database: the frozen upload         *)
(* identity and retry schedule (archivist-client-core src/upload.rs) and   *)
(* the receipt acknowledgement transaction (src/acknowledgement.rs).       *)
(* Every action below is one SQLite transaction, so a process death leaves *)
(* either all or none of it; only the network can be caught half way.      *)
(*                                                                         *)
(* Time is relative: wait[e] is next_attempt_at minus the clock, so a due  *)
(* entry has wait[e] <= 0 and Tick moves the clock by one.                 *)
(***************************************************************************)
EXTENDS Integers

CONSTANTS
    Entries,        \* spool entry identities; UUIDv7 text order is <
    Occurrences,    \* the captured ranges, by occurrence identity
    Sources,
    SourceOf,       \* the source a range belongs to, through its generation
    RangeEnd,       \* ranges.range_end, an offset within the generation
    CursorOf,       \* the cursor the engine passes when acknowledging a range
    Requests,       \* request identities the freeze can mint
    Digests,        \* distinct receipts the server may sign for one request
    BaseMs, CapMs,  \* RetryPolicy
    Bits,           \* the width of the shift and of the product (64)
    MaxAttempts,    \* attempt_count is exact up to here, then saturates
    MaxOverdue,     \* bound: how long a due entry may wait unclaimed
    NoEntry, NoRequest, NoOccurrence, NoCursor, NoReceipt, Never

\* A verified receipt, as far as the acknowledgement reads it.
Receipts == [req : Requests, occ : Occurrences, digest : Digests]

ASSUME QueueAssumption ==
    /\ Entries \subseteq Nat
    /\ SourceOf \in [Occurrences -> Sources]
    /\ RangeEnd \in [Occurrences -> Nat]
    /\ NoCursor \notin { CursorOf[o] : o \in Occurrences }
    /\ BaseMs \in Nat \ {0} /\ CapMs \in Nat /\ Bits \in Nat \ {0}
    /\ MaxAttempts \in Nat /\ MaxOverdue \in Nat
    /\ NoEntry \notin Entries /\ NoRequest \notin Requests
    /\ NoOccurrence \notin Occurrences /\ NoReceipt \notin Receipts
    /\ Never \notin Int

VARIABLES
    row,           \* spool_entries.state; "none" when there is no row
    request,       \* frozen_requests.request_id of the entry
    payload,       \* the occurrence the bundle carries
    rangeEntry,    \* ranges.spool_entry_id of the occurrence
    attempts,      \* spool_entries.attempt_count
    wait,          \* next_attempt_at relative to now; Never is NULL
    quarantined,   \* quarantined_uploads
    receipt,       \* the receipts row of the entry's frozen request
    watermark,     \* sources.last_acknowledged_range_end
    cursor,        \* sources.last_cursor
    inflight,      \* claims whose attempt has no outcome yet
    replies        \* verified receipts that reached the client, never forgotten

queueVars == <<request, rangeEntry, attempts, wait, quarantined,
               receipt, watermark, cursor, inflight, replies>>
vars == <<row, payload, request, rangeEntry, attempts, wait, quarantined,
          receipt, watermark, cursor, inflight, replies>>

-------------------------------------------------------------------------------
(* The retry schedule.                                                     *)

ProductMax == 2^Bits - 1

\* Bug: the doubling is neither checked nor capped.
UncheckedDoubling(failures) == BaseMs * 2^failures

\* Bug: the product wraps at its width instead of being checked.
WrappingDoubling(failures) ==
    LET doubled == (BaseMs * 2^failures) % 2^Bits
    IN  IF doubled < CapMs THEN doubled ELSE CapMs

\* base_ms.checked_mul(1 << failures), the cap when either overflows.
upper_bound_ms(failures) ==
    LET doubled == IF failures < Bits /\ BaseMs * 2^failures <= ProductMax
                   THEN BaseMs * 2^failures ELSE CapMs
    IN  IF doubled < CapMs THEN doubled ELSE CapMs

\* One uniform draw below the bound; a bound of zero can only draw zero.
full_jitter_ms(failures) ==
    IF upper_bound_ms(failures) = 0 THEN {0} ELSE 0..(upper_bound_ms(failures) - 1)

-------------------------------------------------------------------------------
(* The locked error matrix.  A failure is a lost response, a bare status,  *)
(* or the class of the registry code the error body carried.               *)

Failures ==
    {"response_lost"}
      \cup {"status_401_403", "status_409", "status_413",
            "status_408_425_429_5xx", "status_other"}
      \cup {"request_invalid", "authorization", "integrity_conflict",
            "payload_limit_splittable", "payload_limit_unsplittable", "transient",
            "unknown_retryable", "unknown_final"}

decide(failure) ==
    CASE failure \in {"response_lost", "status_408_425_429_5xx", "transient",
                      "unknown_retryable"} -> "retry"
      [] failure \in {"status_413", "payload_limit_splittable"} -> "rechunk"
      [] failure \in {"status_401_403", "authorization"} -> "pause_for_linking"
      [] failure \in {"status_409", "integrity_conflict"} -> "stop_source_and_page"
      [] failure = "payload_limit_unsplittable" -> "quarantine_and_report_gap"
      [] OTHER -> "quarantine_artifact"

QuarantineDecisions == {"quarantine_artifact", "quarantine_and_report_gap"}

-------------------------------------------------------------------------------
\* sources: nothing captured yet.
SourcesInit == cursor = [s \in Sources |-> NoCursor]

\* What the last two migrations add: the watermark column and quarantine.
UpgradedInit ==
    /\ watermark = [s \in Sources |-> -1]
    /\ quarantined = {}

QueueInit ==
    /\ SourcesInit /\ UpgradedInit
    /\ row = [e \in Entries |-> "none"]
    /\ request = [e \in Entries |-> NoRequest]
    /\ payload = [e \in Entries |-> NoOccurrence]
    /\ rangeEntry = [o \in Occurrences |-> NoEntry]
    /\ attempts = [e \in Entries |-> 0]
    /\ wait = [e \in Entries |-> Never]
    /\ receipt = [e \in Entries |-> NoReceipt]
    /\ inflight = {}
    /\ replies = {}

\* The spool commits a new row: attempt_count 0, next_attempt_at NULL.
RowAppears(e, o) ==
    /\ row[e] = "none"
    /\ row' = [row EXCEPT ![e] = "materialized"]
    /\ payload' = [payload EXCEPT ![e] = o]
    /\ UNCHANGED queueVars

\* The capture engine records which range a bundle carries.  ranges has the
\* occurrence as its primary key and a foreign key on the spool row.
BindRange(e) ==
    /\ row[e] # "none" /\ rangeEntry[payload[e]] = NoEntry
    /\ rangeEntry' = [rangeEntry EXCEPT ![payload[e]] = e]
    /\ UNCHANGED <<row, payload, request, attempts, wait, quarantined,
                   receipt, watermark, cursor, inflight, replies>>

MintedRequests == { request[e] : e \in Entries } \ {NoRequest}

\* Bug: every freeze mints a request, also for a frozen entry.
FreezeAgain(e, r) ==
    /\ row[e] = "materialized"
    /\ r \notin MintedRequests
    /\ request' = [request EXCEPT ![e] = r]
    /\ UNCHANGED <<row, payload, rangeEntry, attempts, wait, quarantined,
                   receipt, watermark, cursor, inflight, replies>>

\* freeze_upload: a committed freeze is returned as it stands (or refused as
\* a conflict), so only the first freeze of a materialized entry writes.
FreezeUpload(e, r) ==
    /\ row[e] = "materialized"
    /\ request[e] = NoRequest
    /\ r \notin MintedRequests
    /\ request' = [request EXCEPT ![e] = r]
    /\ UNCHANGED <<row, payload, rangeEntry, attempts, wait, quarantined,
                   receipt, watermark, cursor, inflight, replies>>

Due == { e \in Entries :
            /\ row[e] = "materialized" /\ request[e] # NoRequest
            /\ e \notin quarantined
            /\ wait[e] = Never \/ wait[e] <= 0 }

\* ORDER BY next_attempt_at, spool_entry_id with NULL first.
Earlier(e, f) ==
    \/ wait[e] = Never /\ (wait[f] # Never \/ e <= f)
    \/ /\ wait[e] # Never /\ wait[f] # Never
       /\ wait[e] < wait[f] \/ (wait[e] = wait[f] /\ e <= f)

\* claim_due_upload: the count and the schedule commit before the attempt.
ClaimDueUpload(e, delay) ==
    /\ e \in Due /\ \A f \in Due : Earlier(e, f)
    /\ attempts' = [attempts EXCEPT ![e] = IF @ < MaxAttempts THEN @ + 1 ELSE @]
    /\ wait' = [wait EXCEPT ![e] = delay]
    /\ inflight' = inflight \cup {e}
    /\ UNCHANGED <<row, payload, request, rangeEntry, quarantined,
                   receipt, watermark, cursor, replies>>

\* The clock.  It waits while a due entry has been overdue for MaxOverdue.
Tick ==
    /\ \A e \in Due : wait[e] # Never => wait[e] > -MaxOverdue
    /\ \E e \in Entries : wait[e] # Never /\ wait[e] > -MaxOverdue
    /\ wait' = [e \in Entries |->
                  IF wait[e] = Never \/ wait[e] = -MaxOverdue THEN wait[e] ELSE wait[e] - 1]
    /\ UNCHANGED <<row, payload, request, rangeEntry, attempts, quarantined,
                   receipt, watermark, cursor, inflight, replies>>

-------------------------------------------------------------------------------
(* The network and the server, as the client sees them.                    *)

\* A verified receipt for the request arrived.  A resent request may get the
\* same receipt again or a differently dated one, and nothing before the
\* acknowledgement says which occurrence it names.
ReceiptArrives(e, o, d) ==
    /\ e \in inflight
    /\ replies' = replies \cup {[req |-> request[e], occ |-> o, digest |-> d]}
    /\ inflight' = inflight \ {e}
    /\ UNCHANGED <<row, payload, request, rangeEntry, attempts, wait, quarantined,
                   receipt, watermark, cursor>>

\* The attempt failed in one of the matrix's ways.  Only quarantine writes
\* (INSERT OR IGNORE); a retry keeps the schedule the claim laid down.
AttemptFails(e, failure) ==
    /\ e \in inflight
    /\ inflight' = inflight \ {e}
    /\ quarantined' = IF decide(failure) \in QuarantineDecisions
                      THEN quarantined \cup {e} ELSE quarantined
    /\ UNCHANGED <<row, payload, request, rangeEntry, attempts, wait,
                   receipt, watermark, cursor, replies>>

\* Process death: the attempts in flight are forgotten.
ForgetInflight ==
    /\ inflight # {}
    /\ inflight' = {}
    /\ UNCHANGED <<row, payload, request, rangeEntry, attempts, wait, quarantined,
                   receipt, watermark, cursor, replies>>

-------------------------------------------------------------------------------
(* acknowledge_receipt.                                                    *)

\* load_pending: the join of the frozen request with its range row.
LoadPending(e, rc) ==
    /\ request[e] # NoRequest /\ request[e] = rc.req
    /\ rangeEntry[payload[e]] = e

\* Bug: a verified signature is taken for a binding.
ValidateNothing(e, rc) == TRUE

\* validate_binding: the receipt names the frozen occurrence.
ValidateBinding(e, rc) == rc.occ = payload[e]

\* A committed receipt must be this very one; an acknowledged row without a
\* receipt is never repaired.
ReceiptAdmissible(e, rc) ==
    \/ receipt[e] = rc
    \/ receipt[e] = NoReceipt /\ row[e] # "acknowledged"

\* Bug: every range at or below the watermark is held against the cursor.
CursorConflictBelow(o) ==
    LET s == SourceOf[o]
    IN  watermark[s] >= RangeEnd[o] /\ cursor[s] # NoCursor /\ cursor[s] # CursorOf[o]

\* update_cursor_and_acknowledge's refusal: another cursor at this boundary.
CursorConflict(o) ==
    LET s == SourceOf[o]
    IN  watermark[s] = RangeEnd[o] /\ cursor[s] # NoCursor /\ cursor[s] # CursorOf[o]

\* Bug: the cursor follows the latest acknowledgement, the watermark the
\* furthest one.
CursorFollowsLatest(o) ==
    LET s == SourceOf[o]
    IN  /\ watermark' = [watermark EXCEPT ![s] = IF @ < RangeEnd[o] THEN RangeEnd[o] ELSE @]
        /\ cursor' = [cursor EXCEPT ![s] = CursorOf[o]]

AdvanceCursor(o) ==
    LET s == SourceOf[o]
    IN  IF watermark[s] < RangeEnd[o]
        THEN /\ watermark' = [watermark EXCEPT ![s] = RangeEnd[o]]
             /\ cursor' = [cursor EXCEPT ![s] = CursorOf[o]]
        ELSE /\ watermark' = watermark
             /\ cursor' = [cursor EXCEPT ![s] =
                             IF @ = NoCursor /\ watermark[s] = RangeEnd[o]
                             THEN CursorOf[o] ELSE @]

AcknowledgeReceipt(e, rc) ==
    /\ LoadPending(e, rc) /\ ValidateBinding(e, rc) /\ ReceiptAdmissible(e, rc)
    /\ ~CursorConflict(payload[e])
    /\ receipt' = [receipt EXCEPT ![e] = rc]
    /\ AdvanceCursor(payload[e])
    /\ row' = [row EXCEPT ![e] = "acknowledged"]
    /\ UNCHANGED <<payload, request, rangeEntry, attempts, wait, quarantined,
                   inflight, replies>>

-------------------------------------------------------------------------------
QueueStep ==
    \/ \E e \in Entries : BindRange(e)
    \/ \E e \in Entries, r \in Requests : FreezeUpload(e, r)
    \/ \E e \in Entries : \E delay \in full_jitter_ms(attempts[e]) : ClaimDueUpload(e, delay)
    \/ Tick
    \/ \E e \in Entries, o \in Occurrences, d \in Digests : ReceiptArrives(e, o, d)
    \/ \E e \in Entries, failure \in Failures : AttemptFails(e, failure)

Acknowledge == \E e \in Entries, rc \in replies : AcknowledgeReceipt(e, rc)

QueueNext ==
    \/ \E e \in Entries, o \in Occurrences : RowAppears(e, o)
    \/ QueueStep
    \/ ForgetInflight
    \/ Acknowledge

QueueSpec == QueueInit /\ [][QueueNext]_vars

-------------------------------------------------------------------------------
(* Properties.                                                             *)

\* Every table holds values of its kind; in particular no schedule lies
\* beyond the cap of the retry policy.
QueueTypeOK ==
    /\ row \in [Entries -> {"none", "materialized", "acknowledged"}]
    /\ payload \in [Entries -> Occurrences \cup {NoOccurrence}]
    /\ request \in [Entries -> Requests \cup {NoRequest}]
    /\ rangeEntry \in [Occurrences -> Entries \cup {NoEntry}]
    /\ attempts \in [Entries -> 0..MaxAttempts]
    /\ wait \in [Entries -> (-MaxOverdue..CapMs) \cup {Never}]
    /\ quarantined \subseteq Entries
    /\ receipt \in [Entries -> Receipts \cup {NoReceipt}]
    /\ watermark \in [Sources -> Int]
    /\ cursor \in [Sources -> { CursorOf[o] : o \in Occurrences } \cup {NoCursor}]
    /\ inflight \subseteq Entries
    /\ replies \subseteq Receipts

\* An entry is acknowledged exactly when its receipt row exists, and that
\* receipt was received, names the entry's frozen request and the occurrence
\* its bundle carries: late, duplicated, redated or mismatched receipts never
\* acknowledge anything else.  Of two bundles of one range (a crash
\* re-captured it) at most one is ever acknowledged.
AcknowledgedIffReceipted ==
    \A e \in Entries :
        /\ row[e] = "acknowledged" <=> receipt[e] # NoReceipt
        /\ receipt[e] # NoReceipt =>
              /\ receipt[e] \in replies
              /\ receipt[e].req = request[e] /\ receipt[e].occ = payload[e]
              /\ \A f \in Entries : receipt[f] # NoReceipt /\ payload[f] = payload[e]
                                        => f = e

\* The source's cursor and watermark always come from one and the same
\* acknowledged range: capture resumes from a position some receipt proves.
CursorIsReceipted ==
    \A s \in Sources :
        watermark[s] # -1 =>
            \E e \in Entries :
                /\ row[e] = "acknowledged" /\ SourceOf[payload[e]] = s
                /\ RangeEnd[payload[e]] = watermark[s]
                /\ CursorOf[payload[e]] = cursor[s]

\* What is promised never changes: the frozen request, a stored receipt, an
\* acknowledged row are final, the watermark never moves back, and a
\* quarantined entry is never attempted again, restarts included: only a
\* receipt for an attempt made before can still end it.
PromisesAreFinal ==
    [][/\ \A e \in Entries :
            /\ request[e] # NoRequest => request'[e] = request[e]
            /\ receipt[e] # NoReceipt => receipt'[e] = receipt[e]
            /\ row[e] = "acknowledged" => row'[e] = "acknowledged"
       /\ \A s \in Sources : watermark'[s] >= watermark[s]
       /\ \A e \in quarantined :
            e \in quarantined' /\ (e \in inflight' => e \in inflight)]_vars

\* The bound of an entry's next wait never shrinks as its failures mount: a
\* doubling that overflows gives the cap, never a near-zero wait
\* (upper_bound_ms: "would wrap to a near-zero bound ... and tight-loop").
BackoffNeverShrinks ==
    [][\A e \in Entries :
          upper_bound_ms(attempts[e]) <= upper_bound_ms(attempts'[e])]_vars

\* A verified receipt that names an entry's frozen request and occurrence
\* settles it: unless the entry is acknowledged already, acknowledge_receipt
\* refuses it for no order in which the source's other ranges were
\* acknowledged ("re-sends that same promise until a receipt proves it
\* durable").
OwnReceiptAccepted ==
    \A e \in Entries : \A rc \in replies :
        LoadPending(e, rc) /\ rc.occ = payload[e] /\ row[e] # "acknowledged"
            => ReceiptAdmissible(e, rc) /\ ~CursorConflict(payload[e])
===============================================================================
