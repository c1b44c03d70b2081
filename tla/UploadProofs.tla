----------------------------- MODULE UploadProofs -----------------------------
(***************************************************************************)
(* Proofs about UploadQueue: type correctness, an acknowledgement stands   *)
(* on exactly one matching receipt, the cursor comes from an acknowledged  *)
(* range, and what is promised is final, for every set of entries, ranges, *)
(* sources and requests and every retry policy.                            *)
(***************************************************************************)
EXTENDS UploadQueue, TLAPS

\* What a row's existence says: a frozen request has a row, a row has a
\* payload, and an attempt is made only for a frozen request.
RowInv ==
    \A e \in Entries :
        /\ row[e] # "none" => payload[e] \in Occurrences
        /\ request[e] # NoRequest => row[e] # "none"
        /\ e \in inflight => request[e] # NoRequest

\* The ranges row of an occurrence names an entry whose bundle carries it.
BindingInv ==
    \A o \in Occurrences :
        rangeEntry[o] # NoEntry => row[rangeEntry[o]] # "none" /\ payload[rangeEntry[o]] = o

\* A receipt is stored only for the entry the range is bound to.
ReceiptInv ==
    \A e \in Entries :
        /\ row[e] = "acknowledged" <=> receipt[e] # NoReceipt
        /\ receipt[e] # NoReceipt =>
              /\ receipt[e] \in replies
              /\ receipt[e].req = request[e] /\ receipt[e].occ = payload[e]
              /\ rangeEntry[payload[e]] = e

WatermarkInv == \A s \in Sources : watermark[s] >= -1

\* No acknowledged range ends beyond its source's watermark.
WatermarkCovers ==
    \A e \in Entries :
        row[e] = "acknowledged" => RangeEnd[payload[e]] <= watermark[SourceOf[payload[e]]]

QueueInv ==
    /\ QueueTypeOK /\ RowInv /\ BindingInv /\ ReceiptInv
    /\ WatermarkInv /\ WatermarkCovers /\ CursorIsReceipted
-------------------------------------------------------------------------------
\* The retry bound is an integer no larger than the cap, whether the doubling
\* overflows the width or not.
LEMMA UpperBoundCapped ==
    ASSUME NEW n \in Nat
    PROVE  upper_bound_ms(n) \in Int /\ upper_bound_ms(n) <= CapMs
<1>1. 2^n \in Int
  OBVIOUS
<1>2. BaseMs * 2^n \in Int
  BY <1>1, QueueAssumption DEF QueueAssumption
<1> QED BY <1>2, QueueAssumption DEF QueueAssumption, upper_bound_ms

\* Every draw of the jitter lies between zero and the cap.
LEMMA JitterCapped ==
    ASSUME NEW n \in Nat, NEW delay \in full_jitter_ms(n)
    PROVE  delay \in 0..CapMs
BY UpperBoundCapped, QueueAssumption DEF QueueAssumption, full_jitter_ms

\* The initial state satisfies the invariant.
LEMMA QueueInvInit == QueueInit => QueueInv
BY QueueAssumption
   DEF QueueAssumption, QueueInit, SourcesInit, UpgradedInit, QueueInv, QueueTypeOK, RowInv,
       BindingInv, ReceiptInv, WatermarkInv, WatermarkCovers, CursorIsReceipted

\* A new row keeps the invariant: the identity it takes was blank.
LEMMA RowAppearsStep ==
    ASSUME QueueInv, NEW e \in Entries, NEW o \in Occurrences, RowAppears(e, o)
    PROVE  QueueInv'
<1> USE DEF RowAppears, queueVars
<1>1. QueueTypeOK'
  BY DEF QueueInv, QueueTypeOK
<1>2. RowInv'
  BY DEF QueueInv, QueueTypeOK, RowInv
<1>3. BindingInv'
  BY DEF QueueInv, QueueTypeOK, BindingInv
<1>4. ReceiptInv'
  BY DEF QueueInv, QueueTypeOK, ReceiptInv
<1>5. WatermarkInv' /\ WatermarkCovers'
  BY DEF QueueInv, QueueTypeOK, WatermarkInv, WatermarkCovers
<1>6. CursorIsReceipted'
  BY DEF QueueInv, QueueTypeOK, CursorIsReceipted
<1> QED BY <1>1, <1>2, <1>3, <1>4, <1>5, <1>6 DEF QueueInv

\* Binding a range keeps the invariant: the range had no entry yet, so no
\* entry of that range was receipted.
LEMMA BindStep ==
    ASSUME QueueInv, NEW e \in Entries, BindRange(e)
    PROVE  QueueInv'
<1> USE DEF BindRange
<1>1. payload[e] \in Occurrences
  BY DEF QueueInv, RowInv
<1>2. QueueTypeOK' /\ RowInv'
  BY <1>1 DEF QueueInv, QueueTypeOK, RowInv
<1>3. BindingInv'
  BY <1>1 DEF QueueInv, QueueTypeOK, BindingInv
<1>4. ReceiptInv'
  BY <1>1, QueueAssumption DEF QueueAssumption, QueueInv, QueueTypeOK, ReceiptInv
<1>5. WatermarkInv' /\ WatermarkCovers' /\ CursorIsReceipted'
  BY DEF QueueInv, WatermarkInv, WatermarkCovers, CursorIsReceipted
<1> QED BY <1>2, <1>3, <1>4, <1>5 DEF QueueInv

\* The first freeze keeps the invariant: an entry that is only materialized
\* has no receipt that could name another request.
LEMMA FreezeStep ==
    ASSUME QueueInv, NEW e \in Entries, NEW r \in Requests, FreezeUpload(e, r)
    PROVE  QueueInv'
<1> USE DEF FreezeUpload
<1>1. QueueTypeOK' /\ RowInv'
  BY QueueAssumption DEF QueueAssumption, QueueInv, QueueTypeOK, RowInv
<1>2. ReceiptInv'
  BY DEF QueueInv, QueueTypeOK, ReceiptInv
<1>3. BindingInv' /\ WatermarkInv' /\ WatermarkCovers' /\ CursorIsReceipted'
  BY DEF QueueInv, BindingInv, WatermarkInv, WatermarkCovers, CursorIsReceipted
<1> QED BY <1>1, <1>2, <1>3 DEF QueueInv

\* The schedule and the network keep the invariant: they touch neither rows
\* nor bindings, stored receipts or cursors, and replies only grow.
LEMMA AttemptStep ==
    ASSUME QueueInv,
           \/ \E e \in Entries : \E delay \in full_jitter_ms(attempts[e]) : ClaimDueUpload(e, delay)
           \/ Tick
           \/ \E e \in Entries, o \in Occurrences, d \in Digests : ReceiptArrives(e, o, d)
           \/ \E e \in Entries, failure \in Failures : AttemptFails(e, failure)
           \/ ForgetInflight
    PROVE  QueueInv'
<1> USE DEF QueueInv
<1>1. ASSUME NEW e \in Entries, NEW delay \in full_jitter_ms(attempts[e]), ClaimDueUpload(e, delay)
      PROVE  QueueTypeOK' /\ RowInv' /\ replies \subseteq replies'
  <2>1. attempts[e] \in Nat
    BY QueueAssumption DEF QueueAssumption, QueueTypeOK
  <2>2. delay \in -MaxOverdue..CapMs
    BY <2>1, JitterCapped, QueueAssumption DEF QueueAssumption
  <2>3. attempts' \in [Entries -> 0..MaxAttempts]
    BY <1>1, QueueAssumption DEF QueueAssumption, QueueTypeOK, ClaimDueUpload
  <2>4. wait' \in [Entries -> (-MaxOverdue..CapMs) \cup {Never}]
    BY <1>1, <2>2 DEF QueueTypeOK, ClaimDueUpload
  <2> QED BY <1>1, <2>3, <2>4 DEF QueueTypeOK, RowInv, ClaimDueUpload, Due
<1>2. CASE Tick
  <2>1. ASSUME NEW e \in Entries
        PROVE  (IF wait[e] = Never \/ wait[e] = -MaxOverdue THEN wait[e] ELSE wait[e] - 1)
                  \in (-MaxOverdue..CapMs) \cup {Never}
    <3>1. wait[e] \in (-MaxOverdue..CapMs) \cup {Never}
      BY DEF QueueTypeOK
    <3> QED BY <3>1, QueueAssumption DEF QueueAssumption
  <2>2. wait' \in [Entries -> (-MaxOverdue..CapMs) \cup {Never}]
    BY <1>2, <2>1 DEF Tick
  <2> QED BY <1>2, <2>2 DEF QueueTypeOK, RowInv, Tick, BindingInv, ReceiptInv, WatermarkInv,
                                WatermarkCovers, CursorIsReceipted
<1>3. ASSUME NEW e \in Entries, NEW o \in Occurrences, NEW d \in Digests, ReceiptArrives(e, o, d)
      PROVE  QueueTypeOK' /\ RowInv' /\ replies \subseteq replies'
  <2>1. request[e] \in Requests
    BY <1>3 DEF QueueTypeOK, RowInv, ReceiptArrives
  <2>2. [req |-> request[e], occ |-> o, digest |-> d] \in Receipts
    BY <2>1 DEF Receipts
  <2> QED BY <1>3, <2>2 DEF QueueTypeOK, RowInv, ReceiptArrives
<1>4. ASSUME NEW e \in Entries, NEW failure \in Failures, AttemptFails(e, failure)
      PROVE  QueueTypeOK' /\ RowInv' /\ replies \subseteq replies'
  BY <1>4 DEF QueueTypeOK, RowInv, AttemptFails
<1>5. CASE ForgetInflight
  BY <1>5 DEF QueueTypeOK, RowInv, ForgetInflight, BindingInv, ReceiptInv, WatermarkInv,
              WatermarkCovers, CursorIsReceipted
<1>6. ASSUME QueueTypeOK' /\ RowInv' /\ replies \subseteq replies',
             UNCHANGED <<row, payload, request, rangeEntry, receipt, watermark, cursor>>
      PROVE  QueueInv'
  BY <1>6 DEF BindingInv, ReceiptInv, WatermarkInv, WatermarkCovers, CursorIsReceipted
<1> QED
  BY <1>1, <1>2, <1>3, <1>4, <1>5, <1>6 DEF ClaimDueUpload, ReceiptArrives, AttemptFails

\* An acknowledgement moves the source's watermark and cursor together: both
\* stay, with the watermark at or beyond the range's end, or both become the
\* acknowledged range's.
LEMMA CursorMoves ==
    ASSUME QueueInv, NEW o \in Occurrences, AdvanceCursor(o)
    PROVE  \/ UNCHANGED <<watermark, cursor>> /\ watermark[SourceOf[o]] >= RangeEnd[o]
           \/ /\ watermark[SourceOf[o]] < RangeEnd[o]
              /\ watermark' = [watermark EXCEPT ![SourceOf[o]] = RangeEnd[o]]
              /\ cursor' = [cursor EXCEPT ![SourceOf[o]] = CursorOf[o]]
<1> DEFINE s == SourceOf[o]
<1>1. s \in Sources /\ RangeEnd[o] \in Nat /\ watermark[s] \in Int
  BY QueueAssumption DEF QueueAssumption, QueueInv, QueueTypeOK
<1>2. CASE watermark[s] < RangeEnd[o]
  BY <1>2 DEF AdvanceCursor
<1>3. CASE ~(watermark[s] < RangeEnd[o])
  <2>1. watermark[s] # -1
    BY <1>1, <1>3
  <2>2. PICK e \in Entries : row[e] = "acknowledged" /\ CursorOf[payload[e]] = cursor[s]
    BY <1>1, <2>1 DEF QueueInv, CursorIsReceipted
  <2>3. payload[e] \in Occurrences
    BY <2>2 DEF QueueInv, RowInv
  <2>4. cursor[s] # NoCursor
    BY <2>2, <2>3, QueueAssumption DEF QueueAssumption
  <2>5. cursor' = cursor /\ watermark' = watermark
    BY <1>1, <1>3, <2>4 DEF AdvanceCursor, QueueInv, QueueTypeOK
  <2> QED BY <1>1, <1>3, <2>5
<1> QED BY <1>2, <1>3

\* The acknowledgement transaction keeps the invariant.
LEMMA AcknowledgeStep ==
    ASSUME QueueInv, NEW e \in Entries, NEW rc \in replies, AcknowledgeReceipt(e, rc)
    PROVE  QueueInv'
<1> DEFINE o == payload[e]
<1>1. row[e] # "none" /\ o \in Occurrences /\ rc \in Receipts
  BY DEF QueueInv, QueueTypeOK, RowInv, AcknowledgeReceipt, LoadPending
<1>2. SourceOf[o] \in Sources /\ RangeEnd[o] \in Nat
  BY <1>1, QueueAssumption DEF QueueAssumption
<1>3. \/ UNCHANGED <<watermark, cursor>> /\ watermark[SourceOf[o]] >= RangeEnd[o]
      \/ /\ watermark[SourceOf[o]] < RangeEnd[o]
         /\ watermark' = [watermark EXCEPT ![SourceOf[o]] = RangeEnd[o]]
         /\ cursor' = [cursor EXCEPT ![SourceOf[o]] = CursorOf[o]]
  BY <1>1, CursorMoves DEF AcknowledgeReceipt
<1>4. QueueTypeOK'
  BY <1>1, <1>2, <1>3 DEF QueueInv, QueueTypeOK, AcknowledgeReceipt
<1>5. RowInv' /\ BindingInv'
  BY <1>1 DEF QueueInv, QueueTypeOK, RowInv, BindingInv, AcknowledgeReceipt
<1>6. ReceiptInv'
  BY <1>1, QueueAssumption
     DEF QueueAssumption, QueueInv, QueueTypeOK, ReceiptInv, AcknowledgeReceipt,
         LoadPending, ValidateBinding
<1>7. WatermarkInv'
  BY <1>2, <1>3 DEF QueueInv, QueueTypeOK, WatermarkInv
<1>8. CursorIsReceipted'
  <2> SUFFICES ASSUME NEW s \in Sources, watermark'[s] # -1
               PROVE  \E f \in Entries :
                         /\ row'[f] = "acknowledged" /\ SourceOf[payload'[f]] = s
                         /\ RangeEnd[payload'[f]] = watermark'[s]
                         /\ CursorOf[payload'[f]] = cursor'[s]
    BY DEF CursorIsReceipted
  <2>1. payload' = payload /\ row' = [row EXCEPT ![e] = "acknowledged"]
    BY DEF AcknowledgeReceipt
  <2>2. CASE watermark'[s] = watermark[s] /\ cursor'[s] = cursor[s]
    BY <2>1, <2>2 DEF QueueInv, QueueTypeOK, CursorIsReceipted
  <2>3. CASE s = SourceOf[o] /\ watermark'[s] = RangeEnd[o] /\ cursor'[s] = CursorOf[o]
    BY <2>1, <2>3 DEF QueueInv, QueueTypeOK
  <2> QED BY <1>2, <1>3, <2>2, <2>3 DEF QueueInv, QueueTypeOK
<1>9. WatermarkCovers'
  <2> SUFFICES ASSUME NEW f \in Entries, row'[f] = "acknowledged"
               PROVE  RangeEnd[payload[f]] <= watermark'[SourceOf[payload[f]]]
    BY DEF WatermarkCovers, AcknowledgeReceipt
  <2>1. payload[f] \in Occurrences
    BY <1>1 DEF QueueInv, QueueTypeOK, RowInv, AcknowledgeReceipt
  <2>2. /\ SourceOf[payload[f]] \in Sources /\ RangeEnd[payload[f]] \in Nat
        /\ watermark[SourceOf[payload[f]]] \in Int
    BY <2>1, QueueAssumption DEF QueueAssumption, QueueInv, QueueTypeOK
  <2>3. CASE f = e
    BY <1>2, <1>3, <2>2, <2>3 DEF QueueInv, QueueTypeOK
  <2>4. CASE f # e
    <3>1. RangeEnd[payload[f]] <= watermark[SourceOf[payload[f]]]
      BY <2>4 DEF QueueInv, QueueTypeOK, WatermarkCovers, AcknowledgeReceipt
    <3> QED BY <1>2, <1>3, <2>2, <3>1 DEF QueueInv, QueueTypeOK
  <2> QED BY <2>3, <2>4
<1> QED BY <1>4, <1>5, <1>6, <1>7, <1>8, <1>9 DEF QueueInv

\* The invariant is inductive.
LEMMA QueueInvStep == QueueInv /\ [QueueNext]_vars => QueueInv'
<1> SUFFICES ASSUME QueueInv, [QueueNext]_vars PROVE QueueInv'
  OBVIOUS
<1>1. CASE UNCHANGED vars
  BY <1>1 DEF QueueInv, QueueTypeOK, RowInv, BindingInv, ReceiptInv, WatermarkInv,
              WatermarkCovers, CursorIsReceipted, vars
<1>2. ASSUME NEW e \in Entries, NEW o \in Occurrences, RowAppears(e, o) PROVE QueueInv'
  BY <1>2, RowAppearsStep
<1>3. ASSUME NEW e \in Entries, NEW r \in Requests, FreezeUpload(e, r) PROVE QueueInv'
  BY <1>3, FreezeStep
<1>4. ASSUME NEW e \in Entries, BindRange(e) PROVE QueueInv'
  BY <1>4, BindStep
<1>5. CASE Acknowledge
  BY <1>5, AcknowledgeStep DEF Acknowledge
<1> QED
  BY <1>1, <1>2, <1>3, <1>4, <1>5, AttemptStep DEF QueueNext, QueueStep

\* Every behaviour of the upload queue satisfies the invariant.
THEOREM QueueInvariant == QueueSpec => []QueueInv
BY QueueInvInit, QueueInvStep, PTL DEF QueueSpec
-------------------------------------------------------------------------------
\* Every reachable state of the upload tables is well typed; in particular
\* no schedule ever lies beyond the retry policy's cap.
THEOREM QueueTypeCorrect == QueueSpec => []QueueTypeOK
<1>1. QueueInv => QueueTypeOK
  BY DEF QueueInv
<1> QED BY <1>1, QueueInvariant, PTL

\* Late, duplicated, redated and mismatched receipts never acknowledge
\* anything but the one entry bound to the range they name.
THEOREM AcknowledgementsAreReceipted == QueueSpec => []AcknowledgedIffReceipted
<1>1. QueueInv => AcknowledgedIffReceipted
  <2> SUFFICES ASSUME ReceiptInv PROVE AcknowledgedIffReceipted
    BY DEF QueueInv
  <2>1. \A e \in Entries :
          /\ row[e] = "acknowledged" <=> receipt[e] # NoReceipt
          /\ receipt[e] # NoReceipt =>
                receipt[e] \in replies /\ receipt[e].req = request[e] /\ receipt[e].occ = payload[e]
    BY Zenon DEF ReceiptInv
  <2>2. ASSUME NEW e \in Entries, NEW f \in Entries, receipt[e] # NoReceipt,
               receipt[f] # NoReceipt, payload[f] = payload[e]
        PROVE  f = e
    <3>1. rangeEntry[payload[e]] = e /\ rangeEntry[payload[f]] = f
      BY <2>2, Zenon DEF ReceiptInv
    <3> QED BY <2>2, <3>1
  <2> QED BY <2>1, <2>2, Zenon DEF AcknowledgedIffReceipted
<1> QED BY <1>1, QueueInvariant, PTL

\* Capture resumes only from a position an acknowledged range proves, in
\* whatever order the ranges of a source are acknowledged.
THEOREM CursorsAreReceipted == QueueSpec => []CursorIsReceipted
<1>1. QueueInv => CursorIsReceipted
  BY DEF QueueInv
<1> QED BY <1>1, QueueInvariant, PTL

\* Where no two ranges of a source end at one offset (a source of a single
\* generation), a receipt for an entry's own request and range is refused in no
\* order of acknowledgements: the watermark can meet the range's end only
\* through that range, and then carries its cursor.  Without the assumption it
\* is false: see the run upload_replaced_file.
THEOREM OwnReceiptsAreAccepted ==
    ASSUME \A o, p \in Occurrences :
              SourceOf[o] = SourceOf[p] /\ RangeEnd[o] = RangeEnd[p] => o = p
    PROVE  QueueSpec => []OwnReceiptAccepted
<1>1. QueueInv => OwnReceiptAccepted
  <2> SUFFICES ASSUME QueueInv, NEW e \in Entries, NEW rc \in replies,
                      LoadPending(e, rc), row[e] # "acknowledged"
               PROVE  ReceiptAdmissible(e, rc) /\ ~CursorConflict(payload[e])
    BY DEF OwnReceiptAccepted
  <2>1. payload[e] \in Occurrences
    BY DEF QueueInv, RowInv, LoadPending
  <2>2. ReceiptAdmissible(e, rc)
    BY DEF QueueInv, ReceiptInv, ReceiptAdmissible
  <2>3. ASSUME CursorConflict(payload[e]) PROVE FALSE
    <3> DEFINE s == SourceOf[payload[e]]
    <3>1. s \in Sources /\ RangeEnd[payload[e]] \in Nat
      BY <2>1, QueueAssumption DEF QueueAssumption
    <3>2. watermark[s] = RangeEnd[payload[e]] /\ cursor[s] # CursorOf[payload[e]]
      BY <2>3 DEF CursorConflict
    <3>3. PICK f \in Entries :
            /\ row[f] = "acknowledged" /\ SourceOf[payload[f]] = s
            /\ RangeEnd[payload[f]] = watermark[s] /\ CursorOf[payload[f]] = cursor[s]
      BY <3>1, <3>2 DEF QueueInv, CursorIsReceipted
    <3>4. payload[f] \in Occurrences
      BY <3>3 DEF QueueInv, RowInv
    <3> QED BY <2>1, <3>2, <3>3, <3>4
  <2> QED BY <2>2, <2>3
<1> QED BY <1>1, QueueInvariant, PTL

\* The watermark is the furthest acknowledged end of its source: no
\* acknowledged range lies beyond it, whatever the order of the receipts.
THEOREM WatermarksCover == QueueSpec => []WatermarkCovers
<1>1. QueueInv => WatermarkCovers
  BY DEF QueueInv
<1> QED BY <1>1, QueueInvariant, PTL

\* What is promised is final: no transaction, retry, late receipt or restart
\* changes a frozen request, a stored receipt or an acknowledged row, moves a
\* watermark back, or attempts a quarantined entry again.
THEOREM PromisesStayFinal == QueueSpec => PromisesAreFinal
<1> DEFINE Final ==
      /\ \A e \in Entries :
            /\ request[e] # NoRequest => request'[e] = request[e]
            /\ receipt[e] # NoReceipt => receipt'[e] = receipt[e]
            /\ row[e] = "acknowledged" => row'[e] = "acknowledged"
      /\ \A s \in Sources : watermark'[s] >= watermark[s]
      /\ \A e \in quarantined :
            e \in quarantined' /\ (e \in inflight' => e \in inflight)
<1>1. QueueInv /\ [QueueNext]_vars => [Final]_vars
  <2> SUFFICES ASSUME QueueInv, QueueNext PROVE Final
    OBVIOUS
  <2>0. \A s \in Sources : watermark[s] \in Int
    BY DEF QueueInv, QueueTypeOK
  <2>1. ASSUME NEW e \in Entries, NEW o \in Occurrences, RowAppears(e, o) PROVE Final
    BY <2>0, <2>1 DEF QueueInv, QueueTypeOK, RowAppears, queueVars
  <2>2. ASSUME NEW e \in Entries, BindRange(e) PROVE Final
    BY <2>0, <2>2 DEF BindRange
  <2>3. ASSUME NEW e \in Entries, NEW r \in Requests, FreezeUpload(e, r) PROVE Final
    BY <2>0, <2>3 DEF QueueInv, QueueTypeOK, FreezeUpload
  <2>4. ASSUME NEW e \in Entries, NEW delay, ClaimDueUpload(e, delay) PROVE Final
    BY <2>0, <2>4 DEF ClaimDueUpload, Due
  <2>5. CASE Tick
    BY <2>0, <2>5 DEF Tick
  <2>6. ASSUME NEW e \in Entries, NEW o, NEW d, ReceiptArrives(e, o, d) PROVE Final
    BY <2>0, <2>6 DEF ReceiptArrives
  <2>7. ASSUME NEW e \in Entries, NEW failure, AttemptFails(e, failure) PROVE Final
    BY <2>0, <2>7 DEF AttemptFails
  <2>8. CASE ForgetInflight
    BY <2>0, <2>8 DEF ForgetInflight
  <2>9. ASSUME NEW e \in Entries, NEW rc \in replies, AcknowledgeReceipt(e, rc) PROVE Final
    <3>1. payload[e] \in Occurrences
      BY <2>9 DEF QueueInv, RowInv, AcknowledgeReceipt, LoadPending
    <3>2. SourceOf[payload[e]] \in Sources /\ RangeEnd[payload[e]] \in Nat
      BY <3>1, QueueAssumption DEF QueueAssumption
    <3>3. \A s \in Sources : watermark'[s] >= watermark[s]
      BY <2>0, <2>9, <3>1, <3>2, CursorMoves DEF QueueInv, QueueTypeOK, AcknowledgeReceipt
    <3>4. \A f \in Entries :
            /\ receipt[f] # NoReceipt => receipt'[f] = receipt[f]
            /\ row[f] = "acknowledged" => row'[f] = "acknowledged"
      BY <2>9 DEF QueueInv, QueueTypeOK, AcknowledgeReceipt, ReceiptAdmissible
    <3> QED BY <2>9, <3>3, <3>4 DEF AcknowledgeReceipt
  <2> QED
    BY <2>1, <2>2, <2>3, <2>4, <2>5, <2>6, <2>7, <2>8, <2>9
       DEF QueueNext, QueueStep, Acknowledge
<1> QED BY <1>1, QueueInvariant, PTL DEF QueueSpec, PromisesAreFinal
===============================================================================
