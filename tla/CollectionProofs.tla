--------------------------- MODULE CollectionProofs ---------------------------
(***************************************************************************)
(* Proofs about Collection: the journal accounts for every removal, on any *)
(* store; and on a store that exposes versions no retained content is ever *)
(* removed, whatever is uploaded around the two scans and the sweep.       *)
(***************************************************************************)
EXTENDS Collection, FiniteFacts

Outcomes == {"none", "delete_pending", "deleted", "changed_before_delete",
             "unreadable_before_delete", "delete_failed"}
Events == [key : Blobs, outcome : Outcomes]
Scans == [blobs : [Blobs -> Nat], refs : SUBSET Occurrences, apart : Nat]
Places == [pc : {"idle", "head", "pending", "delete", "record"}, seq : Nat,
           todo : SUBSET Blobs, seen : Nat, outcome : Outcomes]

\* Every variable the proofs speak of holds a value of its kind.
CollectionTypeOK ==
    /\ present \subseteq Blobs /\ version \in [Blobs -> Nat]
    /\ landed \subseteq Occurrences
    /\ attempt \in [Occurrences -> (0..AttemptTime) \cup {Idle}]
    /\ collector \in {"scan", "listed", "marked", "reported"}
    /\ listing \in [Blobs -> Nat] /\ age \in Nat
    /\ scans \in Seq(Scans) /\ Len(scans) <= 2 /\ (collector = "listed" => Len(scans) < 2)
    /\ plan \in [expected : [Blobs -> Nat], cleared : SUBSET Occurrences]
    /\ journal \in Seq(Events)
    /\ worker \in [Workers -> Places]
    /\ swept \subseteq Blobs

\* The journal holds the event.
InJournal(event) == \E i \in DOMAIN journal : journal[i] = event

\* What a worker's place in execute_resumable says: it works on the standing
\* plan, a delete is preceded by its pending event and compares with what the
\* plan expects, and an outcome "deleted" stands for a removal.
WorkerOK(w) ==
    /\ worker[w].pc # "idle" => collector \in {"marked", "reported"}
    /\ worker[w].pc \in {"pending", "delete", "record"} => worker[w].todo # {}
    /\ worker[w].pc \in {"pending", "delete"} => worker[w].seen = plan.expected[Key(w)]
    /\ worker[w].pc = "delete" => InJournal(Event(Key(w), "delete_pending"))
    /\ worker[w].pc = "record" /\ worker[w].outcome = "deleted" => Key(w) \in swept

WorkerInv == \A w \in Workers : WorkerOK(w)

CollectionInv == CollectionTypeOK /\ WorkerInv /\ JournalAccounts
-------------------------------------------------------------------------------
(* Helpers.                                                                *)

\* The first key of a nonempty set of keys is one of them.
LEMMA FirstIsIn ==
    ASSUME NEW keys, keys \subseteq Blobs, keys # {}
    PROVE  FirstOf(keys) \in keys
<1>1. \E x \in keys : \A y \in keys : x <= y
  BY LeastElement, CollectionAssumption DEF CollectionAssumption
<1> QED BY <1>1 DEF FirstOf

\* An appended event joins the ones a sequence already holds.
LEMMA Appended ==
    ASSUME NEW S, NEW seq \in Seq(S), NEW x \in S
    PROVE  /\ Append(seq, x) \in Seq(S) /\ Len(Append(seq, x)) = Len(seq) + 1
           /\ \A i \in 1..Len(seq) : Append(seq, x)[i] = seq[i]
           /\ Append(seq, x)[Len(seq) + 1] = x
           /\ \A y : (\E i \in DOMAIN Append(seq, x) : Append(seq, x)[i] = y)
                        <=> (y = x \/ \E i \in DOMAIN seq : seq[i] = y)
<1>1. Len(seq) \in Nat /\ DOMAIN seq = 1..Len(seq)
  OBVIOUS
<1>2. DOMAIN Append(seq, x) = 1..(Len(seq) + 1)
  OBVIOUS
<1>3. Append(seq, x) \in Seq(S) /\ Len(Append(seq, x)) = Len(seq) + 1
  OBVIOUS
<1>4. Append(seq, x)[Len(seq) + 1] = x
  OBVIOUS
<1>5. \A i \in 1..Len(seq) : Append(seq, x)[i] = seq[i]
  OBVIOUS
<1>6. \A i \in 1..(Len(seq) + 1) : i = Len(seq) + 1 \/ i \in 1..Len(seq)
  BY <1>1
<1>7. Len(seq) + 1 \in 1..(Len(seq) + 1) /\ \A i \in 1..Len(seq) : i \in 1..(Len(seq) + 1)
  BY <1>1
<1>8. ASSUME NEW y, NEW i \in DOMAIN Append(seq, x), Append(seq, x)[i] = y
      PROVE  y = x \/ \E k \in DOMAIN seq : seq[k] = y
  BY <1>1, <1>2, <1>4, <1>5, <1>6, <1>8
<1>9. ASSUME NEW y, NEW i \in DOMAIN seq, seq[i] = y
      PROVE  \E k \in DOMAIN Append(seq, x) : Append(seq, x)[k] = y
  BY <1>1, <1>2, <1>5, <1>7, <1>9
<1>10. \E k \in DOMAIN Append(seq, x) : Append(seq, x)[k] = x
  BY <1>2, <1>4, <1>7
<1> QED BY <1>3, <1>4, <1>5, <1>8, <1>9, <1>10
-------------------------------------------------------------------------------
(* The journal, on any store.                                              *)

\* The initial state satisfies the invariant.
LEMMA CollectionInvInit == CollectionInit => CollectionInv
<1> SUFFICES ASSUME CollectionInit PROVE CollectionInv
  OBVIOUS
<1>1. NoListing \in [Blobs -> Nat] /\ NoPlan \in [expected : [Blobs -> Nat], cleared : SUBSET Occurrences]
  BY DEF NoListing, NoPlan
<1>2. Resting \in Places
  BY DEF Resting, Places, Outcomes
<1>3. CollectionTypeOK
  BY <1>1, <1>2, CollectionAssumption
     DEF CollectionAssumption, CollectionInit, CollectionTypeOK
<1>4. WorkerInv
  BY DEF CollectionInit, WorkerInv, WorkerOK, Resting
<1>5. JournalAccounts
  BY DEF CollectionInit, JournalAccounts, Completed
<1> QED BY <1>3, <1>4, <1>5 DEF CollectionInv

\* What the world around the collector does keeps the invariant: it touches
\* neither the plan nor its execution.
LEMMA WorldStep ==
    ASSUME CollectionInv,
           \/ \E o \in Occurrences :
                 \/ CompleteBlob(o) \/ LandOccurrence(o) \/ DropAttempt(o)
                 \/ Tombstone(o) \/ LegalHold(o) \/ Release(o)
           \/ Tick
    PROVE  CollectionInv'
<1> USE CollectionAssumption DEF CollectionAssumption
<1>0. CollectionTypeOK
  BY DEF CollectionInv
<1>1. ASSUME NEW o \in Occurrences, CompleteBlob(o) PROVE CollectionTypeOK'
  <2>0. BlobOf[o] \in Blobs
    OBVIOUS
  <2>1. version' \in [Blobs -> Nat] /\ present' \subseteq Blobs
    <3>1. version \in [Blobs -> Nat]
      BY <1>0 DEF CollectionTypeOK
    <3>2. version[BlobOf[o]] \in Nat
      BY <2>0, <3>1
    <3>3. version[BlobOf[o]] + 1 \in Nat
      BY <3>2
    <3> QED BY <1>0, <1>1, <2>0, <3>1, <3>3 DEF CollectionTypeOK, CompleteBlob
  <2>2. attempt' \in [Occurrences -> (0..AttemptTime) \cup {Idle}]
    BY <1>0, <1>1 DEF CollectionTypeOK, CompleteBlob
  <2> QED BY <1>0, <1>1, <2>1, <2>2
          DEF CollectionTypeOK, CompleteBlob, retentionVars, markVars, sweepVars
<1>2. ASSUME NEW o \in Occurrences, LandOccurrence(o) \/ DropAttempt(o) PROVE CollectionTypeOK'
  BY <1>0, <1>2 DEF CollectionTypeOK, LandOccurrence, DropAttempt, retentionVars, markVars, sweepVars
<1>3. ASSUME NEW o \in Occurrences, Tombstone(o) \/ LegalHold(o) \/ Release(o)
      PROVE  CollectionTypeOK'
  BY <1>0, <1>3 DEF CollectionTypeOK, Tombstone, LegalHold, Release, storeVars, markVars, sweepVars
<1>4. CASE Tick
  <2>1. ASSUME NEW o \in Occurrences
        PROVE  (IF attempt[o] = Idle THEN Idle ELSE attempt[o] + 1) \in (0..AttemptTime) \cup {Idle}
    <3>1. attempt[o] \in (0..AttemptTime) \cup {Idle}
      BY <1>0 DEF CollectionTypeOK
    <3>2. attempt[o] # Idle => attempt[o] < AttemptTime
      BY <1>4 DEF Tick
    <3> QED BY <3>1, <3>2
  <2>2. attempt' \in [Occurrences -> (0..AttemptTime) \cup {Idle}]
    BY <1>4, <2>1 DEF Tick
  <2>3. age' \in Nat
    BY <1>0, <1>4 DEF CollectionTypeOK, Tick, Aged
  <2>4. CollectionTypeOK'
    BY <1>0, <1>4, <2>2, <2>3 DEF CollectionTypeOK, Tick, sweepVars
  <2> QED BY <1>4, <2>4 DEF CollectionInv, WorkerInv, WorkerOK, JournalAccounts, Completed, InJournal, Key,
                            Tick, sweepVars
<1>5. ASSUME CollectionTypeOK', UNCHANGED <<markVars, sweepVars>> PROVE CollectionInv'
  BY <1>5 DEF CollectionInv, WorkerInv, WorkerOK, JournalAccounts, Completed, InJournal, Key, markVars, sweepVars
<1> QED BY <1>1, <1>2, <1>3, <1>4, <1>5
        DEF CompleteBlob, LandOccurrence, DropAttempt, Tombstone, LegalHold, Release

\* The mark phase keeps the invariant: nobody executes a plan meanwhile.
LEMMA MarkStep ==
    ASSUME CollectionInv, ListBlobs \/ CompleteScan \/ Build
    PROVE  CollectionInv'
<1> USE CollectionAssumption DEF CollectionAssumption
<1>0. CollectionTypeOK
  BY DEF CollectionInv
<1>1. ASSUME ListBlobs PROVE CollectionTypeOK'
  <2>1. \A b \in Blobs : Commitment(b) \in Nat
    BY <1>0 DEF CollectionTypeOK, Commitment
  <2> QED BY <1>0, <1>1, <2>1 DEF CollectionTypeOK, ListBlobs, storeVars, sweepVars
<1>2. ASSUME CompleteScan PROVE CollectionTypeOK'
  <2>1. NoListing \in [Blobs -> Nat]
    BY DEF NoListing
  <2>2. [blobs |-> listing, refs |-> landed, apart |-> age] \in Scans
    BY <1>0 DEF CollectionTypeOK, Scans
  <2>3. scans' \in Seq(Scans) /\ Len(scans') <= 2
    BY <1>0, <1>2, <2>2, Appended DEF CollectionTypeOK, CompleteScan
  <2>4. age' \in Nat
    BY <1>0, <1>2 DEF CollectionTypeOK, CompleteScan
  <2> QED BY <1>0, <1>2, <2>1, <2>3, <2>4 DEF CollectionTypeOK, CompleteScan, storeVars, sweepVars
<1>3. ASSUME Build PROVE CollectionTypeOK'
  <2>0. scans \in Seq(Scans) /\ Len(scans) = 2
    BY <1>0, <1>3 DEF CollectionTypeOK, Build
  <2>1. scans[1] \in Scans
    BY <2>0
  <2>2. \A b \in Blobs : scans[1].blobs[b] \in Nat
    BY <2>1 DEF Scans
  <2>3. plan' \in [expected : [Blobs -> Nat], cleared : SUBSET Occurrences]
    BY <1>0, <1>3, <2>2 DEF CollectionTypeOK, Build
  <2>4. scans' \in Seq(Scans) /\ Len(scans') <= 1
    <3>1. <<scans[1]>> \in Seq(Scans) /\ Len(<<scans[1]>>) = 1
      BY <2>1
    <3>2. <<>> \in Seq(Scans) /\ Len(<<>>) = 0
      OBVIOUS
    <3>3. scans' = <<>> \/ scans' = <<scans[1]>>
      BY <1>3 DEF Build
    <3>4. CASE scans' = <<>>
      BY <3>2, <3>4
    <3>5. CASE scans' = <<scans[1]>>
      BY <3>1, <3>5
    <3> QED BY <3>3, <3>4, <3>5
  <2>5. age' \in Nat /\ collector' \in {"scan", "marked"}
    BY <1>0, <1>3 DEF CollectionTypeOK, Build
  <2> QED BY <1>0, <1>3, <2>3, <2>4, <2>5 DEF CollectionTypeOK, Build, storeVars, sweepVars
<1>4. \A w \in Workers : worker[w].pc = "idle"
  BY <1>0 DEF CollectionInv, WorkerInv, WorkerOK, ListBlobs, CompleteScan, Build
<1>5. UNCHANGED sweepVars
  BY DEF ListBlobs, CompleteScan, Build
<1>6. WorkerInv'
  BY <1>4, <1>5 DEF WorkerInv, WorkerOK, sweepVars
<1>7. JournalAccounts'
  BY <1>5 DEF CollectionInv, JournalAccounts, Completed, sweepVars
<1> QED BY <1>1, <1>2, <1>3, <1>6, <1>7 DEF CollectionInv

\* A worker between its first HEAD and its report works on a key of its own.
LEMMA KeyIsBlob ==
    ASSUME CollectionTypeOK, NEW w \in Workers, worker[w].todo # {}
    PROVE  Key(w) \in worker[w].todo /\ Key(w) \in Blobs
<1>1. worker[w].todo \subseteq Blobs
  BY DEF CollectionTypeOK, Places
<1> QED BY <1>1, FirstIsIn DEF Key

\* One worker's step leaves every other worker's place as it was.
LEMMA OthersKeepPlace ==
    ASSUME CollectionTypeOK, WorkerInv, NEW w \in Workers, NEW r,
           worker' = [worker EXCEPT ![w] = r], plan' = plan,
           collector \in {"marked", "reported"} => collector' \in {"marked", "reported"},
           swept \subseteq swept', \A event : InJournal(event) => InJournal(event)',
           WorkerOK(w)'
    PROVE  WorkerInv'
<1> SUFFICES ASSUME NEW v \in Workers, v # w PROVE WorkerOK(v)'
  BY DEF WorkerInv
<1>1. worker'[v] = worker[v]
  BY DEF CollectionTypeOK
<1>2. Key(v)' = Key(v)
  BY <1>1 DEF Key
<1>3. WorkerOK(v)
  BY DEF WorkerInv
<1> QED BY <1>1, <1>2, <1>3 DEF WorkerOK

\* A step that only moves one worker keeps the invariant when the place it
\* moves to is in order.
LEMMA PlaceStep ==
    ASSUME CollectionInv, NEW w \in Workers, NEW r \in Places,
           worker' = [worker EXCEPT ![w] = r], WorkerOK(w)',
           UNCHANGED <<storeVars, listing, scans, age, plan, journal, swept>>,
           collector' = collector \/ (collector' = "reported" /\ worker[w].pc # "idle")
    PROVE  CollectionInv'
<1>0. CollectionTypeOK /\ WorkerInv /\ JournalAccounts
  BY DEF CollectionInv
<1>1. collector \in {"marked", "reported"} => collector' \in {"marked", "reported"}
  BY <1>0 DEF WorkerInv, WorkerOK
<1>2. CollectionTypeOK'
  BY <1>0 DEF CollectionTypeOK, storeVars
<1>3. \A event : InJournal(event) => InJournal(event)'
  BY DEF InJournal
<1>4. WorkerInv'
  BY <1>0, <1>1, <1>3, OthersKeepPlace
<1>5. JournalAccounts'
  BY <1>0 DEF JournalAccounts, Completed
<1> QED BY <1>2, <1>4, <1>5 DEF CollectionInv

\* A worker that ends, dies or is refused an event is at rest.
LEMMA HaltStep ==
    ASSUME CollectionInv, NEW w \in Workers, Halt(w),
           UNCHANGED <<storeVars, listing, scans, age, plan, journal, swept>>,
           collector' = collector \/ (collector' = "reported" /\ worker[w].pc # "idle")
    PROVE  CollectionInv'
<1>1. Resting \in Places /\ worker' = [worker EXCEPT ![w] = Resting]
  BY DEF Resting, Places, Outcomes, Halt, Step
<1>2. worker'[w] = Resting
  BY <1>1 DEF CollectionInv, CollectionTypeOK
<1>3. WorkerOK(w)'
  BY <1>2 DEF WorkerOK, Resting
<1> QED BY <1>1, <1>3, PlaceStep

\* Beginning an execution and the pre-delete HEAD keep the invariant.
LEMMA TakeUpStep ==
    ASSUME CollectionInv, NEW w \in Workers, Start(w) \/ Head_(w)
    PROVE  CollectionInv'
<1>0. CollectionTypeOK /\ WorkerOK(w) /\ worker[w] \in Places
  BY DEF CollectionInv, CollectionTypeOK, WorkerInv
<1>1. CASE Start(w)
  <2> DEFINE r == [Resting EXCEPT !.pc = "head", !.seq = Len(journal),
                     !.todo = { b \in Blobs : plan.expected[b] # 0 } \ Completed]
  <2>1. Len(journal) \in Nat
    BY <1>0 DEF CollectionTypeOK
  <2>2. r \in Places /\ r.pc = "head"
    BY <2>1 DEF Resting, Places, Outcomes
  <2>3. worker' = [worker EXCEPT ![w] = r] /\ worker'[w] = r
    BY <1>0, <1>1 DEF CollectionTypeOK, Start, Step
  <2>4. WorkerOK(w)'
    BY <1>1, <2>2, <2>3 DEF WorkerOK, Start, markVars
  <2> HIDE DEF r
  <2> QED BY <1>1, <2>2, <2>3, <2>4, PlaceStep DEF Start, markVars
<1>2. CASE Head_(w)
  <2>0. Commitment(Key(w)) \in Nat
    <3>1. Key(w) \in Blobs
      BY <1>0, <1>2, KeyIsBlob DEF Head_
    <3> QED BY <1>0, <3>1 DEF CollectionTypeOK, Commitment
  <2> DEFINE taken == [worker[w] EXCEPT !.pc = "pending", !.seen = Commitment(Key(w))]
             skipped(outcome) == [worker[w] EXCEPT !.pc = "record", !.outcome = outcome]
  <2>1. /\ taken \in Places /\ taken.pc = "pending"
        /\ taken.todo = worker[w].todo /\ taken.seen = Commitment(Key(w))
    BY <1>0, <2>0 DEF Places
  <2>2. \A outcome \in Outcomes \ {"deleted"} :
          /\ skipped(outcome) \in Places /\ skipped(outcome).pc = "record"
          /\ skipped(outcome).todo = worker[w].todo /\ skipped(outcome).outcome # "deleted"
    BY <1>0 DEF Places
  <2>3. \/ worker' = [worker EXCEPT ![w] = taken] /\ Commitment(Key(w)) = plan.expected[Key(w)]
        \/ worker' = [worker EXCEPT ![w] = skipped("changed_before_delete")]
        \/ worker' = [worker EXCEPT ![w] = skipped("unreadable_before_delete")]
    BY <1>2 DEF Head_, Step
  <2> HIDE DEF taken, skipped
  <2>4. PICK r \in Places :
          /\ worker' = [worker EXCEPT ![w] = r] /\ r.todo = worker[w].todo
          /\ \/ r.pc = "pending" /\ r.seen = plan.expected[Key(w)]
             \/ r.pc = "record" /\ r.outcome # "deleted"
    BY <2>1, <2>2, <2>3 DEF Outcomes
  <2>5. worker'[w] = r /\ Key(w)' = Key(w)
    BY <1>0, <2>4 DEF CollectionTypeOK, Key
  <2>6. WorkerOK(w)'
    BY <1>0, <1>2, <2>4, <2>5 DEF WorkerOK, Head_, markVars
  <2> QED BY <1>2, <2>4, <2>6, PlaceStep DEF Head_, markVars
<1> QED BY <1>1, <1>2

\* Appending an event, or finding the very event at its sequence, makes it one
\* of the journal's and leaves the others; otherwise the execution ends.
LEMMA EventRecorded ==
    ASSUME CollectionTypeOK, NEW w \in Workers, worker[w] \in Places,
           NEW event \in Events, NEW after, append_audit_event(w, event, after)
    PROVE  \/ Halt(w) /\ UNCHANGED journal
           \/ /\ worker' = [worker EXCEPT ![w] = after]
              /\ journal' \in Seq(Events)
              /\ \A other : InJournal(other)' <=> (other = event \/ InJournal(other))
<1>1. journal \in Seq(Events) /\ worker[w].seq \in Nat
  BY DEF CollectionTypeOK, Places
<1>2. CASE journal' = Append(journal, event) /\ Step(w, after)
  <2>1. /\ Append(journal, event) \in Seq(Events)
        /\ \A other : (\E i \in DOMAIN Append(journal, event) : Append(journal, event)[i] = other)
                        <=> (other = event \/ \E i \in DOMAIN journal : journal[i] = other)
    BY <1>1, Appended
  <2>2. \A other : InJournal(other)' <=> (other = event \/ InJournal(other))
    BY <1>2, <2>1, Zenon DEF InJournal
  <2> QED BY <1>2, <2>1, <2>2 DEF Step
<1>3. CASE /\ worker[w].seq < Len(journal) /\ UNCHANGED journal
           /\ journal[worker[w].seq + 1] = event /\ Step(w, after)
  <2>1. worker[w].seq + 1 \in DOMAIN journal
    BY <1>1, <1>3
  <2>2. InJournal(event)
    BY <1>3, <2>1 DEF InJournal
  <2>3. \A other : InJournal(other)' <=> InJournal(other)
    BY <1>3 DEF InJournal
  <2> QED BY <1>1, <1>3, <2>2, <2>3 DEF Step
<1> QED BY <1>2, <1>3 DEF append_audit_event

\* A step that records a worker's event keeps the invariant when the place
\* the worker moves to is in order, and a deleted event stands for a removal.
LEMMA EventStep ==
    ASSUME CollectionInv, NEW w \in Workers, NEW r \in Places, NEW event \in Events,
           worker' = [worker EXCEPT ![w] = r], WorkerOK(w)',
           journal' \in Seq(Events),
           \A other : InJournal(other)' <=> (other = event \/ InJournal(other)),
           event.outcome = "deleted" => event.key \in swept,
           UNCHANGED <<storeVars, markVars, swept>>
    PROVE  CollectionInv'
<1>0. CollectionTypeOK /\ WorkerInv /\ JournalAccounts
  BY DEF CollectionInv
<1>1. /\ journal' \in Seq(Events)
      /\ \A other : InJournal(other)' <=> (other = event \/ InJournal(other))
  OBVIOUS
<1>2. CollectionTypeOK'
  BY <1>0, <1>1 DEF CollectionTypeOK, storeVars, markVars
<1>3. WorkerInv'
  BY <1>0, <1>1, OthersKeepPlace DEF markVars
<1>4. JournalAccounts'
  <2>1. ASSUME NEW b \in swept' PROVE InJournal(Event(b, "delete_pending"))'
    BY <1>0, <1>1 DEF JournalAccounts, InJournal
  <2>2. ASSUME NEW k \in Blobs, InJournal(Event(k, "deleted"))' PROVE k \in swept'
    <3>1. CASE Event(k, "deleted") = event
      BY <3>1 DEF Event
    <3>2. CASE InJournal(Event(k, "deleted"))
      BY <1>0, <3>2 DEF JournalAccounts, Completed, InJournal
    <3> QED BY <1>1, <2>2, <3>1, <3>2
  <2> QED BY <2>1, <2>2 DEF JournalAccounts, Completed, InJournal
<1> QED BY <1>2, <1>3, <1>4 DEF CollectionInv

\* The two kinds of audit events keep the invariant.
LEMMA RecordStep ==
    ASSUME CollectionInv, NEW w \in Workers, RecordPending(w) \/ RecordOutcome(w)
    PROVE  CollectionInv'
<1>0. CollectionTypeOK /\ WorkerOK(w) /\ worker[w] \in Places
  BY DEF CollectionInv, CollectionTypeOK, WorkerInv
<1>1. Key(w) \in Blobs /\ worker[w].seq + 1 \in Nat
  <2>1. worker[w].seq \in Nat
    BY <1>0 DEF Places
  <2>2. worker[w].seq + 1 \in Nat
    BY <2>1
  <2> QED BY <1>0, <2>2, KeyIsBlob DEF WorkerOK, RecordPending, RecordOutcome
<1>2. CASE Halt(w) /\ UNCHANGED journal
  BY <1>2, HaltStep DEF RecordPending, RecordOutcome, markVars
<1>3. ASSUME RecordPending(w), ~(Halt(w) /\ UNCHANGED journal) PROVE CollectionInv'
  <2> DEFINE r == [worker[w] EXCEPT !.pc = "delete", !.seq = @ + 1]
             event == Event(Key(w), "delete_pending")
  <2>1. r \in Places /\ r.pc = "delete" /\ r.todo = worker[w].todo /\ r.seen = worker[w].seen
    BY <1>0, <1>1 DEF Places
  <2>2. event \in Events /\ event.outcome # "deleted"
    BY <1>1 DEF Event, Events, Outcomes
  <2>3. /\ worker' = [worker EXCEPT ![w] = r] /\ journal' \in Seq(Events)
        /\ \A other : InJournal(other)' <=> (other = event \/ InJournal(other))
    BY <1>0, <1>3, <2>2, EventRecorded DEF RecordPending
  <2> HIDE DEF r, event
  <2>4. worker'[w] = r /\ Key(w)' = Key(w)
    BY <1>0, <2>1, <2>3 DEF CollectionTypeOK, Key
  <2>5. InJournal(event)'
    <3>1. event' = event
      BY <2>4 DEF event, Event
    <3>2. \E i \in DOMAIN journal' : journal'[i] = event
      BY <2>3, Zenon DEF InJournal
    <3> QED BY <3>1, <3>2 DEF InJournal
  <2>6. WorkerOK(w)'
    BY <1>0, <1>3, <2>1, <2>4, <2>5 DEF WorkerOK, RecordPending, markVars, event
  <2> QED BY <1>3, <2>1, <2>2, <2>3, <2>6, EventStep DEF RecordPending
<1>4. ASSUME RecordOutcome(w), ~(Halt(w) /\ UNCHANGED journal) PROVE CollectionInv'
  <2> DEFINE r == [worker[w] EXCEPT !.pc = "head", !.seq = @ + 1,
                     !.todo = @ \ {Key(w)}, !.seen = 0, !.outcome = "none"]
             event == Event(Key(w), worker[w].outcome)
  <2>1. r \in Places /\ r.pc = "head"
    BY <1>0, <1>1 DEF Places, Outcomes
  <2>2. event \in Events /\ (event.outcome = "deleted" => event.key \in swept)
    BY <1>0, <1>1, <1>4 DEF Event, Events, Places, WorkerOK, RecordOutcome
  <2>3. /\ worker' = [worker EXCEPT ![w] = r] /\ journal' \in Seq(Events)
        /\ \A other : InJournal(other)' <=> (other = event \/ InJournal(other))
    BY <1>0, <1>4, <2>2, EventRecorded DEF RecordOutcome
  <2> HIDE DEF r, event
  <2>4. worker'[w] = r
    BY <1>0, <2>3 DEF CollectionTypeOK
  <2>5. WorkerOK(w)'
    BY <1>0, <1>4, <2>1, <2>4 DEF WorkerOK, RecordOutcome, markVars
  <2> QED BY <1>4, <2>1, <2>2, <2>3, <2>5, EventStep DEF RecordOutcome
<1> QED BY <1>2, <1>3, <1>4

\* The conditional delete keeps the invariant: its pending event precedes it.
LEMMA DeleteStep ==
    ASSUME CollectionInv, NEW w \in Workers, DeleteBlob(w)
    PROVE  CollectionInv'
<1>0. CollectionTypeOK /\ WorkerInv /\ WorkerOK(w) /\ worker[w] \in Places /\ JournalAccounts
  BY DEF CollectionInv, CollectionTypeOK, WorkerInv
<1>1. worker[w].pc = "delete" /\ Key(w) \in Blobs
  BY <1>0, KeyIsBlob DEF WorkerOK, DeleteBlob
<1>2. /\ present' \subseteq present
      /\ swept' = swept \/ swept' = swept \cup {Key(w)}
  BY DEF DeleteBlob
<1>3. PICK outcome \in {"deleted", "delete_failed", "changed_before_delete"} :
         /\ worker' = [worker EXCEPT ![w] = [worker[w] EXCEPT !.pc = "record", !.outcome = outcome]]
         /\ outcome = "deleted" => Key(w) \in swept'
  BY DEF DeleteBlob, Step
<1> DEFINE r == [worker[w] EXCEPT !.pc = "record", !.outcome = outcome]
<1>4. r \in Places /\ r.pc = "record" /\ r.todo = worker[w].todo /\ r.outcome = outcome
  BY <1>0 DEF Places, Outcomes
<1> HIDE DEF r
<1>5. worker' = [worker EXCEPT ![w] = r] /\ worker'[w] = r
  BY <1>0, <1>3 DEF CollectionTypeOK, r
<1>6. Key(w)' = Key(w)
  BY <1>4, <1>5 DEF Key
<1>7. WorkerOK(w)'
  BY <1>0, <1>1, <1>3, <1>4, <1>5, <1>6 DEF WorkerOK, DeleteBlob, markVars
<1>8. CollectionTypeOK'
  BY <1>0, <1>1, <1>2, <1>4, <1>5 DEF CollectionTypeOK, DeleteBlob, markVars
<1>9. \A event : InJournal(event) => InJournal(event)'
  BY DEF InJournal, DeleteBlob
<1>10. WorkerInv'
  BY <1>0, <1>2, <1>5, <1>7, <1>9, OthersKeepPlace DEF DeleteBlob, markVars
<1>11. JournalAccounts'
  BY <1>0, <1>1, <1>2 DEF JournalAccounts, Completed, WorkerOK, InJournal, DeleteBlob
<1> QED BY <1>8, <1>10, <1>11 DEF CollectionInv

\* The end of a pass keeps the invariant: no worker outlives it.
LEMMA NextPassStep == ASSUME CollectionInv, NextPass PROVE CollectionInv'
<1>1. NoPlan \in [expected : [Blobs -> Nat], cleared : SUBSET Occurrences]
  BY DEF NoPlan, NoListing
<1>2. CollectionTypeOK'
  BY <1>1 DEF CollectionInv, CollectionTypeOK, NextPass, storeVars
<1>3. WorkerInv'
  BY DEF NextPass, WorkerInv, WorkerOK
<1>4. JournalAccounts'
  BY DEF NextPass, JournalAccounts, Completed
<1> QED BY <1>2, <1>3, <1>4 DEF CollectionInv

\* The invariant is inductive.
LEMMA CollectionInvStep == CollectionInv /\ [CollectionNext]_vars => CollectionInv'
<1> SUFFICES ASSUME CollectionInv, [CollectionNext]_vars PROVE CollectionInv'
  OBVIOUS
<1>1. CASE UNCHANGED vars
  BY <1>1 DEF CollectionInv, CollectionTypeOK, WorkerInv, WorkerOK, JournalAccounts, Completed,
              InJournal, Key, vars, storeVars, markVars, sweepVars
<1>2. ASSUME NEW w \in Workers, Report(w) PROVE CollectionInv'
  BY <1>2, HaltStep DEF Report
<1>3. ASSUME NEW w \in Workers, WorkerDies(w) PROVE CollectionInv'
  BY <1>3, HaltStep DEF WorkerDies, markVars
<1> QED
  BY <1>1, <1>2, <1>3, WorldStep, MarkStep, TakeUpStep, RecordStep, DeleteStep, NextPassStep
     DEF CollectionNext, SweepStep

\* Every behaviour of the collector satisfies the invariant.
THEOREM CollectionInvariant == CollectionSpec => []CollectionInv
BY CollectionInvInit, CollectionInvStep, PTL DEF CollectionSpec

\* Every removal has its delete-pending event and every deleted event stands
\* for a removal, on any store, with any number of workers on one plan,
\* whatever calls fail, answers are lost or workers die.
THEOREM JournalAlwaysAccounts == CollectionSpec => []JournalAccounts
<1>1. CollectionInv => JournalAccounts
  BY DEF CollectionInv
<1> QED BY <1>1, CollectionInvariant, PTL
-------------------------------------------------------------------------------
(* Retention.  The version of a key orders its uploads, so a commitment    *)
(* that still stands says that nothing was uploaded since it was taken.    *)

\* Nothing was uploaded at the key since the first scan listed it.
Untouched(b) == scans[1].blobs[b] = version[b]

\* A commitment is never ahead of the key's uploads.
CommitmentInv ==
    \A b \in Blobs :
        /\ b \in present => version[b] >= 1
        /\ listing[b] <= version[b] /\ plan.expected[b] <= version[b]

\* An attempt whose blob is untouched since the first scan is at least as old
\* as that scan.
FirstScanInv ==
    Len(scans) >= 1 =>
        /\ \A b \in Blobs : scans[1].blobs[b] <= version[b]
        /\ \A o \in Occurrences :
              Untouched(BlobOf[o]) /\ attempt[o] # Idle => attempt[o] >= age

\* A second scan far enough from the first has seen every occurrence of an
\* untouched blob: whatever could still have landed is too old to be alive.
SecondScanInv ==
    Len(scans) = 2 =>
        /\ scans[2].apart <= age
        /\ scans[2].apart >= Separation =>
              \A o \in landed : Untouched(BlobOf[o]) => o \in scans[2].refs

\* Of a blob that still stands as the plan expects it no attempt is under way,
\* and every occurrence was cleared.
PlanInv ==
    \A o \in Occurrences :
        plan.expected[BlobOf[o]] # 0 /\ plan.expected[BlobOf[o]] = version[BlobOf[o]] =>
            attempt[o] = Idle /\ (o \in landed => o \in plan.cleared)

\* What the plan's deletes removed is gone, or was uploaded again since; before
\* there is a plan nothing was removed.
SweptInv ==
    /\ \A b \in swept : b \notin present \/ version[b] # plan.expected[b]
    /\ collector \in {"scan", "listed"} => swept = {}

RetentionInv ==
    /\ CollectionInv
    /\ CommitmentInv /\ FirstScanInv /\ SecondScanInv /\ PlanInv /\ SweptInv

\* The scans of a pass are scans.
LEMMA ScansAreScans ==
    ASSUME CollectionTypeOK
    PROVE  /\ Len(scans) \in {0, 1, 2} /\ (scans = <<>> <=> Len(scans) = 0)
           /\ Len(scans) >= 1 => scans[1] \in Scans
           /\ Len(scans) = 2 => scans[2] \in Scans
<1>1. scans \in Seq(Scans) /\ Len(scans) <= 2
  BY DEF CollectionTypeOK
<1>2. Len(scans) \in Nat
  BY <1>1
<1>3. Len(scans) \in {0, 1, 2}
  <2>1. \A n \in Nat : n <= 2 => n \in {0, 1, 2}
    OBVIOUS
  <2> QED BY <1>1, <1>2, <2>1, Zenon
<1>4. scans = <<>> <=> Len(scans) = 0
  BY <1>1
<1>5. Len(scans) >= 1 => scans[1] \in Scans
  BY <1>1, <1>2
<1>6. ASSUME Len(scans) = 2 PROVE scans[2] \in Scans
  <2>1. DOMAIN scans = 1..2
    BY <1>1, <1>6
  <2>2. 2 \in DOMAIN scans
    BY <2>1
  <2> QED BY <1>1, <2>2
<1> QED BY <1>3, <1>4, <1>5, <1>6

\* The initial state satisfies the invariant.
LEMMA RetentionInvInit == CollectionInit => RetentionInv
<1> SUFFICES ASSUME CollectionInit PROVE RetentionInv
  OBVIOUS
<1>1. Len(scans) = 0
  BY DEF CollectionInit
<1>2. FirstScanInv /\ SecondScanInv
  BY <1>1 DEF FirstScanInv, SecondScanInv
<1>3. CommitmentInv /\ PlanInv /\ SweptInv
  BY CollectionAssumption
     DEF CollectionAssumption, CollectionInit, CommitmentInv, PlanInv, SweptInv, NoListing, NoPlan
<1> QED BY <1>2, <1>3, CollectionInvInit DEF RetentionInv

\* An upload keeps the invariant: it ends every commitment to its key.
LEMMA UploadKeeps ==
    ASSUME RetentionInv, NEW o \in Occurrences, CompleteBlob(o)
    PROVE  (CommitmentInv /\ FirstScanInv /\ SecondScanInv /\ PlanInv /\ SweptInv)'
<1> DEFINE k == BlobOf[o]
<1>0. CollectionTypeOK
  BY DEF RetentionInv, CollectionInv
<1>1. k \in Blobs /\ \A p \in Occurrences : BlobOf[p] \in Blobs
  BY CollectionAssumption DEF CollectionAssumption
<1>2. \A b \in Blobs : version[b] \in Nat /\ listing[b] \in Nat /\ plan.expected[b] \in Nat
  BY <1>0 DEF CollectionTypeOK
<1>3. \A b \in Blobs : b # k => version'[b] = version[b]
  BY <1>0 DEF CollectionTypeOK, CompleteBlob
<1>4. version'[k] = version[k] + 1
  BY <1>0, <1>1 DEF CollectionTypeOK, CompleteBlob
<1>5. \A p \in Occurrences : BlobOf[p] # k => attempt'[p] = attempt[p]
  BY <1>0 DEF CollectionTypeOK, CompleteBlob
<1>6. UNCHANGED <<landed, collector, listing, scans, age, plan, swept>>
  BY DEF CompleteBlob, markVars, sweepVars
<1>7. present' = present \cup {k}
  BY DEF CompleteBlob
<1>8. CommitmentInv'
  BY <1>2, <1>3, <1>4, <1>6, <1>7 DEF RetentionInv, CommitmentInv
<1>9. Len(scans) >= 1 => /\ \A b \in Blobs : scans[1].blobs[b] \in Nat /\ scans[1].blobs[b] <= version[b]
                         /\ ~Untouched(k)'
  <2>1. Len(scans) >= 1 => \A b \in Blobs : scans[1].blobs[b] \in Nat
    BY <1>0, ScansAreScans DEF Scans
  <2> QED BY <1>1, <1>2, <1>4, <1>6, <2>1 DEF RetentionInv, FirstScanInv, Untouched
<1>10. FirstScanInv'
  BY <1>1, <1>2, <1>3, <1>4, <1>5, <1>6, <1>9 DEF RetentionInv, FirstScanInv, Untouched
<1>11. SecondScanInv'
  <2>1. \A p \in landed : p \in Occurrences
    BY <1>0 DEF CollectionTypeOK
  <2>2. Len(scans) = 2 => Len(scans) >= 1
    OBVIOUS
  <2> QED BY <1>1, <1>3, <1>6, <1>9, <2>1, <2>2 DEF RetentionInv, SecondScanInv, Untouched
<1>12. PlanInv'
  BY <1>1, <1>2, <1>3, <1>4, <1>5, <1>6 DEF RetentionInv, CommitmentInv, PlanInv
<1>13. SweptInv'
  <2>1. swept \subseteq Blobs
    BY <1>0 DEF CollectionTypeOK
  <2> QED BY <1>2, <1>3, <1>4, <1>6, <1>7, <2>1 DEF RetentionInv, CommitmentInv, SweptInv
<1> QED BY <1>8, <1>10, <1>11, <1>12, <1>13

\* The end of an attempt keeps the invariant: an occurrence can no longer
\* land on a blob that two scans far enough apart found untouched.
LEMMA AttemptEndKeeps ==
    ASSUME RetentionInv, NEW o \in Occurrences, LandOccurrence(o) \/ DropAttempt(o)
    PROVE  (CommitmentInv /\ FirstScanInv /\ SecondScanInv /\ PlanInv /\ SweptInv)'
<1>0. CollectionTypeOK
  BY DEF RetentionInv, CollectionInv
<1>1. UNCHANGED <<present, version, collector, listing, scans, age, plan, swept>>
  BY DEF LandOccurrence, DropAttempt, markVars, sweepVars
<1>2. attempt' = [attempt EXCEPT ![o] = Idle] /\ attempt[o] # Idle
  BY DEF LandOccurrence, DropAttempt
<1>3. \A p \in Occurrences : attempt'[p] = Idle \/ attempt'[p] = attempt[p]
  BY <1>0, <1>2 DEF CollectionTypeOK
<1>4. landed' = landed \/ landed' = landed \cup {o}
  BY DEF LandOccurrence, DropAttempt
<1>5. CommitmentInv' /\ SweptInv'
  BY <1>1 DEF RetentionInv, CommitmentInv, SweptInv
<1>6. FirstScanInv'
  BY <1>1, <1>3 DEF RetentionInv, FirstScanInv, Untouched
<1>7. SecondScanInv'
  <2>1. ASSUME Len(scans) = 2, scans[2].apart >= Separation PROVE ~Untouched(BlobOf[o])
    <3>1. scans[2].apart \in Nat /\ age \in Nat
      BY <1>0, <2>1, ScansAreScans DEF CollectionTypeOK, Scans
    <3>2. attempt[o] \in 0..AttemptTime
      BY <1>0, <1>2 DEF CollectionTypeOK
    <3>3. scans[2].apart <= age
      BY <2>1 DEF RetentionInv, SecondScanInv
    <3>4. Untouched(BlobOf[o]) => attempt[o] >= age
      BY <1>2, <2>1 DEF RetentionInv, FirstScanInv
    <3> QED BY <2>1, <3>1, <3>2, <3>3, <3>4, CollectionAssumption DEF CollectionAssumption
  <2> QED BY <1>1, <1>4, <2>1 DEF RetentionInv, SecondScanInv, Untouched
<1>8. PlanInv'
  BY <1>1, <1>2, <1>3, <1>4 DEF RetentionInv, PlanInv
<1> QED BY <1>5, <1>6, <1>7, <1>8

\* The clock keeps the invariant: attempts and the pass age together.
LEMMA TickKeeps ==
    ASSUME RetentionInv, Tick
    PROVE  (CommitmentInv /\ FirstScanInv /\ SecondScanInv /\ PlanInv /\ SweptInv)'
<1>0. CollectionTypeOK
  BY DEF RetentionInv, CollectionInv
<1>1. UNCHANGED <<present, version, landed, collector, listing, scans, plan, swept>>
  BY DEF Tick, sweepVars
<1>2. age \in Nat /\ age' \in Nat /\ age <= age' /\ age' <= age + 1
  BY <1>0, CollectionAssumption DEF CollectionAssumption, CollectionTypeOK, Tick, Aged
<1>3. ASSUME NEW o \in Occurrences
      PROVE  /\ attempt[o] = Idle => attempt'[o] = Idle
             /\ attempt'[o] # Idle => /\ attempt[o] # Idle /\ attempt[o] \in Nat
                                      /\ attempt'[o] = attempt[o] + 1
  BY <1>0, CollectionAssumption DEF CollectionAssumption, CollectionTypeOK, Tick
<1>4. CommitmentInv' /\ SweptInv'
  BY <1>1 DEF RetentionInv, CommitmentInv, SweptInv
<1>5. FirstScanInv'
  BY <1>1, <1>2, <1>3 DEF RetentionInv, FirstScanInv, Untouched
<1>6. SecondScanInv'
  <2>1. Len(scans) = 2 => scans[2].apart \in Nat
    BY <1>0, ScansAreScans DEF Scans
  <2>2. Len(scans) = 2 => scans[2].apart <= age'
    BY <1>2, <2>1 DEF RetentionInv, SecondScanInv
  <2> QED BY <1>1, <2>2 DEF RetentionInv, SecondScanInv, Untouched
<1>7. PlanInv'
  BY <1>1, <1>3 DEF RetentionInv, PlanInv
<1> QED BY <1>4, <1>5, <1>6, <1>7

\* Listing keeps the invariant: it shows no more than what was uploaded.
LEMMA ListKeeps ==
    ASSUME RetentionInv, ListBlobs
    PROVE  (CommitmentInv /\ FirstScanInv /\ SecondScanInv /\ PlanInv /\ SweptInv)'
<1>0. CollectionTypeOK
  BY DEF RetentionInv, CollectionInv
<1>1. UNCHANGED <<present, version, landed, attempt, scans, age, plan, swept>>
  BY DEF ListBlobs, storeVars, sweepVars
<1>2. \A b \in Blobs : Commitment(b) <= version[b]
  <2>1. \A b \in Blobs : version[b] \in Nat /\ (b \in present => version[b] >= 1)
    BY <1>0 DEF CollectionTypeOK, RetentionInv, CommitmentInv
  <2> QED BY <2>1 DEF Commitment
<1>3. CommitmentInv'
  BY <1>1, <1>2 DEF RetentionInv, CommitmentInv, ListBlobs
<1>4. SweptInv'
  BY <1>1 DEF RetentionInv, SweptInv, ListBlobs
<1> QED BY <1>1, <1>3, <1>4 DEF RetentionInv, FirstScanInv, SecondScanInv, PlanInv, Untouched

\* A completed scan keeps the invariant: the first starts the clock of the
\* pass, the second sees whatever has landed.
LEMMA ScanKeeps ==
    ASSUME RetentionInv, CompleteScan
    PROVE  (CommitmentInv /\ FirstScanInv /\ SecondScanInv /\ PlanInv /\ SweptInv)'
<1> DEFINE scan == [blobs |-> listing, refs |-> landed, apart |-> age]
<1>0. CollectionTypeOK /\ Len(scans) < 2
  BY DEF RetentionInv, CollectionInv, CollectionTypeOK, CompleteScan
<1>1. UNCHANGED <<present, version, landed, attempt, plan, swept>>
  BY DEF CompleteScan, storeVars, sweepVars
<1>2. CommitmentInv'
  <2>1. \A b \in Blobs : listing'[b] = 0 /\ version[b] \in Nat
    BY <1>0 DEF CollectionTypeOK, CompleteScan, NoListing
  <2> QED BY <1>1, <2>1 DEF RetentionInv, CommitmentInv
<1>3. PlanInv' /\ SweptInv'
  BY <1>1 DEF RetentionInv, PlanInv, SweptInv, CompleteScan
<1>4. scan \in Scans
  BY <1>0 DEF CollectionTypeOK, Scans
<1>5. CASE UNCHANGED <<scans, age>>
  BY <1>1, <1>2, <1>3, <1>5 DEF RetentionInv, FirstScanInv, SecondScanInv, Untouched
<1>6. CASE scans' = Append(scans, scan) /\ age' = IF scans = <<>> THEN 0 ELSE age
  <2>0. scans \in Seq(Scans)
    BY <1>0 DEF CollectionTypeOK
  <2>1. /\ Len(scans') = Len(scans) + 1 /\ scans'[Len(scans) + 1] = scan
        /\ \A i \in 1..Len(scans) : scans'[i] = scans[i]
    BY <1>4, <1>6, <2>0, Appended
  <2> HIDE DEF scan
  <2>2. CASE Len(scans) = 0
    <3>1. Len(scans') = 1 /\ scans'[1] = scan /\ age' = 0
      BY <1>0, <1>6, <2>1, <2>2, ScansAreScans
    <3>2. \A b \in Blobs : scans'[1].blobs[b] <= version'[b]
      BY <1>1, <3>1 DEF RetentionInv, CommitmentInv, scan
    <3>3. \A o \in Occurrences : attempt'[o] # Idle => attempt'[o] >= age'
      BY <1>0, <1>1, <3>1, CollectionAssumption DEF CollectionAssumption, CollectionTypeOK
    <3>4. FirstScanInv' /\ SecondScanInv'
      BY <3>1, <3>2, <3>3 DEF FirstScanInv, SecondScanInv
    <3> QED BY <1>2, <1>3, <3>4
  <2>3. CASE Len(scans) = 1
    <3>1. 1 \in 1..Len(scans) /\ Len(scans) + 1 = 2
      BY <2>3
    <3>2. Len(scans') = 2 /\ scans'[1] = scans[1] /\ scans'[2] = scan /\ age' = age
      BY <1>0, <1>6, <2>1, <2>3, <3>1, ScansAreScans
    <3>3. FirstScanInv'
      BY <1>1, <2>3, <3>2 DEF RetentionInv, FirstScanInv, Untouched
    <3>4. scan.apart = age /\ scan.refs = landed /\ age \in Nat
      BY <1>0 DEF scan, CollectionTypeOK
    <3>5. SecondScanInv'
      BY <1>1, <3>2, <3>4 DEF SecondScanInv
    <3> QED BY <1>2, <1>3, <3>3, <3>5
  <2> QED BY <1>0, <2>2, <2>3, ScansAreScans
<1> QED BY <1>5, <1>6 DEF CompleteScan

\* Marking keeps the invariant: what is marked and still untouched has no
\* attempt under way, and every occurrence of it was seen and cleared.
LEMMA BuildKeeps ==
    ASSUME RetentionInv, Build
    PROVE  (CommitmentInv /\ FirstScanInv /\ SecondScanInv /\ PlanInv /\ SweptInv)'
<1>0. CollectionTypeOK /\ Len(scans) = 2 /\ scans[1] \in Scans /\ scans[2] \in Scans
  BY ScansAreScans DEF RetentionInv, CollectionInv, Build
<1>1. UNCHANGED <<present, version, landed, attempt, listing, swept>>
  BY DEF Build, storeVars, sweepVars
<1>2. \A b \in Blobs : scans[1].blobs[b] \in Nat /\ scans[1].blobs[b] <= version[b] /\ version[b] \in Nat
  BY <1>0 DEF RetentionInv, FirstScanInv, Scans, CollectionTypeOK
<1>3. CASE scans[2].apart >= Separation
  <2>1. /\ plan'.expected = [b \in Blobs |-> IF Marked(b) THEN scans[1].blobs[b] ELSE 0]
        /\ plan'.cleared = { o \in Occurrences : eligible_at(o) }
        /\ scans' = <<>>
    BY <1>3 DEF Build
  <2>2. Len(scans') = 0
    BY <2>1
  <2>3. FirstScanInv' /\ SecondScanInv'
    BY <2>2 DEF FirstScanInv, SecondScanInv
  <2>4. CommitmentInv'
    BY <1>1, <1>2, <2>1 DEF RetentionInv, CommitmentInv
  <2>5. PlanInv'
    <3> SUFFICES ASSUME NEW o \in Occurrences, plan'.expected[BlobOf[o]] # 0,
                        plan'.expected[BlobOf[o]] = version[BlobOf[o]]
                 PROVE  attempt[o] = Idle /\ (o \in landed => o \in plan'.cleared)
      BY <1>1 DEF PlanInv
    <3>1. BlobOf[o] \in Blobs
      BY CollectionAssumption DEF CollectionAssumption
    <3>2. Marked(BlobOf[o]) /\ Untouched(BlobOf[o])
      BY <2>1, <3>1 DEF Untouched
    <3>3. attempt[o] = Idle
      <4>1. scans[2].apart \in Nat /\ age \in Nat
        BY <1>0 DEF CollectionTypeOK, Scans
      <4>2. scans[2].apart <= age /\ (attempt[o] # Idle => attempt[o] >= age)
        BY <1>0, <3>2 DEF RetentionInv, FirstScanInv, SecondScanInv
      <4>3. attempt[o] \in (0..AttemptTime) \cup {Idle}
        BY <1>0 DEF CollectionTypeOK
      <4> QED BY <1>3, <4>1, <4>2, <4>3, CollectionAssumption DEF CollectionAssumption
    <3>4. ASSUME o \in landed PROVE o \in plan'.cleared
      <4>1. o \in scans[2].refs
        BY <1>0, <1>3, <3>2, <3>4 DEF RetentionInv, SecondScanInv
      <4>2. eligible_at(o)
        BY <3>2, <4>1 DEF Marked, ReferencesTo
      <4> QED BY <2>1, <4>2
    <3> QED BY <3>3, <3>4
  <2>6. SweptInv'
    BY <1>1 DEF RetentionInv, SweptInv, Build
  <2> QED BY <2>3, <2>4, <2>5, <2>6
<1>4. CASE ~(scans[2].apart >= Separation)
  <2>1. scans' = <<scans[1]>> /\ UNCHANGED <<plan, age>>
    BY <1>4 DEF Build
  <2>2. Len(scans') = 1 /\ scans'[1] = scans[1]
    BY <2>1
  <2>3. SweptInv'
    BY <1>1 DEF RetentionInv, SweptInv, Build
  <2> QED BY <1>0, <1>1, <2>1, <2>2, <2>3
          DEF RetentionInv, CommitmentInv, FirstScanInv, SecondScanInv, PlanInv, Untouched
<1> QED BY <1>3, <1>4

\* The sweep's one change of the store keeps the invariant.
LEMMA DeleteKeeps ==
    ASSUME RetentionInv, NEW w \in Workers, DeleteBlob(w)
    PROVE  (CommitmentInv /\ FirstScanInv /\ SecondScanInv /\ PlanInv /\ SweptInv)'
<1>1. UNCHANGED <<version, landed, attempt, collector, listing, scans, age, plan>>
  BY DEF DeleteBlob, markVars
<1>2. \/ UNCHANGED <<present, swept>>
      \/ present' = present \ {Key(w)} /\ swept' = swept \cup {Key(w)}
  BY DEF DeleteBlob
<1>3. CommitmentInv'
  BY <1>1, <1>2 DEF RetentionInv, CommitmentInv
<1>4. FirstScanInv' /\ SecondScanInv' /\ PlanInv'
  BY <1>1 DEF RetentionInv, FirstScanInv, SecondScanInv, PlanInv, Untouched
<1>5. collector \in {"marked", "reported"}
  BY DEF RetentionInv, CollectionInv, WorkerInv, WorkerOK, DeleteBlob
<1>6. SweptInv'
  BY <1>1, <1>2, <1>5 DEF RetentionInv, SweptInv
<1> QED BY <1>3, <1>4, <1>6

\* Everything else a worker, the operator or the authority does leaves the
\* store, the scans and the plan alone, or ends the pass.
LEMMA RestKeeps ==
    ASSUME RetentionInv,
           \/ UNCHANGED <<storeVars, listing, scans, age, plan, swept>>
                /\ (collector' = collector \/ collector' = "reported")
           \/ NextPass
    PROVE  (CommitmentInv /\ FirstScanInv /\ SecondScanInv /\ PlanInv /\ SweptInv)'
<1>1. CASE /\ UNCHANGED <<storeVars, listing, scans, age, plan, swept>>
           /\ collector' = collector \/ collector' = "reported"
  BY <1>1 DEF RetentionInv, CommitmentInv, FirstScanInv, SecondScanInv, PlanInv, SweptInv,
              Untouched, storeVars
<1>2. CASE NextPass
  <2>1. UNCHANGED <<present, version, landed, attempt, listing, scans, age>>
    BY <1>2 DEF NextPass, storeVars
  <2>2. \A b \in Blobs : plan'.expected[b] = 0 /\ version[b] \in Nat
    BY <1>2 DEF NextPass, NoPlan, NoListing, RetentionInv, CollectionInv, CollectionTypeOK
  <2>3. \A o \in Occurrences : BlobOf[o] \in Blobs
    BY CollectionAssumption DEF CollectionAssumption
  <2>4. CommitmentInv' /\ PlanInv'
    BY <2>1, <2>2, <2>3 DEF RetentionInv, CommitmentInv, PlanInv
  <2>5. FirstScanInv' /\ SecondScanInv'
    BY <2>1 DEF RetentionInv, FirstScanInv, SecondScanInv, Untouched
  <2>6. SweptInv'
    BY <1>2 DEF NextPass, SweptInv
  <2> QED BY <2>4, <2>5, <2>6
<1> QED BY <1>1, <1>2

\* The invariant is inductive.
LEMMA RetentionInvStep == RetentionInv /\ [CollectionNext]_vars => RetentionInv'
<1> SUFFICES ASSUME RetentionInv, [CollectionNext]_vars PROVE RetentionInv'
  OBVIOUS
<1>1. CollectionInv'
  BY CollectionInvStep DEF RetentionInv
<1> SUFFICES (CommitmentInv /\ FirstScanInv /\ SecondScanInv /\ PlanInv /\ SweptInv)'
  BY <1>1 DEF RetentionInv
<1>2. ASSUME NEW o \in Occurrences, Tombstone(o) \/ LegalHold(o) \/ Release(o)
      PROVE  (CommitmentInv /\ FirstScanInv /\ SecondScanInv /\ PlanInv /\ SweptInv)'
  BY <1>2, RestKeeps DEF Tombstone, LegalHold, Release, markVars, sweepVars
<1>3. ASSUME NEW w \in Workers, \/ Start(w) \/ Head_(w) \/ Report(w) \/ WorkerDies(w)
                                \/ RecordPending(w) \/ RecordOutcome(w)
      PROVE  (CommitmentInv /\ FirstScanInv /\ SecondScanInv /\ PlanInv /\ SweptInv)'
  BY <1>3, RestKeeps DEF Start, Head_, Report, WorkerDies, RecordPending, RecordOutcome, markVars
<1>4. CASE UNCHANGED vars
  BY <1>4, RestKeeps DEF vars, markVars, sweepVars
<1> QED
  BY <1>2, <1>3, <1>4, UploadKeeps, AttemptEndKeeps, TickKeeps, ListKeeps, ScanKeeps, BuildKeeps,
     DeleteKeeps, RestKeeps DEF CollectionNext, SweepStep

\* Every behaviour of the collector satisfies the invariant.
THEOREM RetentionInvariant == CollectionSpec => []RetentionInv
BY RetentionInvInit, RetentionInvStep, PTL DEF CollectionSpec

\* On a store that exposes versions the sweep never removes content that a
\* retained occurrence names, and never removes again what was uploaded after
\* its removal, because no ingest attempt lives as long as two scans lie
\* apart.
THEOREM RetainedContentStays ==
    ASSUME Versioned
    PROVE  CollectionSpec => RetainedContentKept
<1> DEFINE Kept == \A b \in present \ present' :
                      landed \cap ReferencesTo(b) \subseteq plan.cleared /\ b \notin swept
<1>1. RetentionInv /\ [CollectionNext]_vars => [Kept]_vars
  <2> SUFFICES ASSUME RetentionInv, CollectionNext, NEW b \in present \ present'
               PROVE  landed \cap ReferencesTo(b) \subseteq plan.cleared /\ b \notin swept
    BY DEF vars
  <2>0. CollectionTypeOK /\ WorkerInv
    BY DEF RetentionInv, CollectionInv
  <2>1. PICK w \in Workers : DeleteBlob(w)
    BY DEF CollectionNext, SweepStep, CompleteBlob, LandOccurrence, DropAttempt, Tombstone, LegalHold,
           Release, Tick, ListBlobs, CompleteScan, Build, NextPass, Start, Head_, RecordPending,
           RecordOutcome, Report, WorkerDies, storeVars
  <2>2. b = Key(w) /\ Commitment(b) = worker[w].seen
    BY <2>1 DEF DeleteBlob
  <2>3. worker[w].seen = plan.expected[b]
    BY <2>0, <2>1, <2>2 DEF WorkerInv, WorkerOK, DeleteBlob
  <2>4. b \in Blobs /\ Commitment(b) = version[b] /\ version[b] >= 1 /\ version[b] \in Nat
    BY <2>0 DEF CollectionTypeOK, RetentionInv, CommitmentInv, Commitment
  <2>5. plan.expected[b] = version[b] /\ plan.expected[b] # 0
    BY <2>2, <2>3, <2>4
  <2>6. b \notin swept
    BY <2>5 DEF RetentionInv, SweptInv
  <2>7. \A o \in landed \cap ReferencesTo(b) : o \in plan.cleared
    BY <2>5 DEF RetentionInv, PlanInv, ReferencesTo
  <2> QED BY <2>6, <2>7
<1> QED BY <1>1, RetentionInvariant, PTL DEF CollectionSpec, RetainedContentKept
===============================================================================
