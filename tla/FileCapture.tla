---------------------------- MODULE FileCapture ----------------------------
(***************************************************************************)
(* Capture of one file source.  A harness owns the file and appends to it, *)
(* truncates it, rewrites it in place or replaces it whenever it likes; a  *)
(* capture pass (next_chunk of an adapter) looks at it in separate system  *)
(* calls: it stats the path, reads a header to check the format, and reads *)
(* the whole file.  The generation tracker of the adapter SDK compares the *)
(* result with the last acknowledged observation and decides whether the   *)
(* generation continues; the cursor selects the bytes to emit.             *)
(*                                                                         *)
(* Two kinds of stream share the tracker: "jsonl" emits the complete       *)
(* records past its cursor, "object" emits the whole file once per digest. *)
(* A byte is one of three letters, Newline among them.  A SHA-256 digest   *)
(* is the content it was taken of and whether one of its 32 bytes is a     *)
(* newline.                                                                *)
(***************************************************************************)
EXTENDS Integers, Sequences, FiniteSetsExt, SequencesExt

CONSTANTS
    Newline, Plain, Account,    \* the letters a file is made of
    Contents,       \* what the harness may leave in the file
    BrokenDigests,  \* the contents whose digest has a newline byte in it
    Inodes,         \* the identities (device, inode) a path may resolve to
    HeaderBytes,    \* MAX_HEADER_BYTES, the window of the format probe
    MaxChanges,     \* bound on the harness's changes
    MaxRestarts,    \* bound on the restarts of the capturing process
    None            \* no file, no tracker, nothing read yet

VARIABLES
    file,       \* the file the path names: [inode, bytes], or None
    changes,    \* how often the harness has changed it
    restarts,   \* how often the capturing process has started again
    kind,       \* the stream's kind, fixed when the source is discovered
    format,     \* the format discovery detected for the source
    pc,         \* where the pass is: "idle", "probe", "open", "read"
    identity,   \* what the pass's stat returned
    snapshot,   \* the file the pass has open: [inode, bytes]
    steady,     \* history: at every moment since the pass's stat the file
                \* has been the acknowledged one, grown or as it was
    generation, \* the source's latest generation: [number, cause]
    acknowledged,   \* the tracker's AcknowledgedSource: [identity, content]
    cursor,     \* CaptureCursor: [position, records]
    lastDigest, \* ObjectCapture's last_digest
    sequence,   \* number of the next chunk
    captured    \* what was emitted under the current generation

harness == <<file, changes>>
source  == <<kind, format>>
pass    == <<pc, identity, snapshot, steady>>
tracker == <<generation, acknowledged>>
stream  == <<cursor, lastDigest, sequence, captured>>
vars    == <<file, changes, restarts, kind, format, pc, identity, snapshot,
             steady, generation, acknowledged, cursor, lastDigest, sequence,
             captured>>

Letters == {Newline, Plain, Account}

ASSUME ContentsAssumption == Contents \subseteq Seq(Letters)

\* A path resolves to some inode, and None is neither a file nor a digest
\* nor an acknowledgement.
ASSUME NoneAssumption ==
    /\ Inodes # {}
    /\ None \notin Seq(Letters)
    /\ None \notin [inode : Inodes, bytes : Contents]
    /\ None \notin [identity : Inodes, content : Seq(Letters \cup Seq(Letters))]

Files == [inode : Inodes, bytes : Contents]
----------------------------------------------------------------------------
(***************************************************************************)
(* Record boundaries and formats.                                          *)
(***************************************************************************)

LastNewline(s) == Max({0} \cup {i \in 1 .. Len(s) : s[i] = Newline})

\* Every byte through the last newline.
CompletePrefix(s) == SubSeq(s, 1, LastNewline(s))

RecordCount(s) == Cardinality({i \in 1 .. Len(s) : s[i] = Newline})

\* The offset at which the last record of a complete prefix begins.
LastRecordStart(p) == LastNewline(SubSeq(p, 1, Len(p) - 1))

\* The format the header window shows.  A record of the dialect is a line
\* with a letter other than Newline on it, and Account marks the members
\* that make it version 2; a sidecar begins, after blanks, with an object.
Detect(k, s) ==
    LET window == SubSeq(s, 1, Min({Len(s), HeaderBytes}))
        lines  == IF k = "jsonl" THEN CompletePrefix(window) ELSE window
        text   == SelectSeq(lines, LAMBDA b : b # Newline)
    IN IF text = <<>> THEN "unknown"
       ELSE IF k = "jsonl" THEN IF Account \in ToSet(text) THEN "v2" ELSE "v1"
       ELSE IF text[1] = Plain THEN "sidecar" ELSE "unknown"

FileFormat == IF file = None THEN None ELSE Detect(kind, file.bytes)

\* The digest of an object followed by a newline.  All digests are of one
\* length; where one has a newline byte of its own, its last record is not
\* the whole of it.
DigestProbe(bytes) ==
    <<bytes, IF bytes \in BrokenDigests THEN Newline ELSE Plain, Newline>>

\* What the tracker is shown: a log itself, or the probe of an object.
Tracked(bytes) == IF kind = "jsonl" THEN bytes ELSE DigestProbe(bytes)
----------------------------------------------------------------------------
(***************************************************************************)
(* The generation tracker.                                                 *)
(***************************************************************************)

Acknowledge(i, s) == [identity |-> i, content |-> CompletePrefix(s)]

\* A decision taken from the digest of everything observed, not of as much
\* as was acknowledged.
DetectByWhole(ack, i, s) ==
    IF i # ack.identity THEN "FileIdentityChange"
    ELSE IF CompletePrefix(s) = ack.content THEN "Continue"
    ELSE IF Len(CompletePrefix(s)) < Len(ack.content) THEN "Truncation"
    ELSE "DigestChange"

\* What an observation means for the acknowledged generation, by the fixed
\* precedence of the decision table.  The head is what precedes the last
\* acknowledged record.
DetectGeneration(ack, i, s) ==
    LET prefix   == CompletePrefix(s)
        complete == Len(prefix)
        start    == LastRecordStart(ack.content)
        sameHead == SubSeq(prefix, 1, start) = SubSeq(ack.content, 1, start)
    IN IF i # ack.identity THEN "FileIdentityChange"
       ELSE IF complete < Len(ack.content)
            THEN IF complete >= start /\ ~sameHead THEN "Rewind" ELSE "Truncation"
       ELSE IF SubSeq(prefix, 1, Len(ack.content)) = ack.content THEN "Continue"
       ELSE IF sameHead THEN "TailMismatch"
       ELSE IF complete = Len(ack.content) THEN "IncompatibleRewrite"
       ELSE "DigestChange"

Decision(i, s) == IF acknowledged = None THEN "Begin"
                  ELSE DetectGeneration(acknowledged, i, s)

Rotated(decision) == decision \notin {"Begin", "Continue"}

\* FileGenerationTracker::begin and ::observe: open a generation when the
\* decision is a rotation, and acknowledge the observation either way.
Observe(decision, i, s) ==
    /\ generation' = IF decision = "Continue" THEN generation
                     ELSE [number |-> generation.number + 1,
                           cause  |-> IF decision = "Begin" THEN "Initial"
                                      ELSE decision]
    /\ acknowledged' = Acknowledge(i, s)

NewCursor == [position |-> 0, records |-> 0]

\* A cursor that moves past the torn tail it did not emit.
EmitPastTail(rotated, bytes) ==
    LET from  == IF rotated THEN NewCursor ELSE cursor
        chunk == CompletePrefix(SubSeq(bytes, from.position + 1, Len(bytes)))
    IN /\ cursor' = [position |-> Max({from.position, Len(bytes)}),
                     records  |-> from.records + RecordCount(chunk)]
       /\ sequence' = sequence + (IF chunk = <<>> THEN 0 ELSE 1)
       /\ captured' = (IF rotated THEN <<>> ELSE captured) \o chunk
       /\ UNCHANGED lastDigest

\* JsonlCapture after the tracker: a rotation starts the cursor over, then
\* the cursor takes the records completed past it.  A snapshot shorter than
\* the cursor is refused and moves nothing.
EmitRecords(rotated, bytes) ==
    LET from  == IF rotated THEN NewCursor ELSE cursor
        chunk == CompletePrefix(SubSeq(bytes, from.position + 1, Len(bytes)))
        first == IF rotated THEN 0 ELSE sequence
        prior == IF rotated THEN <<>> ELSE captured
    IN /\ UNCHANGED lastDigest
       /\ IF Len(bytes) < from.position
          THEN UNCHANGED <<cursor, sequence, captured>>
          ELSE /\ cursor' = [position |-> from.position + Len(chunk),
                             records  |-> from.records + RecordCount(chunk)]
               /\ sequence' = first + (IF chunk = <<>> THEN 0 ELSE 1)
               /\ captured' = prior \o chunk

\* ObjectCapture after the tracker: the whole object, once for each
\* generation or changed digest; the numbering runs on across generations.
EmitObject(rotated, bytes) ==
    LET fresh == (rotated \/ lastDigest # bytes) /\ bytes # <<>>
        prior == IF rotated THEN <<>> ELSE captured
    IN /\ lastDigest' = bytes
       /\ sequence' = sequence + (IF fresh THEN 1 ELSE 0)
       /\ captured' = IF fresh THEN prior \o bytes ELSE prior
       /\ UNCHANGED cursor

\* A rotation that forgets to start the cursor over.
EmitKeepingCursor(rotated, bytes) ==
    IF kind = "jsonl" THEN EmitRecords(FALSE, bytes)
                      ELSE EmitObject(rotated, bytes)

Emit(rotated, bytes) == IF kind = "jsonl" THEN EmitRecords(rotated, bytes)
                                          ELSE EmitObject(rotated, bytes)
----------------------------------------------------------------------------
(***************************************************************************)
(* The harness and the capturing process.                                  *)
(***************************************************************************)

CaptureInit ==
    /\ file \in [inode : {CHOOSE i \in Inodes : TRUE}, bytes : Contents]
    /\ changes = 0
    /\ restarts = 0
    /\ kind \in {"jsonl", "object"}
    /\ format = Detect(kind, file.bytes)
    /\ format # "unknown"
    /\ pc = "idle"
    /\ identity = None
    /\ snapshot = None
    /\ steady = FALSE
    /\ generation = [number |-> 0, cause |-> None]
    /\ acknowledged = None
    /\ cursor = NewCursor
    /\ lastDigest = None
    /\ sequence = 0
    /\ captured = <<>>

\* A file is the one the tracker acknowledged, and what was acknowledged of
\* it is still its beginning.
Intact(f) ==
    /\ acknowledged # None
    /\ f # None
    /\ f.inode = acknowledged.identity
    /\ IsPrefix(acknowledged.content, Tracked(f.bytes))

\* The harness appends, truncates, rewrites or replaces; a replaced file may
\* come back under an inode that was used before.
Write ==
    /\ changes < MaxChanges
    /\ changes' = changes + 1
    /\ file' \in (Files \cup {None}) \ {file}
    /\ steady' = (steady /\ Intact(file'))
    /\ UNCHANGED <<restarts, source, pc, identity, snapshot, tracker, stream>>

\* The pass ends without an observation: the tracker and the stream keep
\* what they had.
EndPass ==
    /\ pc' = "idle"
    /\ identity' = None
    /\ snapshot' = None
    /\ steady' = FALSE

Abandon == EndPass /\ UNCHANGED <<tracker, stream>>

\* file_identity: the stat of the path, refused when nothing is there.
Stat ==
    /\ pc = "idle"
    /\ \/ /\ file # None
          /\ pc' = "probe"
          /\ identity' = file.inode
          /\ steady' = Intact(file)
          /\ UNCHANGED <<snapshot, tracker, stream>>
       \/ /\ file = None
          /\ Abandon
    /\ UNCHANGED <<harness, restarts, source>>

\* read_prefix: the path is opened and its header read; a missing file or a
\* changed format ends the pass.
Probe ==
    /\ pc = "probe"
    /\ \/ /\ FileFormat = format
          /\ pc' = "open"
          /\ UNCHANGED <<identity, snapshot, steady, tracker, stream>>
       \/ /\ FileFormat # format
          /\ Abandon
    /\ UNCHANGED <<harness, restarts, source>>

\* read_all opens the path once more.
Open ==
    /\ pc = "open"
    /\ \/ /\ file # None
          /\ pc' = "read"
          /\ snapshot' = file
          /\ UNCHANGED <<identity, steady, tracker, stream>>
       \/ /\ file = None
          /\ Abandon
    /\ UNCHANGED <<harness, restarts, source>>

\* What reading the opened file may return: a file replaced or removed since
\* is still the one opened, a file rewritten in place may be torn between
\* its content at the open and its content now.
Reads ==
    LET now == IF file # None /\ file.inode = snapshot.inode THEN file.bytes
               ELSE snapshot.bytes
    IN {SubSeq(snapshot.bytes, 1, k) \o SubSeq(now, k + 1, Len(now)) :
            k \in 0 .. Len(snapshot.bytes)}

\* read_all returns; the tracker observes, the stream emits.
Read ==
    /\ pc = "read"
    /\ \E bytes \in Reads :
          LET decision == Decision(identity, Tracked(bytes))
          IN /\ Observe(decision, identity, Tracked(bytes))
             /\ Emit(Rotated(decision), bytes)
    /\ EndPass
    /\ UNCHANGED <<harness, restarts, source>>

\* The capturing process starts again and rediscovers the source.  The
\* tracker and the cursor were in memory only: the first pass begins a new
\* tracker.
Restart ==
    /\ restarts < MaxRestarts
    /\ restarts' = restarts + 1
    /\ FileFormat \notin {None, "unknown"}
    /\ format' = FileFormat
    /\ generation' = [generation EXCEPT !.cause = None]
    /\ acknowledged' = None
    /\ cursor' = NewCursor
    /\ lastDigest' = None
    /\ sequence' = 0
    /\ captured' = <<>>
    /\ EndPass
    /\ UNCHANGED <<harness, kind>>

Pass == Stat \/ Probe \/ Open \/ Read

CaptureNext == Write \/ Pass \/ Restart

CaptureSpec == CaptureInit /\ [][CaptureNext]_vars

CaptureFairSpec == CaptureSpec /\ WF_vars(Pass)
----------------------------------------------------------------------------
(***************************************************************************)
(* Properties.                                                             *)
(***************************************************************************)

Causes == {"Initial", "FileIdentityChange", "Rewind", "Truncation",
           "TailMismatch", "IncompatibleRewrite", "DigestChange"}

\* What a generation must have emitted once the tracker has acknowledged it.
Owed(content) == IF kind = "jsonl" THEN content
                 ELSE IF content = <<>> THEN <<>> ELSE content[1]

\* The cursor, the tracker and the emitted chunks are three accounts of one
\* thing and never part: what was emitted under the current generation is
\* exactly the acknowledged content, the cursor stands at its end having
\* counted its records, and a log's chunks are numbered from zero in every
\* generation.  In particular the SourceShrank refusal is unreachable.
EmittedIsAcknowledged ==
    acknowledged # None =>
        /\ generation.cause \in Causes
        /\ captured = Owed(acknowledged.content)
        /\ kind = "jsonl" =>
              /\ cursor = [position |-> Len(captured),
                           records  |-> RecordCount(captured)]
              /\ (sequence = 0) <=> (captured = <<>>)

\* A generation is closed for cause only.  If at every moment of a pass the
\* file was the acknowledged one, as it was or grown, the pass continues the
\* generation, even when the harness appended between the stat and the read
\* or in the middle of the read: an append racing the capture is never taken
\* for a rewrite and never makes the source start over.  A restart is no
\* pass: it forgets the tracker, and the source begins anew.
RotatesForCause ==
    [][(acknowledged # None /\ acknowledged' # None /\ steady) =>
          generation' = generation]_vars

\* Whatever the harness did while passes were running (a replacement after
\* the stat, a rewrite in the middle of a read), once it rests the current
\* generation ends up holding exactly the file's complete records, or the
\* whole object, as long as the file is there in the format discovered.
CaptureCatchesUp ==
    <>[](\/ FileFormat # format
         \/ captured = Owed(CompletePrefix(Tracked(file.bytes))))
=============================================================================
