---------------------------- MODULE CaptureProofs ----------------------------
(***************************************************************************)
(* Proofs about the two halves of capture on the client.  FileCapture: for *)
(* any contents the harness may leave in the file and however it changes   *)
(* it between and inside the passes, what was emitted under a generation   *)
(* is what the tracker acknowledged, and an append that races a pass never *)
(* closes a generation.  Scheduler: for any sources, backlogs and          *)
(* capacities no plan spends what it does not have, and every source a     *)
(* plan promises a chunk gets it in the rounds its rank calls for.         *)
(***************************************************************************)
EXTENDS FileCapture, Scheduler, FiniteFacts, SequenceTheorems

\* What the tracked sequences are made of: letters, and digests of objects.
Elements == Letters \cup Seq(Letters)

Acknowledgements == [identity : Inodes, content : Seq(Elements)]

\* Every variable the proofs speak of holds a value of its kind, and a pass
\* holds the identity and the snapshot it has taken so far.
CaptureTypeOK ==
    /\ file \in Files \cup {None}
    /\ restarts \in Nat
    /\ kind \in {"jsonl", "object"}
    /\ pc \in {"idle", "probe", "open", "read"}
    /\ pc # "idle" => identity \in Inodes
    /\ pc = "read" => snapshot \in Files
    /\ steady \in BOOLEAN
    /\ generation \in [number : Nat, cause : Causes \cup {None}]
    /\ acknowledged \in Acknowledgements \cup {None}
    /\ sequence \in Nat
    /\ captured \in Seq(Letters)

\* Before its first acknowledgement a stream has emitted nothing and
\* remembers nothing; after it, an object's tracker and its capture hold the
\* same digest.
BeforeFirstInv ==
    acknowledged = None =>
        /\ cursor = NewCursor
        /\ lastDigest = None
        /\ sequence = 0
        /\ captured = <<>>

DigestInv ==
    acknowledged # None /\ kind = "object" =>
        /\ lastDigest \in Seq(Letters)
        /\ acknowledged.content = DigestProbe(lastDigest)

\* What is acknowledged ends with a record.
CompleteInv ==
    acknowledged # None =>
        LastNewline(acknowledged.content) = Len(acknowledged.content)

\* While the pass is steady, the identity it took, the file it has open and
\* the file under the path all continue what is acknowledged.
SteadyInv ==
    steady => /\ Intact(file)
              /\ identity = acknowledged.identity
              /\ pc = "read" => Intact(snapshot)

CaptureInv ==
    /\ CaptureTypeOK
    /\ BeforeFirstInv
    /\ DigestInv
    /\ CompleteInv
    /\ SteadyInv
    /\ EmittedIsAcknowledged
-------------------------------------------------------------------------------
(* Record boundaries.                                                      *)

\* LastNewline is the position of the last newline, or zero.
LEMMA LastNewlineProperties ==
    ASSUME NEW S, NEW s \in Seq(S)
    PROVE  /\ LastNewline(s) \in 0 .. Len(s)
           /\ LastNewline(s) # 0 => s[LastNewline(s)] = Newline
           /\ \A i \in 1 .. Len(s) : s[i] = Newline => i <= LastNewline(s)
<1> DEFINE T == {0} \cup {i \in 1 .. Len(s) : s[i] = Newline}
<1>1. Len(s) \in Nat
  OBVIOUS
<1>2. T \subseteq Nat /\ T # {} /\ \A x \in T : x <= Len(s)
  BY <1>1
<1>3. Max(T) \in T /\ \A y \in T : y <= Max(T)
  <2> HIDE DEF T
  <2> QED BY <1>1, <1>2, GreatestElement
<1>4. LastNewline(s) = Max(T)
  BY DEF LastNewline
<1> QED BY <1>1, <1>3, <1>4

LEMMA LastNewlineIs ==
    ASSUME NEW S, NEW s \in Seq(S), NEW n \in 0 .. Len(s),
           n # 0 => s[n] = Newline,
           \A i \in 1 .. Len(s) : s[i] = Newline => i <= n
    PROVE  LastNewline(s) = n
<1>1. Len(s) \in Nat
  OBVIOUS
<1>2. LastNewline(s) \in 0 .. Len(s) /\ (LastNewline(s) # 0 => s[LastNewline(s)] = Newline)
      /\ (n # 0 => n <= LastNewline(s))
  BY LastNewlineProperties
<1> QED BY <1>1, <1>2

LEMMA CompletePrefixProperties ==
    ASSUME NEW S, NEW s \in Seq(S)
    PROVE  /\ CompletePrefix(s) \in Seq(S)
           /\ Len(CompletePrefix(s)) = LastNewline(s)
           /\ \A i \in 1 .. LastNewline(s) : CompletePrefix(s)[i] = s[i]
<1>1. LastNewline(s) \in 0 .. Len(s) /\ Len(s) \in Nat
  BY LastNewlineProperties
<1>2. \A i \in 1 .. LastNewline(s) : s[i] \in S
  BY <1>1, ElementOfSeq
<1> DEFINE n == LastNewline(s)
<1>3. n \in Nat
  BY <1>1
<1> HIDE DEF n
<1>4. /\ SubSeq(s, 1, n) \in Seq(S)
      /\ Len(SubSeq(s, 1, n)) = IF 1 <= n THEN n - 1 + 1 ELSE 0
      /\ \A i \in 1 .. n - 1 + 1 : SubSeq(s, 1, n)[i] = s[1 + i - 1]
  BY <1>2, <1>3, SubSeqProperties DEF n
<1>5. /\ SubSeq(s, 1, n) \in Seq(S)
      /\ Len(SubSeq(s, 1, n)) = n
      /\ \A i \in 1 .. n : SubSeq(s, 1, n)[i] = s[i]
  BY <1>3, <1>4
<1> QED BY <1>5 DEF n, CompletePrefix

\* The records a cursor takes past a prefix complete it: nothing between the
\* two is lost or taken twice.
LEMMA ChunkCompletes ==
    ASSUME NEW S, NEW s \in Seq(S), NEW n \in 0 .. LastNewline(s)
    PROVE  LET chunk == CompletePrefix(SubSeq(s, n + 1, Len(s)))
           IN /\ chunk \in Seq(S)
              /\ SubSeq(s, 1, n) \in Seq(S)
              /\ SubSeq(s, 1, n) \o chunk = CompletePrefix(s)
<1> DEFINE L    == LastNewline(s)
           rest == SubSeq(s, n + 1, Len(s))
           chunk == CompletePrefix(rest)
           head == SubSeq(s, 1, n)
<1>1. L \in 0 .. Len(s) /\ Len(s) \in Nat /\ n \in Nat /\ n <= L
      /\ (L # 0 => s[L] = Newline) /\ \A i \in 1 .. Len(s) : s[i] = Newline => i <= L
  BY LastNewlineProperties
<1> HIDE DEF L
<1>2. \A i \in 1 .. Len(s) : s[i] \in S
  BY ElementOfSeq
<1>3. /\ rest \in Seq(S) /\ Len(rest) = Len(s) - n
      /\ \A i \in 1 .. Len(s) - n : rest[i] = s[n + i]
  <2>1. \A i \in n + 1 .. Len(s) : s[i] \in S
    BY <1>1, <1>2
  <2>2. /\ rest \in Seq(S)
        /\ Len(rest) = IF n + 1 <= Len(s) THEN Len(s) - (n + 1) + 1 ELSE 0
        /\ \A i \in 1 .. Len(s) - (n + 1) + 1 : rest[i] = s[n + 1 + i - 1]
    <3> n + 1 \in Int /\ Len(s) \in Int
      BY <1>1
    <3> QED BY <2>1, SubSeqProperties
  <2> HIDE DEF rest
  <2> QED BY <1>1, <2>2
<1>4. /\ head \in Seq(S) /\ Len(head) = n
      /\ \A i \in 1 .. n : head[i] = s[i]
  <2>1. \A i \in 1 .. n : s[i] \in S
    BY <1>1, <1>2
  <2>2. /\ head \in Seq(S)
        /\ Len(head) = IF 1 <= n THEN n - 1 + 1 ELSE 0
        /\ \A i \in 1 .. n - 1 + 1 : head[i] = s[1 + i - 1]
    <3> n \in Int
      BY <1>1
    <3> QED BY <2>1, SubSeqProperties
  <2> HIDE DEF head
  <2> QED BY <1>1, <2>2
<1> HIDE DEF rest, head
<1>5. LastNewline(rest) = L - n
  <2>1. L - n \in 0 .. Len(rest)
    BY <1>1, <1>3
  <2>2. L - n # 0 => rest[L - n] = Newline
    <3>1. L - n # 0 => L - n \in 1 .. Len(s) - n /\ n + (L - n) = L /\ L # 0
      BY <1>1
    <3> QED BY <1>1, <1>3, <3>1
  <2>3. ASSUME NEW i \in 1 .. Len(rest), rest[i] = Newline PROVE i <= L - n
    <3>1. n + i \in 1 .. Len(s) /\ s[n + i] = Newline
      BY <1>1, <1>3, <2>3
    <3> QED BY <1>1, <3>1
  <2> QED BY <1>3, <2>1, <2>2, <2>3, LastNewlineIs
<1>6. /\ chunk \in Seq(S) /\ Len(chunk) = L - n
      /\ \A i \in 1 .. L - n : chunk[i] = rest[i]
  BY <1>3, <1>5, CompletePrefixProperties
<1>7. /\ CompletePrefix(s) \in Seq(S) /\ Len(CompletePrefix(s)) = L
      /\ \A i \in 1 .. L : CompletePrefix(s)[i] = s[i]
  BY CompletePrefixProperties DEF L
<1> HIDE DEF chunk
<1>8. /\ head \o chunk \in Seq(S) /\ Len(head \o chunk) = L
      /\ \A i \in 1 .. L : (head \o chunk)[i] = IF i <= n THEN head[i] ELSE chunk[i - n]
  <2>1. /\ head \o chunk \in Seq(S) /\ Len(head \o chunk) = Len(head) + Len(chunk)
        /\ \A i \in 1 .. Len(head) + Len(chunk) : (head \o chunk)[i] =
              IF i <= Len(head) THEN head[i] ELSE chunk[i - Len(head)]
    BY <1>4, <1>6, ConcatProperties
  <2>2. Len(head) + Len(chunk) = L
    BY <1>1, <1>4, <1>6
  <2> QED BY <1>4, <2>1, <2>2
<1>9. ASSUME NEW i \in 1 .. L PROVE (head \o chunk)[i] = CompletePrefix(s)[i]
  <2>1. CASE i <= n
    <3>1. i \in 1 .. n
      BY <1>1, <2>1
    <3>2. head[i] = s[i]
      BY <1>4, <3>1
    <3> QED BY <1>7, <1>8, <2>1, <3>2
  <2>2. CASE ~ (i <= n)
    <3>1. i - n \in 1 .. L - n /\ i - n \in 1 .. Len(s) - n /\ n + (i - n) = i
      BY <1>1, <2>2
    <3>2. chunk[i - n] = s[i]
      BY <1>3, <1>6, <3>1
    <3> QED BY <1>7, <1>8, <2>2, <3>2
  <2> QED BY <2>1, <2>2
<1>10. head \o chunk = CompletePrefix(s)
  BY <1>7, <1>8, <1>9, SeqEqual
<1> QED BY <1>4, <1>6, <1>10 DEF chunk, head, rest

\* Records add up over a concatenation.
LEMMA RecordsAddUp ==
    ASSUME NEW S, NEW s \in Seq(S), NEW t \in Seq(S)
    PROVE  /\ RecordCount(s) \in Nat
           /\ RecordCount(s \o t) = RecordCount(s) + RecordCount(t)
<1> DEFINE A == {i \in 1 .. Len(s) : s[i] = Newline}
           B == {i \in 1 .. Len(t) : t[i] = Newline}
           C == {i \in 1 .. Len(s \o t) : (s \o t)[i] = Newline}
           n == Len(s)
           E == {i \in C : i > n}
           f == [i \in B |-> n + i]
<1>1. n \in Nat /\ Len(t) \in Nat
  OBVIOUS
<1>2. /\ Len(s \o t) = n + Len(t)
      /\ \A i \in 1 .. n + Len(t) : (s \o t)[i] = IF i <= n THEN s[i] ELSE t[i - n]
  BY ConcatProperties
<1> HIDE DEF n
<1>3. IsFiniteSet(A) /\ IsFiniteSet(B) /\ IsFiniteSet(E)
  <2>1. IsFiniteSet(1 .. n) /\ IsFiniteSet(1 .. Len(t)) /\ IsFiniteSet(1 .. n + Len(t))
    <3>1. \A m \in Int : IsFiniteSet(1 .. m)
      BY FS_Interval
    <3> QED BY <1>1, <3>1
  <2>2. A \in SUBSET (1 .. n) /\ B \in SUBSET (1 .. Len(t)) /\ E \in SUBSET (1 .. n + Len(t))
    BY <1>2 DEF n
  <2> QED BY <2>1, <2>2, FS_Subset
<1>4. A \cup E = C /\ A \cap E = {}
  BY <1>1, <1>2 DEF n
<1>5. Cardinality(B) = Cardinality(E)
  <2>1. \A i \in B : n + i \in E
    BY <1>1, <1>2
  <2>2. \A j \in E : j - n \in B /\ n + (j - n) = j
    BY <1>1, <1>2
  <2>3. \A i, j \in B : n + i = n + j => i = j
    BY <1>1
  <2> HIDE DEF B, E
  <2>4. f \in Bijection(B, E)
    <3>1. f \in [B -> E]
      BY <2>1
    <3>2. \A i, j \in B : f[i] = f[j] => i = j
      BY <2>3
    <3>3. \A j \in E : \E i \in B : f[i] = j
      BY <2>2
    <3> HIDE DEF f
    <3> QED BY <3>1, <3>2, <3>3 DEF Bijection, Injection, Surjection, IsInjective
  <2> QED BY <1>3, <2>4, FS_Bijection DEF ExistsBijection
<1> HIDE DEF A, B, C, E
<1>6. Cardinality(C) = Cardinality(A) + Cardinality(E)
      /\ Cardinality(A) \in Nat
  <2>1. Cardinality(A \cup E) = Cardinality(A) + Cardinality(E) - Cardinality(A \cap E)
    BY <1>3, FS_Union
  <2>2. Cardinality(A \cap E) = 0 /\ Cardinality(A) \in Nat /\ Cardinality(E) \in Nat
    BY <1>3, <1>4, FS_EmptySet, FS_CardinalityType
  <2>3. Cardinality(C) = Cardinality(A) + Cardinality(E) - 0
    BY <1>4, <2>1, <2>2
  <2> QED BY <2>2, <2>3
<1>7. RecordCount(s) = Cardinality(A) /\ RecordCount(t) = Cardinality(B)
      /\ RecordCount(s \o t) = Cardinality(C)
  BY DEF RecordCount, A, B, C
<1> QED BY <1>5, <1>6, <1>7

\* A probe is complete, and the content can be read off it.
LEMMA ObjectIsComplete ==
    ASSUME NEW b \in Seq(Letters)
    PROVE  /\ DigestProbe(b) \in Seq(Elements)
           /\ Len(DigestProbe(b)) = 3
           /\ DigestProbe(b)[1] = b
           /\ LastNewline(DigestProbe(b)) = 3
           /\ CompletePrefix(DigestProbe(b)) = DigestProbe(b)
<1> DEFINE x == IF b \in BrokenDigests THEN Newline ELSE Plain
           s == <<b, x, Newline>>
<1>1. b \in Elements /\ Newline \in Elements /\ x \in Elements
  BY DEF Elements, Letters
<1> HIDE DEF x
<1>2. s \in Seq(Elements) /\ Len(s) = 3 /\ s[3] = Newline /\ s[1] = b
  BY <1>1
<1>3. DigestProbe(b) = s
  BY DEF DigestProbe, x
<1> HIDE DEF s
<1>4. LastNewline(s) = 3
  <2>1. 3 \in 0 .. Len(s) /\ \A i \in 1 .. Len(s) : i <= 3
    BY <1>2
  <2> QED BY <1>2, <2>1, LastNewlineIs
<1>5. SubSeq(s, 1, Len(s)) = s
  BY <1>2, SubSeqFull
<1>6. CompletePrefix(s) = s
  BY <1>2, <1>4, <1>5 DEF CompletePrefix
<1> QED BY <1>2, <1>3, <1>4, <1>6

\* No two contents have one probe, and one probe begins another only if it
\* is the same.
LEMMA ProbesDiffer ==
    ASSUME NEW b \in Seq(Letters), NEW d \in Seq(Letters),
           IsPrefix(DigestProbe(d), DigestProbe(b))
    PROVE  b = d
<1> DEFINE s == DigestProbe(b)
           t == DigestProbe(d)
<1>1. /\ s \in Seq(Elements) /\ Len(s) = 3 /\ s[1] = b
      /\ t \in Seq(Elements) /\ Len(t) = 3 /\ t[1] = d
  BY ObjectIsComplete
<1>2. SubSeq(t, 1, Len(t)) = SubSeq(s, 1, Len(t))
  BY Zenon DEF IsPrefix
<1> HIDE DEF s, t
<1>3. SubSeq(t, 1, Len(t)) = t /\ SubSeq(s, 1, Len(s)) = s
  BY <1>1, SubSeqFull
<1>4. s = t
  BY <1>1, <1>2, <1>3
<1> QED BY <1>1, <1>4

\* The complete part of a sequence is complete.
LEMMA CompletePrefixIsComplete ==
    ASSUME NEW S, NEW s \in Seq(S)
    PROVE  LastNewline(CompletePrefix(s)) = Len(CompletePrefix(s))
<1> DEFINE p == CompletePrefix(s)
           n == LastNewline(s)
<1>1. n \in Nat /\ (n # 0 => s[n] = Newline)
  BY LastNewlineProperties
<1>2. p \in Seq(S) /\ Len(p) = n /\ \A i \in 1 .. n : p[i] = s[i]
  BY CompletePrefixProperties
<1> HIDE DEF p, n
<1>3. n # 0 => p[n] = Newline
  BY <1>1, <1>2
<1>4. n \in 0 .. Len(p) /\ \A i \in 1 .. Len(p) : i <= n
  BY <1>1, <1>2
<1>5. LastNewline(p) = n
  BY <1>2, <1>3, <1>4, LastNewlineIs
<1> QED BY <1>2, <1>5 DEF p

\* The elements of a are the first ones of s.
StartsWith(s, a) == Len(a) <= Len(s) /\ \A i \in 1 .. Len(a) : s[i] = a[i]

\* What is acknowledged stays in the complete part of whatever begins with it.
LEMMA AcknowledgedSurvives ==
    ASSUME NEW S, NEW a \in Seq(S), LastNewline(a) = Len(a),
           NEW s \in Seq(S), StartsWith(s, a)
    PROVE  IsPrefix(a, CompletePrefix(s))
<1> DEFINE n == Len(a)
           L == LastNewline(s)
           p == CompletePrefix(s)
<1>1. n \in Nat /\ Len(s) \in Nat /\ (n # 0 => a[n] = Newline)
  BY LastNewlineProperties
<1>2. L \in 0 .. Len(s) /\ \A i \in 1 .. Len(s) : s[i] = Newline => i <= L
  BY LastNewlineProperties
<1>3. p \in Seq(S) /\ Len(p) = L /\ \A i \in 1 .. L : p[i] = s[i]
  BY CompletePrefixProperties
<1>4. n <= Len(s) /\ \A i \in 1 .. n : s[i] = a[i]
  BY DEF StartsWith
<1> HIDE DEF n, L, p
<1>5. n <= L
  <2>1. CASE n = 0
    BY <1>1, <1>2, <2>1
  <2>2. CASE n # 0
    <3>1. n \in 1 .. n /\ n \in 1 .. Len(s)
      BY <1>1, <1>4, <2>2
    <3> QED BY <1>1, <1>2, <1>4, <2>2, <3>1
  <2> QED BY <2>1, <2>2
<1>6. \A i \in 1 .. n : p[i] = a[i] /\ p[i] \in S
  <2> SUFFICES ASSUME NEW i \in 1 .. n PROVE p[i] = a[i] /\ p[i] \in S
    OBVIOUS
  <2>1. i \in 1 .. L
    BY <1>1, <1>2, <1>5
  <2>2. p[i] = s[i] /\ s[i] = a[i]
    BY <1>3, <1>4, <2>1
  <2>3. p[i] \in S
    BY <1>3, <2>1, ElementOfSeq
  <2> QED BY <2>2, <2>3
<1>7. /\ SubSeq(p, 1, n) \in Seq(S) /\ Len(SubSeq(p, 1, n)) = n
      /\ \A i \in 1 .. n : SubSeq(p, 1, n)[i] = p[i]
  <2>1. /\ SubSeq(p, 1, n) \in Seq(S)
        /\ Len(SubSeq(p, 1, n)) = IF 1 <= n THEN n - 1 + 1 ELSE 0
        /\ \A i \in 1 .. n - 1 + 1 : SubSeq(p, 1, n)[i] = p[1 + i - 1]
    BY <1>1, <1>3, <1>6, SubSeqProperties
  <2> QED BY <1>1, <2>1
<1>8. SubSeq(p, 1, n) = a
  BY <1>6, <1>7, SeqEqual DEF n
<1>9. SubSeq(a, 1, n) = a
  BY SubSeqFull DEF n
<1> QED BY <1>3, <1>5, <1>8, <1>9 DEF IsPrefix, n, p

\* The elements of a sequence that begins with another.
LEMMA PrefixElements ==
    ASSUME NEW S, NEW a \in Seq(S), NEW s \in Seq(S), IsPrefix(a, s)
    PROVE  StartsWith(s, a)
<1> DEFINE n == Len(a)
<1>1. n \in Nat /\ Len(s) \in Nat /\ n <= Len(s)
  BY DEF IsPrefix
<1>2. SubSeq(s, 1, n) = a
  BY SubSeqFull DEF IsPrefix
<1>3. \A i \in 1 .. n : s[i] \in S
  BY <1>1, ElementOfSeq
<1>4. \A i \in 1 .. n : SubSeq(s, 1, n)[i] = s[i]
  <2> HIDE DEF n
  <2>1. \A i \in 1 .. n - 1 + 1 : SubSeq(s, 1, n)[i] = s[1 + i - 1]
    BY <1>1, <1>3, SubSeqProperties
  <2> QED BY <1>1, <2>1
<1> QED BY <1>1, <1>2, <1>4 DEF StartsWith

\* However a read is torn between two states of a file that both begin with
\* the same records, what it returns begins with them.
LEMMA TornReadKeeps ==
    ASSUME NEW S, NEW a \in Seq(S), NEW old \in Seq(S), NEW now \in Seq(S),
           StartsWith(old, a), StartsWith(now, a), NEW k \in 0 .. Len(old)
    PROVE  StartsWith(SubSeq(old, 1, k) \o SubSeq(now, k + 1, Len(now)), a)
<1> DEFINE left == SubSeq(old, 1, k)
           right == SubSeq(now, k + 1, Len(now))
           mix == left \o right
           m == IF k + 1 <= Len(now) THEN Len(now) - k ELSE 0
<1>1. Len(a) \in Nat /\ Len(old) \in Nat /\ Len(now) \in Nat /\ k \in Nat /\ k <= Len(old)
  OBVIOUS
<1>2. \A i \in 1 .. k : old[i] \in S
  BY <1>1, ElementOfSeq
<1>3. \A i \in k + 1 .. Len(now) : now[i] \in S
  BY <1>1, ElementOfSeq
<1>4. left \in Seq(S) /\ Len(left) = k /\ \A i \in 1 .. k : left[i] = old[i]
  <2>1. /\ left \in Seq(S) /\ Len(left) = IF 1 <= k THEN k - 1 + 1 ELSE 0
        /\ \A i \in 1 .. k - 1 + 1 : left[i] = old[1 + i - 1]
    BY <1>1, <1>2, SubSeqProperties
  <2> HIDE DEF left
  <2> QED BY <1>1, <2>1
<1>5. right \in Seq(S) /\ Len(right) = m /\ \A i \in 1 .. m : right[i] = now[k + i]
  <2>1. /\ right \in Seq(S)
        /\ Len(right) = IF k + 1 <= Len(now) THEN Len(now) - (k + 1) + 1 ELSE 0
        /\ \A i \in 1 .. Len(now) - (k + 1) + 1 : right[i] = now[k + 1 + i - 1]
    <3> k + 1 \in Int /\ Len(now) \in Int
      BY <1>1
    <3> QED BY <1>3, SubSeqProperties
  <2> HIDE DEF right
  <2>2. CASE k + 1 <= Len(now)
    <3>1. m = Len(now) - k /\ Len(now) - (k + 1) + 1 = m
      BY <1>1, <2>2
    <3>2. \A i \in 1 .. m : right[i] = now[k + 1 + i - 1] /\ k + 1 + i - 1 = k + i
      BY <1>1, <2>1, <3>1
    <3> QED BY <2>1, <2>2, <3>1, <3>2
  <2>3. CASE ~ (k + 1 <= Len(now))
    BY <2>1, <2>3
  <2> QED BY <2>2, <2>3
<1> HIDE DEF left, right, m
<1>6. /\ Len(mix) = Len(left) + Len(right)
      /\ \A i \in 1 .. Len(left) + Len(right) :
            mix[i] = IF i <= Len(left) THEN left[i] ELSE right[i - Len(left)]
  BY <1>4, <1>5, ConcatProperties
<1> HIDE DEF mix
<1>7. m \in Nat /\ Len(mix) = k + m /\ Len(a) <= k + m
  <2>1. m \in Nat /\ Len(now) <= k + m
    BY <1>1 DEF m
  <2> QED BY <1>1, <1>4, <1>5, <1>6, <2>1 DEF StartsWith
<1>8. ASSUME NEW i \in 1 .. Len(a) PROVE mix[i] = a[i]
  <2>1. i \in 1 .. k + m
    BY <1>1, <1>7
  <2>2. mix[i] = IF i <= k THEN left[i] ELSE right[i - k]
    BY <1>4, <1>5, <1>6, <2>1
  <2>3. CASE i <= k
    <3>1. i \in 1 .. k
      BY <1>1, <2>3
    <3> QED BY <1>4, <2>2, <2>3, <3>1 DEF StartsWith
  <2>4. CASE ~ (i <= k)
    <3>1. i - k \in 1 .. m /\ k + (i - k) = i
      BY <1>1, <1>7, <2>1, <2>4
    <3>2. right[i - k] = now[i]
      BY <1>5, <3>1
    <3> QED BY <2>2, <2>4, <3>2 DEF StartsWith
  <2> QED BY <2>3, <2>4
<1> QED BY <1>7, <1>8 DEF StartsWith, mix, left, right

\* Whatever the harness does while a file is read, the bytes returned are
\* letters.
LEMMA ReadsAreLetters ==
    ASSUME CaptureTypeOK, pc = "read"
    PROVE  Reads \subseteq Seq(Letters)
<1> DEFINE now == IF file # None /\ file.inode = snapshot.inode THEN file.bytes
                  ELSE snapshot.bytes
           old == snapshot.bytes
<1>1. old \in Seq(Letters) /\ now \in Seq(Letters)
  BY ContentsAssumption DEF CaptureTypeOK, Files
<1>2. Reads = {SubSeq(old, 1, k) \o SubSeq(now, k + 1, Len(now)) : k \in 0 .. Len(old)}
  BY DEF Reads
<1> HIDE DEF old, now
<1>3. ASSUME NEW k \in 0 .. Len(old)
      PROVE  SubSeq(old, 1, k) \o SubSeq(now, k + 1, Len(now)) \in Seq(Letters)
  <2>1. Len(old) \in Nat /\ Len(now) \in Nat
    BY <1>1
  <2>2. \A i \in 1 .. k : old[i] \in Letters
    BY <1>1, <2>1, ElementOfSeq
  <2>3. \A i \in k + 1 .. Len(now) : now[i] \in Letters
    BY <1>1, <2>1, ElementOfSeq
  <2>4. SubSeq(old, 1, k) \in Seq(Letters)
    BY <2>1, <2>2, SubSeqProperties
  <2>5. SubSeq(now, k + 1, Len(now)) \in Seq(Letters)
    <3> k + 1 \in Int /\ Len(now) \in Int
      BY <2>1
    <3> QED BY <2>3, SubSeqProperties
  <2> QED BY <2>4, <2>5, ConcatProperties
<1> QED BY <1>2, <1>3
-------------------------------------------------------------------------------
(* The decision table.                                                     *)

\* The seven rows name one continuation and six rotations, and the
\* continuation is taken exactly when the identity is the acknowledged one
\* and the acknowledged content begins what was observed.
LEMMA TableDecides ==
    ASSUME NEW ack \in Acknowledgements, NEW i, NEW s \in Seq(Elements)
    PROVE  /\ DetectGeneration(ack, i, s) \in (Causes \ {"Initial"}) \cup {"Continue"}
           /\ DetectGeneration(ack, i, s) = "Continue" <=>
                 /\ i = ack.identity
                 /\ IsPrefix(ack.content, CompletePrefix(s))
<1> DEFINE prefix == CompletePrefix(s)
           start == LastRecordStart(ack.content)
           sameHead == SubSeq(prefix, 1, start) = SubSeq(ack.content, 1, start)
           n == Len(ack.content)
<1>1. ack.content \in Seq(Elements) /\ n \in Nat
  BY DEF Acknowledgements
<1>2. prefix \in Seq(Elements) /\ Len(prefix) \in Nat
  BY CompletePrefixProperties, LenProperties
<1>3. SubSeq(ack.content, 1, n) = ack.content
  BY <1>1, SubSeqFull
<1>4. IsPrefix(ack.content, prefix) <=> n <= Len(prefix) /\ SubSeq(prefix, 1, n) = ack.content
  BY <1>3 DEF IsPrefix
<1>5. DetectGeneration(ack, i, s) =
        IF i # ack.identity THEN "FileIdentityChange"
        ELSE IF Len(prefix) < n
             THEN IF Len(prefix) >= start /\ ~sameHead THEN "Rewind" ELSE "Truncation"
        ELSE IF SubSeq(prefix, 1, n) = ack.content THEN "Continue"
        ELSE IF sameHead THEN "TailMismatch"
        ELSE IF Len(prefix) = n THEN "IncompatibleRewrite"
        ELSE "DigestChange"
  BY DEF DetectGeneration
<1> HIDE DEF prefix, start, sameHead, n
<1>6. Len(prefix) < n <=> ~ (n <= Len(prefix))
  BY <1>1, <1>2
<1> QED BY <1>4, <1>5, <1>6 DEF Causes, prefix

\* What one observation of the tracker changes.
LEMMA Observed ==
    ASSUME CaptureTypeOK, NEW i \in Inodes, NEW s \in Seq(Elements),
           Observe(Decision(i, s), i, s)
    PROVE  /\ acknowledged' = [identity |-> i, content |-> CompletePrefix(s)]
           /\ acknowledged' \in Acknowledgements /\ acknowledged' # None
           /\ generation' \in [number : Nat, cause : Causes \cup {None}]
           /\ acknowledged = None =>
                 ~Rotated(Decision(i, s)) /\ generation'.cause = "Initial"
           /\ acknowledged # None =>
                 /\ Rotated(Decision(i, s)) <=>
                       ~ (i = acknowledged.identity
                            /\ IsPrefix(acknowledged.content, CompletePrefix(s)))
                 /\ ~Rotated(Decision(i, s)) => generation' = generation
                 /\ Rotated(Decision(i, s)) =>
                       generation' # generation /\ generation'.cause \in Causes
<1>1. CompletePrefix(s) \in Seq(Elements)
  BY CompletePrefixProperties
<1>2. /\ acknowledged' = [identity |-> i, content |-> CompletePrefix(s)]
      /\ acknowledged' \in Acknowledgements /\ acknowledged' # None
  BY <1>1, NoneAssumption DEF Observe, Acknowledge, Acknowledgements, Elements
<1>3. CASE acknowledged = None
  <2>1. generation' = [number |-> generation.number + 1, cause |-> "Initial"]
        /\ ~Rotated(Decision(i, s))
    BY <1>3 DEF Observe, Decision, Rotated
  <2>2. generation.number + 1 \in Nat
    BY DEF CaptureTypeOK
  <2>3. /\ generation' \in [number : Nat, cause : Causes \cup {None}]
        /\ generation'.cause = "Initial"
    BY <2>1, <2>2 DEF Causes
  <2> QED BY <1>2, <1>3, <2>1, <2>3
<1>4. CASE acknowledged # None
  <2> DEFINE d == Decision(i, s)
  <2>1. acknowledged \in Acknowledgements /\ d = DetectGeneration(acknowledged, i, s)
    BY <1>4 DEF CaptureTypeOK, Decision
  <2>2. d \in (Causes \ {"Initial"}) \cup {"Continue"}
        /\ (d = "Continue" <=> /\ i = acknowledged.identity
                               /\ IsPrefix(acknowledged.content, CompletePrefix(s)))
    BY <2>1, TableDecides
  <2>3. Rotated(d) <=> d # "Continue"
    BY <2>2 DEF Rotated, Causes
  <2>4. d = "Continue" => generation' = generation
    BY DEF Observe
  <2>5. d # "Continue" => generation' = [number |-> generation.number + 1, cause |-> d]
    <3>1. d # "Begin"
      BY <2>2 DEF Causes
    <3> QED BY <3>1 DEF Observe
  <2> HIDE DEF d
  <2>6. d # "Continue" => /\ generation' # generation /\ generation'.cause \in Causes
                          /\ generation' \in [number : Nat, cause : Causes \cup {None}]
    <3>1. generation.number \in Nat
      BY DEF CaptureTypeOK
    <3>2. d # "Continue" => /\ generation'.number = generation.number + 1
                            /\ generation'.cause = d
      BY <2>5
    <3>3. generation.number + 1 # generation.number /\ generation.number + 1 \in Nat
      BY <3>1
    <3> QED BY <2>2, <2>5, <3>2, <3>3
  <2>7. generation \in [number : Nat, cause : Causes \cup {None}]
    BY DEF CaptureTypeOK
  <2> QED BY <1>2, <1>4, <2>2, <2>3, <2>4, <2>6, <2>7 DEF d
<1> QED BY <1>3, <1>4
-------------------------------------------------------------------------------
(* The two streams.                                                        *)

LEMMA PrefixOfCompletePrefix ==
    ASSUME NEW S, NEW s \in Seq(S), NEW n \in 0 .. LastNewline(s)
    PROVE  SubSeq(CompletePrefix(s), 1, n) = SubSeq(s, 1, n)
<1> DEFINE p == CompletePrefix(s)
           L == LastNewline(s)
<1>1. L \in 0 .. Len(s) /\ Len(s) \in Nat
  BY LastNewlineProperties
<1>2. p \in Seq(S) /\ Len(p) = L /\ \A i \in 1 .. L : p[i] = s[i]
  BY CompletePrefixProperties
<1> HIDE DEF p, L
<1>3. n \in 0 .. L
  BY DEF L
<1>4. \A i \in 1 .. n : p[i] \in S /\ s[i] \in S /\ p[i] = s[i]
  BY <1>1, <1>2, <1>3, ElementOfSeq
<1>5. /\ SubSeq(p, 1, n) \in Seq(S) /\ Len(SubSeq(p, 1, n)) = n
      /\ \A i \in 1 .. n : SubSeq(p, 1, n)[i] = p[i]
  <2>1. /\ SubSeq(p, 1, n) \in Seq(S)
        /\ Len(SubSeq(p, 1, n)) = IF 1 <= n THEN n - 1 + 1 ELSE 0
        /\ \A i \in 1 .. n - 1 + 1 : SubSeq(p, 1, n)[i] = p[1 + i - 1]
    BY <1>1, <1>3, <1>4, SubSeqProperties
  <2> QED BY <1>1, <1>3, <2>1
<1>6. /\ SubSeq(s, 1, n) \in Seq(S) /\ Len(SubSeq(s, 1, n)) = n
      /\ \A i \in 1 .. n : SubSeq(s, 1, n)[i] = s[i]
  <2>1. /\ SubSeq(s, 1, n) \in Seq(S)
        /\ Len(SubSeq(s, 1, n)) = IF 1 <= n THEN n - 1 + 1 ELSE 0
        /\ \A i \in 1 .. n - 1 + 1 : SubSeq(s, 1, n)[i] = s[1 + i - 1]
    BY <1>1, <1>3, <1>4, SubSeqProperties
  <2> QED BY <1>1, <1>3, <2>1
<1>7. SubSeq(p, 1, n) = SubSeq(s, 1, n)
  BY <1>4, <1>5, <1>6, SeqEqual
<1> QED BY <1>7 DEF p

\* Where a log's cursor starts a pass: at the end of records that are still
\* the beginning of the snapshot, having counted and numbered them.  A
\* snapshot that lost them was rotated before the cursor saw it.
LEMMA CursorStart ==
    ASSUME CaptureInv, kind = "jsonl", NEW i \in Inodes, NEW contents \in Seq(Letters),
           Observe(Decision(i, contents), i, contents),
           NEW rotated \in BOOLEAN, rotated = Rotated(Decision(i, contents))
    PROVE  LET from  == IF rotated THEN NewCursor ELSE cursor
               prior == IF rotated THEN <<>> ELSE captured
               first == IF rotated THEN 0 ELSE sequence
           IN /\ from.position \in 0 .. LastNewline(contents)
              /\ prior = SubSeq(contents, 1, from.position)
              /\ from.records = RecordCount(prior)
              /\ first \in Nat /\ (first = 0 <=> prior = <<>>)
<1> DEFINE from  == IF rotated THEN NewCursor ELSE cursor
           prior == IF rotated THEN <<>> ELSE captured
           first == IF rotated THEN 0 ELSE sequence
<1>1. contents \in Seq(Elements)
  BY SeqMonotonic DEF Elements
<1>2. LastNewline(contents) \in 0 .. Len(contents) /\ Len(contents) \in Nat
  BY LastNewlineProperties
<1>3. CASE rotated \/ acknowledged = None
  <2>1. from = NewCursor /\ prior = <<>> /\ first = 0
    BY <1>3 DEF CaptureInv, BeforeFirstInv
  <2>2. SubSeq(contents, 1, 0) = <<>>
    BY SubSeqEmpty
  <2>3. RecordCount(<<>>) = 0
    <3>1. {j \in 1 .. Len(<<>>) : <<>>[j] = Newline} = {}
      OBVIOUS
    <3> QED BY <3>1, FS_EmptySet DEF RecordCount
  <2>4. from.position = 0 /\ from.records = 0
    BY <2>1 DEF NewCursor
  <2> HIDE DEF from, prior, first
  <2>5. 0 \in 0 .. LastNewline(contents)
    BY <1>2
  <2>6. /\ from.position \in 0 .. LastNewline(contents)
        /\ prior = SubSeq(contents, 1, from.position)
        /\ from.records = RecordCount(prior)
        /\ first \in Nat /\ (first = 0 <=> prior = <<>>)
    BY <2>1, <2>2, <2>3, <2>4, <2>5
  <2> QED BY <2>6 DEF from, prior, first
<1>4. CASE ~rotated /\ acknowledged # None
  <2>1. IsPrefix(acknowledged.content, CompletePrefix(contents))
    BY <1>1, <1>4, Observed DEF CaptureInv
  <2>2. /\ captured = acknowledged.content /\ captured \in Seq(Letters)
        /\ cursor = [position |-> Len(captured), records |-> RecordCount(captured)]
        /\ (sequence = 0 <=> captured = <<>>) /\ sequence \in Nat
    BY <1>4 DEF CaptureInv, CaptureTypeOK, EmittedIsAcknowledged, Owed
  <2>3. /\ Len(captured) <= Len(CompletePrefix(contents))
        /\ captured = SubSeq(CompletePrefix(contents), 1, Len(captured))
    <3>1. SubSeq(captured, 1, Len(captured)) = captured
      BY <2>2, SubSeqFull
    <3> QED BY <2>1, <2>2, <3>1 DEF IsPrefix
  <2>4. Len(captured) \in 0 .. LastNewline(contents)
    <3>1. Len(CompletePrefix(contents)) = LastNewline(contents) /\ Len(captured) \in Nat
      BY <2>2, CompletePrefixProperties
    <3> QED BY <1>2, <2>3, <3>1
  <2>5. captured = SubSeq(contents, 1, Len(captured))
    BY <2>3, <2>4, PrefixOfCompletePrefix
  <2>6. cursor.position = Len(captured) /\ cursor.records = RecordCount(captured)
    BY <2>2
  <2>7. from = cursor /\ prior = captured /\ first = sequence
    BY <1>4
  <2> HIDE DEF from, prior, first
  <2>8. /\ from.position \in 0 .. LastNewline(contents)
        /\ prior = SubSeq(contents, 1, from.position)
        /\ from.records = RecordCount(prior)
        /\ first \in Nat /\ (first = 0 <=> prior = <<>>)
    BY <2>2, <2>4, <2>5, <2>6, <2>7
  <2> QED BY <2>8 DEF from, prior, first
<1> QED BY <1>3, <1>4

\* A pass over a log leaves the three accounts of it equal.
LEMMA RecordsEmitted ==
    ASSUME CaptureInv, kind = "jsonl", NEW i \in Inodes, NEW contents \in Seq(Letters),
           Observe(Decision(i, contents), i, contents),
           EmitRecords(Rotated(Decision(i, contents)), contents)
    PROVE  /\ captured' = CompletePrefix(contents)
           /\ captured' \in Seq(Letters)
           /\ cursor' = [position |-> Len(captured'), records |-> RecordCount(captured')]
           /\ sequence' \in Nat
           /\ (sequence' = 0) <=> (captured' = <<>>)
<1> DEFINE rotated == Rotated(Decision(i, contents))
           from  == IF rotated THEN NewCursor ELSE cursor
           prior == IF rotated THEN <<>> ELSE captured
           first == IF rotated THEN 0 ELSE sequence
           n     == from.position
           chunk == CompletePrefix(SubSeq(contents, n + 1, Len(contents)))
<1>1. /\ n \in 0 .. LastNewline(contents)
      /\ prior = SubSeq(contents, 1, n)
      /\ from.records = RecordCount(prior)
      /\ first \in Nat /\ (first = 0 <=> prior = <<>>)
  <2>1. rotated \in BOOLEAN
    BY DEF Rotated
  <2> QED BY <2>1, CursorStart
<1>2. IF Len(contents) < n THEN UNCHANGED <<cursor, sequence, captured>>
      ELSE /\ cursor' = [position |-> n + Len(chunk),
                         records  |-> from.records + RecordCount(chunk)]
           /\ sequence' = first + (IF chunk = <<>> THEN 0 ELSE 1)
           /\ captured' = prior \o chunk
  BY DEF EmitRecords
<1> HIDE DEF rotated, from, prior, first
<1>3. ~ (Len(contents) < n)
  <2>1. LastNewline(contents) \in 0 .. Len(contents) /\ Len(contents) \in Nat
    BY LastNewlineProperties
  <2> HIDE DEF n
  <2> QED BY <1>1, <2>1
<1> HIDE DEF n
<1>4. /\ chunk \in Seq(Letters) /\ prior \in Seq(Letters)
      /\ prior \o chunk = CompletePrefix(contents)
  BY <1>1, ChunkCompletes
<1>5. Len(prior) = n /\ Len(prior \o chunk) = n + Len(chunk)
  <2>1. Len(prior \o chunk) = LastNewline(contents) /\ LastNewline(contents) \in 0 .. Len(contents)
        /\ Len(contents) \in Nat
    BY <1>4, CompletePrefixProperties, LastNewlineProperties
  <2>2. \A j \in 1 .. n : contents[j] \in Letters
    BY <1>1, <2>1, ElementOfSeq
  <2>3. Len(prior) = IF 1 <= n THEN n - 1 + 1 ELSE 0
    <3> n \in Int
      BY <1>1, <2>1
    <3> QED BY <1>1, <2>2, SubSeqProperties
  <2>4. Len(prior) = n
    BY <1>1, <2>1, <2>3
  <2> QED BY <1>4, <2>4, ConcatProperties
<1> HIDE DEF chunk
<1>6. RecordCount(prior \o chunk) = from.records + RecordCount(chunk)
  BY <1>1, <1>4, RecordsAddUp
<1>7. prior \o chunk = <<>> <=> prior = <<>> /\ chunk = <<>>
  BY <1>4, ConcatEqualIffEmpty
<1>8. captured' = prior \o chunk /\ sequence' = first + (IF chunk = <<>> THEN 0 ELSE 1)
      /\ cursor' = [position |-> n + Len(chunk), records |-> from.records + RecordCount(chunk)]
  BY <1>2, <1>3
<1>9. sequence' \in Nat /\ (sequence' = 0 <=> prior = <<>> /\ chunk = <<>>)
  <2>1. CASE chunk = <<>>
    <3>1. sequence' = first
      BY <1>1, <1>8, <2>1
    <3> QED BY <1>1, <2>1, <3>1
  <2>2. CASE chunk # <<>>
    <3>1. sequence' = first + 1
      BY <1>8, <2>2
    <3> QED BY <1>1, <2>2, <3>1
  <2> QED BY <2>1, <2>2
<1>10. captured' \in Seq(Letters)
  BY <1>4, <1>8, ConcatProperties
<1> QED BY <1>4, <1>5, <1>6, <1>7, <1>8, <1>9, <1>10

\* A pass over an object emits it unless this very content was emitted
\* under the same generation.
LEMMA ObjectEmitted ==
    ASSUME CaptureInv, kind = "object", NEW i \in Inodes, NEW contents \in Seq(Letters),
           Observe(Decision(i, DigestProbe(contents)), i, DigestProbe(contents)),
           EmitObject(Rotated(Decision(i, DigestProbe(contents))), contents)
    PROVE  /\ captured' = contents
           /\ lastDigest' = contents
           /\ sequence' \in Nat
<1> DEFINE s == DigestProbe(contents)
           rotated == Rotated(Decision(i, s))
           prior == IF rotated THEN <<>> ELSE captured
           fresh == (rotated \/ lastDigest # contents) /\ contents # <<>>
<1>1. s \in Seq(Elements) /\ CompletePrefix(s) = s
  BY ObjectIsComplete
<1>2. /\ lastDigest' = contents
      /\ sequence' = sequence + (IF fresh THEN 1 ELSE 0)
      /\ captured' = IF fresh THEN prior \o contents ELSE prior
  BY DEF EmitObject
<1>3. sequence' \in Nat
  BY <1>2 DEF CaptureInv, CaptureTypeOK
<1>4. <<>> \o contents = contents
  BY ConcatEmptySeq
<1>5. CASE acknowledged = None
  <2>1. captured = <<>> /\ lastDigest # contents
    BY <1>5, NoneAssumption DEF CaptureInv, BeforeFirstInv
  <2>2. prior = <<>>
    BY <2>1
  <2> HIDE DEF prior, rotated
  <2> QED BY <1>2, <1>3, <1>4, <2>1, <2>2
<1>6. CASE acknowledged # None /\ rotated
  <2>1. prior = <<>>
    BY <1>6
  <2> HIDE DEF prior, rotated
  <2> QED BY <1>2, <1>3, <1>4, <1>6, <2>1
<1>7. CASE acknowledged # None /\ ~rotated
  <2>1. IsPrefix(acknowledged.content, s)
    <3>1. Observe(Decision(i, s), i, s)
      OBVIOUS
    <3>2. ~Rotated(Decision(i, s))
      BY <1>7
    <3> HIDE DEF s
    <3> QED BY <1>1, <1>7, <3>1, <3>2, Observed DEF CaptureInv
  <2>2. lastDigest \in Seq(Letters) /\ acknowledged.content = DigestProbe(lastDigest)
    BY <1>7 DEF CaptureInv, DigestInv
  <2>3. captured = lastDigest
    <3>1. acknowledged.content # <<>> /\ acknowledged.content[1] = lastDigest
      BY <2>2, ObjectIsComplete
    <3>2. captured = Owed(acknowledged.content)
      BY <1>7 DEF CaptureInv, EmittedIsAcknowledged
    <3> QED BY <3>1, <3>2 DEF Owed
  <2>5. lastDigest = contents
    BY <2>1, <2>2, ProbesDiffer
  <2>6. ~fresh /\ prior = captured
    BY <1>7, <2>5
  <2> HIDE DEF fresh, prior
  <2> QED BY <1>2, <1>3, <2>3, <2>5, <2>6
<1> QED BY <1>5, <1>6, <1>7
-------------------------------------------------------------------------------
(* The invariant.                                                          *)

LEMMA CaptureInitially == CaptureInit => CaptureInv
<1> SUFFICES ASSUME CaptureInit PROVE CaptureInv
  OBVIOUS
<1>1. (CHOOSE i \in Inodes : TRUE) \in Inodes
  BY NoneAssumption
<1>2. file \in Files
  BY <1>1 DEF CaptureInit, Files
<1>3. CaptureTypeOK
  <2>1. steady \in BOOLEAN
    BY Zenon DEF CaptureInit
  <2> QED BY <1>2, <2>1 DEF CaptureInit, CaptureTypeOK
<1> QED BY <1>3 DEF CaptureInit, CaptureInv, BeforeFirstInv, DigestInv, CompleteInv,
                    SteadyInv, EmittedIsAcknowledged

\* Steps that leave the tracker and the stream alone keep what is said of
\* them.
LEMMA StreamUntouched ==
    ASSUME CaptureInv, UNCHANGED <<kind, tracker, stream>>
    PROVE  /\ BeforeFirstInv' /\ DigestInv' /\ CompleteInv' /\ EmittedIsAcknowledged'
           /\ \A f : Intact(f)' <=> Intact(f)
<1>1. BeforeFirstInv' /\ DigestInv' /\ EmittedIsAcknowledged'
  BY DEF CaptureInv, BeforeFirstInv, DigestInv, EmittedIsAcknowledged, tracker, stream,
         Owed, NewCursor
<1>2. CompleteInv'
  BY DEF CaptureInv, CompleteInv, tracker
<1>3. \A f : Intact(f)' <=> Intact(f)
  BY DEF Intact, Tracked, tracker
<1> QED BY <1>1, <1>2, <1>3

LEMMA ReadPreserves == CaptureInv /\ Read => CaptureInv'
<1> SUFFICES ASSUME CaptureInv, Read PROVE CaptureInv'
  OBVIOUS
<1>1. pc = "read" /\ identity \in Inodes /\ UNCHANGED <<file, kind>> /\ pc' = "idle"
  BY DEF Read, CaptureInv, CaptureTypeOK, EndPass, harness, source
<1>2. PICK contents \in Reads :
         /\ Observe(Decision(identity, Tracked(contents)), identity, Tracked(contents))
         /\ Emit(Rotated(Decision(identity, Tracked(contents))), contents)
  BY DEF Read
<1>3. contents \in Seq(Letters)
  BY <1>1, ReadsAreLetters DEF CaptureInv
<1>4. CaptureTypeOK /\ kind \in {"jsonl", "object"}
  BY DEF CaptureInv, CaptureTypeOK
<1>5. Tracked(contents) \in Seq(Elements)
  <2>1. CASE kind = "jsonl"
    BY <1>3, <2>1, SeqMonotonic DEF Tracked, Elements
  <2>2. CASE kind = "object"
    BY <1>3, <2>2, ObjectIsComplete DEF Tracked
  <2> QED BY <1>4, <2>1, <2>2
<1>6. /\ acknowledged' = [identity |-> identity, content |-> CompletePrefix(Tracked(contents))]
      /\ acknowledged' \in Acknowledgements /\ acknowledged' # None
      /\ generation' \in [number : Nat, cause : Causes \cup {None}]
  BY <1>1, <1>2, <1>4, <1>5, Observed
<1>7. generation'.cause \in Causes
  <2>1. CASE acknowledged = None
    BY <1>1, <1>2, <1>4, <1>5, <2>1, Observed DEF Causes
  <2>2. CASE acknowledged # None
    <3>1. generation.cause \in Causes
      BY <2>2 DEF CaptureInv, EmittedIsAcknowledged
    <3> QED BY <1>1, <1>2, <1>4, <1>5, <2>2, <3>1, Observed
  <2> QED BY <2>1, <2>2
<1>8. /\ captured' = Owed(acknowledged.content)' /\ captured' \in Seq(Letters)
      /\ sequence' \in Nat
      /\ kind = "jsonl" =>
            /\ cursor' = [position |-> Len(captured'), records |-> RecordCount(captured')]
            /\ (sequence' = 0) <=> (captured' = <<>>)
      /\ kind = "object" =>
            /\ lastDigest' \in Seq(Letters)
            /\ acknowledged'.content = DigestProbe(lastDigest')
  <2>1. CASE kind = "jsonl"
    <3>1. Tracked(contents) = contents /\ EmitRecords(Rotated(Decision(identity, contents)), contents)
      BY <1>2, <2>1 DEF Tracked, Emit
    <3>2. /\ captured' = CompletePrefix(contents)
          /\ captured' \in Seq(Letters)
          /\ cursor' = [position |-> Len(captured'), records |-> RecordCount(captured')]
          /\ sequence' \in Nat
          /\ (sequence' = 0) <=> (captured' = <<>>)
      BY <1>1, <1>2, <1>3, <2>1, <3>1, RecordsEmitted
    <3>3. Owed(acknowledged.content)' = CompletePrefix(contents)
      BY <1>1, <1>6, <2>1, <3>1 DEF Owed
    <3> QED BY <2>1, <3>2, <3>3
  <2>2. CASE kind = "object"
    <3>1. /\ Tracked(contents) = DigestProbe(contents)
          /\ EmitObject(Rotated(Decision(identity, DigestProbe(contents))), contents)
      BY <1>2, <2>2 DEF Tracked, Emit
    <3>2. captured' = contents /\ lastDigest' = contents /\ sequence' \in Nat
      BY <1>1, <1>2, <1>3, <2>2, <3>1, ObjectEmitted
    <3>3. acknowledged'.content = DigestProbe(contents)
      BY <1>3, <1>6, <3>1, ObjectIsComplete
    <3>4. Owed(acknowledged.content)' = contents
      BY <1>1, <1>3, <2>2, <3>3, ObjectIsComplete DEF Owed
    <3> QED BY <1>3, <2>2, <3>2, <3>3, <3>4
  <2> QED BY <1>4, <2>1, <2>2
<1>9. CaptureTypeOK'
  <2>1. restarts' = restarts
    BY DEF Read
  <2>2. steady' = FALSE
    BY DEF Read, EndPass
  <2> QED BY <1>1, <1>4, <1>6, <1>8, <2>1, <2>2 DEF CaptureTypeOK
<1>10. EmittedIsAcknowledged'
  BY <1>1, <1>7, <1>8 DEF EmittedIsAcknowledged
<1>11. BeforeFirstInv' /\ DigestInv'
  BY <1>1, <1>6, <1>8 DEF BeforeFirstInv, DigestInv
<1>12. CompleteInv'
  BY <1>5, <1>6, CompletePrefixIsComplete DEF CompleteInv
<1>13. SteadyInv'
  BY DEF Read, EndPass, SteadyInv
<1> QED BY <1>9, <1>10, <1>11, <1>12, <1>13 DEF CaptureInv

LEMMA CapturePreserves == CaptureInv /\ [CaptureNext]_vars => CaptureInv'
<1> SUFFICES ASSUME CaptureInv, [CaptureNext]_vars PROVE CaptureInv'
  OBVIOUS
<1> USE DEF CaptureInv
<1>1. CASE Write
  <2>1. UNCHANGED <<kind, tracker, stream, pc, identity, snapshot>>
    BY <1>1 DEF Write, source
  <2>2. steady' = (steady /\ Intact(file'))
    BY <1>1 DEF Write
  <2>3. CaptureTypeOK'
    BY <1>1, <2>1, <2>2 DEF Write, CaptureTypeOK, tracker, stream
  <2>4. \A f : Intact(f)' <=> Intact(f)
    BY <2>1, StreamUntouched
  <2>5. SteadyInv'
    <3> SUFFICES ASSUME steady'
                 PROVE  /\ Intact(file)'
                        /\ identity' = acknowledged'.identity
                        /\ pc' = "read" => Intact(snapshot)'
      BY DEF SteadyInv
    <3>1. steady /\ Intact(file')
      BY <2>2
    <3>2. Intact(file)'
      BY <2>1, <3>1 DEF Intact, Tracked, tracker
    <3>3. pc' = "read" => Intact(snapshot)'
      BY <2>1, <3>1 DEF SteadyInv, Intact, Tracked, tracker
    <3> QED BY <2>1, <3>1, <3>2, <3>3 DEF SteadyInv, tracker
  <2> QED BY <2>1, <2>3, <2>5, StreamUntouched
<1>2. CASE Stat
  <2>1. UNCHANGED <<kind, tracker, stream, file>>
    BY <1>2 DEF Stat, Abandon, source, harness
  <2>2. CaptureTypeOK'
    BY <1>2, <2>1 DEF Stat, Abandon, EndPass, CaptureTypeOK, harness, source, tracker, stream,
       Files, Intact
  <2>3. SteadyInv'
    <3>1. CASE file # None
      <4>1. pc' = "probe" /\ identity' = file.inode /\ steady' = Intact(file)
        BY <1>2, <3>1 DEF Stat
      <4> QED BY <2>1, <4>1 DEF SteadyInv, Intact, Tracked, tracker
    <3>2. CASE file = None
      BY <1>2, <3>2 DEF Stat, Abandon, EndPass, SteadyInv
    <3> QED BY <3>1, <3>2
  <2> QED BY <2>1, <2>2, <2>3, StreamUntouched
<1>3. CASE Probe
  <2>1. UNCHANGED <<kind, tracker, stream, file>>
    BY <1>3 DEF Probe, Abandon, source, harness
  <2>2. CaptureTypeOK'
    BY <1>3, <2>1 DEF Probe, Abandon, EndPass, CaptureTypeOK, harness, source, tracker, stream
  <2>3. steady' => steady /\ UNCHANGED identity /\ pc' = "open"
    BY <1>3 DEF Probe, Abandon, EndPass
  <2>4. SteadyInv'
    BY <2>1, <2>3 DEF SteadyInv, Intact, Tracked, tracker
  <2> QED BY <2>1, <2>2, <2>4, StreamUntouched
<1>4. CASE Open
  <2>1. UNCHANGED <<kind, tracker, stream, file>>
    BY <1>4 DEF Open, Abandon, source, harness
  <2>2. CaptureTypeOK'
    BY <1>4, <2>1 DEF Open, Abandon, EndPass, CaptureTypeOK, harness, source, tracker, stream
  <2>3. steady' => steady /\ UNCHANGED identity /\ snapshot' = file
    BY <1>4 DEF Open, Abandon, EndPass
  <2>4. SteadyInv'
    BY <2>1, <2>3 DEF SteadyInv, Intact, Tracked, tracker
  <2> QED BY <2>1, <2>2, <2>4, StreamUntouched
<1>5. CASE Read
  BY <1>5, ReadPreserves
<1>6. CASE Restart
  <2>1. CaptureTypeOK'
    <3>1. generation' \in [number : Nat, cause : Causes \cup {None}]
      BY <1>6 DEF Restart, CaptureTypeOK
    <3>2. steady' \in BOOLEAN
      BY <1>6, Zenon DEF Restart, EndPass
    <3> QED BY <1>6, <3>1, <3>2 DEF Restart, EndPass, CaptureTypeOK, harness
  <2>2. BeforeFirstInv' /\ DigestInv' /\ EmittedIsAcknowledged'
    BY <1>6 DEF Restart, BeforeFirstInv, DigestInv, EmittedIsAcknowledged, NewCursor
  <2>3. CompleteInv' /\ SteadyInv'
    BY <1>6 DEF Restart, EndPass, CompleteInv, SteadyInv
  <2> QED BY <2>1, <2>2, <2>3
<1>7. CASE UNCHANGED vars
  <2>1. UNCHANGED <<kind, tracker, stream>> /\ CaptureTypeOK'
    BY <1>7 DEF vars, CaptureTypeOK, tracker, stream
  <2>2. SteadyInv'
    BY <1>7 DEF vars, SteadyInv, Intact, Tracked
  <2> QED BY <2>1, <2>2, StreamUntouched
<1> QED BY <1>1, <1>2, <1>3, <1>4, <1>5, <1>6, <1>7 DEF CaptureNext, Pass

\* The inductive invariant of a file's capture: the accounts the pass, the
\* tracker, the cursor and the object digest keep agree in every state.
THEOREM CaptureInvariant == CaptureSpec => []CaptureInv
<1>1. CaptureInit => CaptureInv
  BY CaptureInitially
<1>2. CaptureInv /\ [CaptureNext]_vars => CaptureInv'
  BY CapturePreserves
<1> QED BY <1>1, <1>2, PTL DEF CaptureSpec

\* What a generation has emitted is what the tracker acknowledged, with the
\* cursor at its end: CaptureCursor::observe never meets a snapshot shorter
\* than its position, and no record is emitted twice or left out, for any
\* contents and any number of changes, torn reads and restarts.
THEOREM EmittedStaysAcknowledged == CaptureSpec => []EmittedIsAcknowledged
<1>1. CaptureInv => EmittedIsAcknowledged
  BY DEF CaptureInv
<1> QED BY <1>1, CaptureInvariant, PTL

\* What a steady pass reads still begins with everything acknowledged.
LEMMA SteadyReadContinues ==
    ASSUME CaptureInv, pc = "read", steady, acknowledged # None, NEW contents \in Reads
    PROVE  /\ contents \in Seq(Letters)
           /\ Tracked(contents) \in Seq(Elements)
           /\ IsPrefix(acknowledged.content, CompletePrefix(Tracked(contents)))
<1> DEFINE a == acknowledged.content
           old == snapshot.bytes
           now == file.bytes
<1>1. CaptureTypeOK /\ snapshot \in Files /\ file \in Files
      /\ acknowledged \in Acknowledgements /\ kind \in {"jsonl", "object"}
  BY DEF CaptureInv, CaptureTypeOK, SteadyInv, Intact
<1>2. contents \in Seq(Letters) /\ old \in Seq(Letters) /\ now \in Seq(Letters)
      /\ a \in Seq(Elements)
  BY <1>1, ReadsAreLetters, ContentsAssumption DEF Files, Acknowledgements
<1>3. IsPrefix(a, Tracked(old)) /\ IsPrefix(a, Tracked(now)) /\ file.inode = snapshot.inode
  BY DEF CaptureInv, SteadyInv, Intact
<1>4. PICK k \in 0 .. Len(old) :
         contents = SubSeq(old, 1, k) \o SubSeq(now, k + 1, Len(now))
  <2>1. Reads = {SubSeq(old, 1, k) \o SubSeq(now, k + 1, Len(now)) : k \in 0 .. Len(old)}
    <3>1. file # None /\ file.inode = snapshot.inode
      BY <1>3 DEF CaptureInv, SteadyInv, Intact
    <3> QED BY <3>1 DEF Reads
  <2> QED BY <2>1
<1>5. LastNewline(a) = Len(a)
  BY DEF CaptureInv, CompleteInv
<1>6. CASE kind = "jsonl"
  <2>1. /\ old \in Seq(Elements) /\ now \in Seq(Elements) /\ contents \in Seq(Elements)
        /\ Tracked(old) = old /\ Tracked(now) = now /\ Tracked(contents) = contents
    BY <1>2, <1>6, SeqMonotonic DEF Tracked, Elements
  <2> HIDE DEF a, old, now
  <2>2. StartsWith(old, a) /\ StartsWith(now, a)
    BY <1>2, <1>3, <2>1, PrefixElements
  <2>3. StartsWith(contents, a)
    BY <1>2, <1>4, <2>1, <2>2, TornReadKeeps
  <2>4. IsPrefix(a, CompletePrefix(contents))
    BY <1>2, <1>5, <2>1, <2>3, AcknowledgedSurvives
  <2> QED BY <1>2, <2>1, <2>4 DEF a
<1>7. CASE kind = "object"
  <2>1. lastDigest \in Seq(Letters) /\ a = DigestProbe(lastDigest)
    BY <1>7 DEF CaptureInv, DigestInv
  <2>2. /\ Tracked(old) = DigestProbe(old) /\ Tracked(now) = DigestProbe(now)
        /\ Tracked(contents) = DigestProbe(contents)
    BY <1>7 DEF Tracked
  <2> HIDE DEF a, old, now
  <2>3. old = lastDigest /\ now = lastDigest
    <3>1. IsPrefix(DigestProbe(lastDigest), DigestProbe(old))
          /\ IsPrefix(DigestProbe(lastDigest), DigestProbe(now))
      BY <1>3, <2>1, <2>2
    <3> QED BY <1>2, <2>1, <3>1, ProbesDiffer
  <2>4. contents = lastDigest
    <3> DEFINE d == lastDigest
               left == SubSeq(d, 1, k)
               right == SubSeq(d, k + 1, Len(d))
    <3>1. d \in Seq(Letters) /\ Len(d) \in Nat /\ k \in 0 .. Len(d) /\ contents = left \o right
      BY <1>4, <2>1, <2>3
    <3> HIDE DEF d
    <3>2. \A i \in 1 .. Len(d) : d[i] \in Letters
      BY <3>1, ElementOfSeq
    <3>3. left \in Seq(Letters) /\ Len(left) = k
      <4>1. left \in Seq(Letters) /\ Len(left) = IF 1 <= k THEN k - 1 + 1 ELSE 0
        <5>1. \A i \in 1 .. k : d[i] \in Letters
          BY <3>1, <3>2
        <5> QED BY <3>1, <5>1, SubSeqProperties
      <4> HIDE DEF left
      <4> QED BY <3>1, <4>1
    <3>4. right \in Seq(Letters) /\ Len(right) = Len(d) - k
      <4>1. /\ right \in Seq(Letters)
            /\ Len(right) = IF k + 1 <= Len(d) THEN Len(d) - (k + 1) + 1 ELSE 0
        <5>1. \A i \in k + 1 .. Len(d) : d[i] \in Letters
          BY <3>1, <3>2
        <5> k + 1 \in Int /\ Len(d) \in Int
          BY <3>1
        <5> QED BY <5>1, SubSeqProperties
      <4> HIDE DEF right
      <4> QED BY <3>1, <4>1
    <3>5. Len(left \o right) = Len(d)
      <4>1. Len(left \o right) = Len(left) + Len(right)
        BY <3>3, <3>4, ConcatProperties
      <4> HIDE DEF left, right
      <4> QED BY <3>1, <3>3, <3>4, <4>1
    <3>6. \A i \in 1 .. Len(d) : (left \o right)[i] = d[i]
      <4>1. StartsWith(d, d)
        BY <3>1 DEF StartsWith
      <4>2. StartsWith(left \o right, d)
        BY <3>1, <4>1, TornReadKeeps
      <4> QED BY <4>2 DEF StartsWith
    <3>7. left \o right \in Seq(Letters)
      BY <3>3, <3>4, ConcatProperties
    <3> HIDE DEF left, right
    <3>8. left \o right = d
      BY <3>1, <3>5, <3>6, <3>7, SeqEqual
    <3> QED BY <3>1, <3>8 DEF d
  <2>5. DigestProbe(contents) = a /\ CompletePrefix(a) = a /\ a \in Seq(Elements)
    BY <2>1, <2>4, ObjectIsComplete
  <2>6. SubSeq(a, 1, Len(a)) = SubSeq(a, 1, Len(a)) /\ Len(a) <= Len(a)
    BY <2>5
  <2>7. IsPrefix(a, a)
    BY <2>6 DEF IsPrefix
  <2>8. CompletePrefix(Tracked(contents)) = a
    BY <2>2, <2>5
  <2> QED BY <1>2, <2>2, <2>5, <2>7, <2>8 DEF a
<1> QED BY <1>1, <1>6, <1>7

\* A generation is closed for cause only: whatever is in the file and however
\* the harness appends to it while it is read, a pass over a file that kept
\* what was acknowledged continues the generation.
THEOREM GenerationsCloseForCause == CaptureSpec => RotatesForCause
<1> DEFINE ForCause == (acknowledged # None /\ acknowledged' # None /\ steady) =>
                          generation' = generation
<1>1. CaptureInv /\ [CaptureNext]_vars => [ForCause]_vars
  <2> SUFFICES ASSUME CaptureInv, CaptureNext, acknowledged # None, acknowledged' # None, steady
               PROVE  generation' = generation
    OBVIOUS
  <2>1. CASE ~Read
    BY <2>1 DEF CaptureNext, Pass, Write, Stat, Probe, Open, Restart, Abandon, tracker
  <2>2. CASE Read
    <3>1. PICK contents \in Reads :
             Observe(Decision(identity, Tracked(contents)), identity, Tracked(contents))
      BY <2>2 DEF Read
    <3>2. pc = "read" /\ CaptureTypeOK /\ identity \in Inodes /\ identity = acknowledged.identity
      BY <2>2 DEF Read, CaptureInv, CaptureTypeOK, SteadyInv
    <3>3. /\ Tracked(contents) \in Seq(Elements)
          /\ IsPrefix(acknowledged.content, CompletePrefix(Tracked(contents)))
      BY <3>2, SteadyReadContinues
    <3> DEFINE d == Decision(identity, Tracked(contents))
    <3>4. /\ Rotated(d) <=> ~ (identity = acknowledged.identity
                                 /\ IsPrefix(acknowledged.content, CompletePrefix(Tracked(contents))))
          /\ ~Rotated(d) => generation' = generation
      BY <3>1, <3>2, <3>3, Observed
    <3> HIDE DEF d
    <3> QED BY <3>2, <3>3, <3>4
  <2> QED BY <2>1, <2>2
<1> QED BY <1>1, CaptureInvariant, PTL DEF CaptureSpec, RotatesForCause
-------------------------------------------------------------------------------
(***************************************************************************)
(* When sources are served.                                                *)
(***************************************************************************)


\* What a round is planned from.
RoundTypeOK ==
    /\ active \subseteq Sources /\ unclean \subseteq Sources
    /\ bytes \in [Sources -> Nat] /\ events \in [Sources -> Nat]
    /\ capacity \in Nat /\ quantum \in Nat
-------------------------------------------------------------------------------
(* Arithmetic.                                                             *)

\* A chunk holds at least one byte.
LEMMA ChunkType == Chunk \in Nat /\ Chunk > 0
<1>1. ChunkBytes \in Nat
  BY SizesAssumption DEF SizesAssumption
<1> DEFINE T == {ChunkBytes, 1}
<1>2. \E x \in T : \A y \in T : x >= y
  BY <1>1
<1>3. Chunk \in T /\ \A y \in T : Chunk >= y
  <2> HIDE DEF T
  <2>1. Max(T) \in T /\ \A y \in T : Max(T) >= y
    BY <1>2, Zenon DEF Max
  <2> QED BY <2>1 DEF Chunk, T
<1> QED BY <1>1, <1>3

\* More of a positive number is more.
LEMMA TimesOrdered ==
    ASSUME NEW x \in Nat, NEW y \in Nat, NEW b \in Nat
    PROVE  /\ x * b \in Nat /\ (x + 1) * b = x * b + b
           /\ x <= y => x * b <= y * b
           /\ x * b < y * b => x < y
<1>1. x * b \in Nat /\ y * b \in Nat /\ (x + 1) * b = x * b + b
  BY Z3
<1>2. x <= y => x * b <= y * b
  BY Z3
<1> QED BY <1>1, <1>2

\* The quotient's defining bounds.
LEMMA QuotientBounds ==
    ASSUME NEW a \in Nat, NEW b \in Nat, b > 0
    PROVE  a \div b \in Nat /\ (a \div b) * b <= a /\ a < (a \div b) * b + b
BY Z3

\* backlog_chunks' div_ceil is the least number of chunks that hold a bytes.
LEMMA CeilDivLeast ==
    ASSUME NEW a \in Nat, NEW b \in Nat, b > 0
    PROVE  /\ CeilDiv(a, b) \in Nat /\ CeilDiv(a, b) * b >= a
           /\ \A n \in Nat : n * b >= a => CeilDiv(a, b) <= n
<1> DEFINE q == CeilDiv(a, b)
<1>1. q \in Nat /\ q * b <= a + b - 1 /\ a + b - 1 < q * b + b
  <2>1. a + b - 1 \in Nat
    OBVIOUS
  <2> QED BY <2>1, QuotientBounds DEF CeilDiv
<1> HIDE DEF q
<1>2. ASSUME NEW n \in Nat, n * b >= a PROVE q <= n
  <2>1. q * b \in Nat /\ n * b \in Nat /\ (n + 1) * b = n * b + b
    BY <1>1, TimesOrdered
  <2>2. q * b < (n + 1) * b
    BY <1>1, <1>2, <2>1
  <2>3. q < n + 1
    BY <1>1, <2>2, TimesOrdered
  <2> QED BY <1>1, <2>3
<1>3. q * b \in Nat
  BY <1>1, TimesOrdered
<1> QED BY <1>1, <1>2, <1>3 DEF q

\* A smaller backlog, served by a larger round, takes fewer rounds.
LEMMA RoundsFewer ==
    ASSUME NEW a \in Nat, NEW k \in Nat, k > 0, NEW a1 \in Nat, NEW k1 \in Nat, k1 >= k,
           a1 + k <= a
    PROVE  a1 \div k1 + 1 <= a \div k
<1> DEFINE q == a1 \div k1
           p == a \div k
<1>1. q \in Nat /\ q * k1 <= a1
  BY QuotientBounds
<1>2. p \in Nat /\ a < p * k + k
  BY QuotientBounds
<1> HIDE DEF q, p
<1>3. q * k <= q * k1
  BY <1>1, Z3
<1>4. q * k \in Nat /\ q * k1 \in Nat /\ p * k \in Nat /\ (q + 1) * k = q * k + k
      /\ (p + 1) * k = p * k + k
  BY <1>1, <1>2, TimesOrdered
<1>5. (q + 1) * k < (p + 1) * k
  BY <1>1, <1>2, <1>3, <1>4
<1>6. q + 1 < p + 1
  BY <1>1, <1>2, <1>5, TimesOrdered
<1> QED BY <1>1, <1>2, <1>6 DEF q, p
-------------------------------------------------------------------------------
(* The two loops of plan() as recursions over the sources served so far.   *)

ReserveStart == [spent |-> 0, short |-> 0, grants |-> [s \in Sources |-> NoGrant]]

BackfillStart == [spent |-> 0, deferred |-> 0, grants |-> [s \in Sources |-> NoGrant]]

Grants == [Sources -> [bytes : Int, chunks : Int]]

\* What reserve_freshness leads to after the sources of T.
IsReserveLoop(G) ==
    /\ G[{}] = ReserveStart
    /\ \A T \in SUBSET (Eligible \cap active) :
          T # {} => \E x \in T : G[T] = Reserve(G[T \ {x}], x)

\* What plan_backfill leads to after the sources of T, of which the one that
\* ranks behind all others comes last.
IsBackfillLoop(G, res) ==
    /\ G[{}] = BackfillStart
    /\ \A T \in SUBSET Eligible : T # {} =>
          \E x \in T : /\ \A y \in T \ {x} : RanksAhead(y, x)
                       /\ G[T] = BackfillStep(res, G[T \ {x}], x)

\* A reservation leads from accumulator to accumulator.
LEMMA ReserveType ==
    ASSUME RoundTypeOK, NEW s \in Sources,
           NEW acc \in [spent : Int, short : Int, grants : Grants]
    PROVE  Reserve(acc, s) \in [spent : Int, short : Int, grants : Grants]
<1> DEFINE grant == Least(Chunk, bytes[s])
           served == [spent |-> acc.spent + grant, short |-> 0,
                      grants |-> [acc.grants EXCEPT ![s] = [bytes |-> grant, chunks |-> 1]]]
<1>1. grant \in Nat
  BY ChunkType DEF Least, RoundTypeOK
<1> HIDE DEF grant
<1>2. served \in [spent : Int, short : Int, grants : Grants]
  <2>1. [acc.grants EXCEPT ![s] = [bytes |-> grant, chunks |-> 1]] \in Grants
    BY <1>1 DEF Grants
  <2> HIDE DEF Grants
  <2> QED BY <1>1, <2>1
<1>3. [acc EXCEPT !.short = @ + 1] \in [spent : Int, short : Int, grants : Grants]
  OBVIOUS
<1>4. Reserve(acc, s) = IF acc.short = 0 /\ grant <= capacity - acc.spent THEN served
                        ELSE [acc EXCEPT !.short = @ + 1]
  BY DEF Reserve, grant
<1> QED BY <1>2, <1>3, <1>4

\* Reservations is the loop: folding over the eligible active sources runs
\* Reserve once for each of them.
LEMMA ReservationsLoop ==
    ASSUME RoundTypeOK
    PROVE  \E G : IsReserveLoop(G) /\ Reservations = G[Eligible \cap active]
<1> DEFINE E == Eligible \cap active
           Accs == [spent : Int, short : Int, grants : Grants]
           last(T) == LastOf(T, <)
           pick == [T \in SUBSET E |-> last(T)]
           F == [p \in Accs \X E |-> Reserve(p[1], p[2])]
           R == {p \in Nat \X Nat : p[1] < p[2]}
<1>1. E \subseteq Sources /\ E \subseteq Nat /\ IsFiniteSet(E)
  BY SourcesAssumption, FS_Subset DEF SourcesAssumption, Eligible
<1>2. \A T \in SUBSET E : T # {} => last(T) \in T
  <2> SUFFICES ASSUME NEW T \in SUBSET E, T # {} PROVE last(T) \in T
    OBVIOUS
  <2>1. Orders(R, E)
    BY <1>1 DEF Orders
  <2>2. PICK x \in T : \A y \in T \ {x} : <<y, x>> \in R
    <3>1. IsFiniteSet(E)
      BY <1>1
    <3> HIDE DEF R, E
    <3> QED BY <2>1, <3>1, LastElement, Zenon
  <2>3. \A y \in T \ {x} : y < x
    BY <2>2
  <2> QED BY <2>3, Zenon DEF LastOf
<1>3. Picks(pick, E)
  BY <1>2 DEF Picks
<1>4. F \in [Accs \X E -> Accs]
  <2>1. \A p \in Accs \X E : Reserve(p[1], p[2]) \in Accs
    BY <1>1, ReserveType
  <2> HIDE DEF Accs, E
  <2> QED BY <2>1
<1>5. ReserveStart \in Accs
  BY DEF ReserveStart, Grants, NoGrant
<1>6. PICK G \in [SUBSET E -> Accs] : FoldsUp(G, F, ReserveStart, pick, E)
  <2> HIDE DEF pick, F, E, Accs
  <2> QED BY <1>1, <1>3, <1>4, <1>5, FoldExists
<1> DEFINE Iterates(iter) ==
              iter = [T \in SUBSET E |-> IF T = {} THEN ReserveStart
                                        ELSE Reserve(iter[T \ {last(T)}], last(T))]
<1>7. Iterates(G)
  <2>1. ASSUME NEW T \in SUBSET E, T # {}
        PROVE  G[T] = Reserve(G[T \ {last(T)}], last(T))
    <3>1. last(T) \in E /\ T \ {last(T)} \in SUBSET E /\ pick[T] = last(T)
      BY <1>2, <2>1
    <3>2. G[T] = F[<<G[T \ {last(T)}], last(T)>>]
      BY <1>6, <2>1, <3>1 DEF FoldsUp
    <3> HIDE DEF last, E, Accs
    <3>3. <<G[T \ {last(T)}], last(T)>> \in Accs \X E
      BY <1>6, <3>1
    <3> QED BY <3>2, <3>3
  <2>2. G[{}] = ReserveStart
    BY <1>6 DEF FoldsUp
  <2> HIDE DEF last, E
  <2> QED BY <1>6, <2>1, <2>2
<1> DEFINE I == CHOOSE iter : Iterates(iter)
<1>8. Iterates(I)
  <2> HIDE DEF Iterates
  <2> QED BY <1>7
<1>9. Reservations = I[E]
  BY DEF Reservations, InOrder, MapThenFoldSet, ReserveStart
<1> HIDE DEF I
<1>10. IsReserveLoop(I)
  <2>1. I[{}] = ReserveStart
    BY <1>8
  <2>2. ASSUME NEW T \in SUBSET E, T # {} PROVE \E x \in T : I[T] = Reserve(I[T \ {x}], x)
    <3>1. last(T) \in T
      BY <1>2, <2>2
    <3> HIDE DEF last, E
    <3>2. I[T] = Reserve(I[T \ {last(T)}], last(T))
      BY <1>8, <2>2
    <3> QED BY <3>1, <3>2
  <2> QED BY <2>1, <2>2 DEF IsReserveLoop
<1> QED BY <1>9, <1>10
-------------------------------------------------------------------------------
(* What the reservations come to.                                          *)

\* The bytes of one reserved chunk of each source.
OneChunk == [s \in Sources |-> Least(Chunk, bytes[s])]

\* After the sources of T: nothing beyond the capacity, one chunk for each
\* source served; all of T are served, or T asks for more than there is.
ReservedFor(acc, T) ==
    /\ acc \in [spent : Nat, short : Nat, grants : [Sources -> [bytes : Nat, chunks : Nat]]]
    /\ acc.spent <= capacity
    /\ \A s \in Sources :
          \/ acc.grants[s] = NoGrant
          \/ s \in T /\ acc.grants[s] = [bytes |-> OneChunk[s], chunks |-> 1]
    /\ acc.short = 0 => /\ acc.spent = SumFunctionOnSet(OneChunk, T)
                        /\ \A s \in T : acc.grants[s].chunks = 1
    /\ acc.short > 0 => SumFunctionOnSet(OneChunk, T) > capacity

\* A reserved chunk is never more than the source has.
LEMMA OneChunkType ==
    RoundTypeOK => OneChunk \in [Sources -> Nat] /\ \A s \in Sources : OneChunk[s] <= bytes[s]
BY ChunkType DEF OneChunk, Least, RoundTypeOK

\* reserve_freshness keeps to that, one source at a time.
LEMMA ReserveKeeps ==
    ASSUME RoundTypeOK, NEW T \in SUBSET Sources, NEW x \in T, NEW acc,
           ReservedFor(acc, T \ {x})
    PROVE  ReservedFor(Reserve(acc, x), T)
<1> DEFINE grant == OneChunk[x]
           new == Reserve(acc, x)
           sum(U) == SumFunctionOnSet(OneChunk, U)
<1>1. grant \in Nat /\ grant = Least(Chunk, bytes[x]) /\ x \in Sources /\ capacity \in Nat
  BY OneChunkType DEF OneChunk, RoundTypeOK
<1>2. sum(T) = grant + sum(T \ {x}) /\ sum(T \ {x}) \in Nat
  <2>1. T \ {x} \in SUBSET Sources
    OBVIOUS
  <2>2. OneChunk \in [Sources -> Nat] /\ IsFiniteSet(Sources)
    BY OneChunkType, SourcesAssumption DEF SourcesAssumption
  <2>3. /\ \A U \in SUBSET Sources : SumFunctionOnSet(OneChunk, U) \in Nat
        /\ \A U \in SUBSET Sources : \A y \in U :
             SumFunctionOnSet(OneChunk, U) = OneChunk[y] + SumFunctionOnSet(OneChunk, U \ {y})
    BY <2>2, SumSteps
  <2> QED BY <2>1, <2>3
<1>3. new = IF acc.short = 0 /\ grant <= capacity - acc.spent
            THEN [spent |-> acc.spent + grant, short |-> 0,
                  grants |-> [acc.grants EXCEPT ![x] = [bytes |-> grant, chunks |-> 1]]]
            ELSE [acc EXCEPT !.short = @ + 1]
  BY <1>1 DEF Reserve
<1> HIDE DEF grant, new, sum
<1>4. CASE acc.short = 0 /\ grant <= capacity - acc.spent
  <2>1. new = [spent |-> acc.spent + grant, short |-> 0,
               grants |-> [acc.grants EXCEPT ![x] = [bytes |-> grant, chunks |-> 1]]]
    BY <1>3, <1>4
  <2>2. acc.grants \in [Sources -> [bytes : Nat, chunks : Nat]] /\ acc.spent \in Nat
    BY DEF ReservedFor
  <2>3. new \in [spent : Nat, short : Nat, grants : [Sources -> [bytes : Nat, chunks : Nat]]]
        /\ new.spent <= capacity
    BY <1>1, <1>4, <2>1, <2>2
  <2>4. ASSUME NEW s \in Sources
        PROVE  \/ new.grants[s] = NoGrant
               \/ s \in T /\ new.grants[s] = [bytes |-> OneChunk[s], chunks |-> 1]
    <3>1. CASE s = x
      BY <1>1, <2>1, <2>2, <3>1 DEF grant
    <3>2. CASE s # x
      <4>1. new.grants[s] = acc.grants[s]
        BY <2>1, <2>2, <3>2
      <4>2. \/ acc.grants[s] = NoGrant
            \/ s \in T \ {x} /\ acc.grants[s] = [bytes |-> OneChunk[s], chunks |-> 1]
        BY DEF ReservedFor
      <4> QED BY <4>1, <4>2
    <3> QED BY <3>1, <3>2
  <2>5. new.spent = sum(T) /\ \A s \in T : new.grants[s].chunks = 1
    BY <1>1, <1>2, <1>4, <2>1, <2>2 DEF ReservedFor, sum
  <2> QED BY <2>1, <2>3, <2>4, <2>5 DEF ReservedFor, new, sum
<1>5. CASE ~ (acc.short = 0 /\ grant <= capacity - acc.spent)
  <2>1. new = [acc EXCEPT !.short = @ + 1]
    BY <1>3, <1>5
  <2>2. new \in [spent : Nat, short : Nat, grants : [Sources -> [bytes : Nat, chunks : Nat]]]
        /\ new.spent = acc.spent /\ new.grants = acc.grants /\ new.short > 0
    BY <2>1 DEF ReservedFor
  <2>3. sum(T) > capacity
    BY <1>1, <1>2, <1>5 DEF ReservedFor, sum
  <2> QED BY <2>2, <2>3 DEF ReservedFor, new, sum
<1> QED BY <1>4, <1>5

\* What every plan reserves.
LEMMA ReservationsKept == RoundTypeOK => ReservedFor(Reservations, Eligible \cap active)
<1> SUFFICES ASSUME RoundTypeOK PROVE ReservedFor(Reservations, Eligible \cap active)
  OBVIOUS
<1> DEFINE E == Eligible \cap active
<1>1. PICK G : IsReserveLoop(G) /\ Reservations = G[E]
  BY ReservationsLoop
<1>2. E \subseteq Sources /\ IsFiniteSet(E)
  BY SourcesAssumption, FS_Subset DEF SourcesAssumption, Eligible
<1> DEFINE Good == {T \in SUBSET E : ReservedFor(G[T], T)}
<1>3. ASSUME NEW T \in SUBSET E, \A U \in SUBSET T : U # T => U \in Good
      PROVE  T \in Good
  <2>1. CASE T = {}
    <3>1. SumFunctionOnSet(OneChunk, {}) = 0
      BY OneChunkType, SumSteps, SourcesAssumption DEF SourcesAssumption
    <3>2. G[T] = ReserveStart
      BY <1>1, <2>1 DEF IsReserveLoop
    <3> QED BY <2>1, <3>1, <3>2 DEF ReservedFor, ReserveStart, NoGrant, RoundTypeOK
  <2>2. CASE T # {}
    <3>1. PICK x \in T : G[T] = Reserve(G[T \ {x}], x)
      BY <1>1, <2>2 DEF IsReserveLoop
    <3>2. ReservedFor(G[T \ {x}], T \ {x})
      <4>1. T \ {x} \in SUBSET T /\ T \ {x} # T
        OBVIOUS
      <4> QED BY <1>3, <4>1
    <3>3. T \in SUBSET Sources
      BY <1>2
    <3> HIDE DEF E
    <3> QED BY <3>1, <3>2, <3>3, ReserveKeeps
  <2> QED BY <2>1, <2>2
<1>4. Hereditary(Good, E)
  BY <1>3 DEF Hereditary
<1> HIDE DEF Good
<1>5. E \in Good
  BY <1>2, <1>4, SubsetInduction
<1> QED BY <1>1, <1>5 DEF Good
-------------------------------------------------------------------------------
(* What backfill comes to.                                                 *)

\* The outstanding chunks of a source, and how its bytes fill them.
LEMMA BacklogType ==
    RoundTypeOK =>
           /\ BacklogChunks \in [Sources -> Nat]
           /\ \A s \in Sources :
                 /\ bytes[s] <= BacklogChunks[s] * Chunk
                 /\ \A n \in Nat : bytes[s] > 0 /\ n * Chunk >= bytes[s] => BacklogChunks[s] <= n
                 /\ bytes[s] > 0 => BacklogChunks[s] > 0
                 /\ bytes[s] = 0 => BacklogChunks[s] = IF events[s] > 0 THEN 1 ELSE 0
<1> SUFFICES ASSUME RoundTypeOK, NEW s \in Sources
             PROVE  /\ BacklogChunks[s] \in Nat
                    /\ bytes[s] <= BacklogChunks[s] * Chunk
                    /\ \A n \in Nat : bytes[s] > 0 /\ n * Chunk >= bytes[s] => BacklogChunks[s] <= n
                    /\ bytes[s] > 0 => BacklogChunks[s] > 0
                    /\ bytes[s] = 0 => BacklogChunks[s] = IF events[s] > 0 THEN 1 ELSE 0
  BY DEF BacklogChunks
<1>1. bytes[s] \in Nat /\ events[s] \in Nat
  BY DEF RoundTypeOK
<1>2. BacklogChunks[s] = IF bytes[s] > 0 THEN CeilDiv(bytes[s], Chunk)
                        ELSE IF events[s] > 0 THEN 1 ELSE 0
  BY DEF BacklogChunks
<1>3. CASE bytes[s] > 0
  <2> DEFINE q == CeilDiv(bytes[s], Chunk)
  <2>1. q \in Nat /\ q * Chunk >= bytes[s] /\ \A n \in Nat : n * Chunk >= bytes[s] => q <= n
    BY <1>1, ChunkType, CeilDivLeast
  <2> HIDE DEF q
  <2>2. q * Chunk \in Nat
    BY <2>1, ChunkType, TimesOrdered
  <2>3. q # 0
    <3>1. 0 * Chunk = 0
      BY ChunkType
    <3> QED BY <1>1, <1>3, <2>1, <3>1
  <2> QED BY <1>1, <1>2, <1>3, <2>1, <2>2, <2>3 DEF q
<1>4. CASE bytes[s] = 0
  <2>1. \A n \in Nat : n * Chunk \in Nat
    BY ChunkType, TimesOrdered
  <2>2. BacklogChunks[s] \in Nat
    BY <1>1, <1>2, <1>4
  <2> QED BY <1>1, <1>2, <1>4, <2>1, <2>2
<1> QED BY <1>1, <1>3, <1>4

\* What reservations leave of a source is never negative.
LEMMA ResidualType ==
    ASSUME RoundTypeOK, NEW res, ReservedFor(res, Eligible \cap active), NEW s \in Sources
    PROVE  /\ res.grants[s].chunks \in Nat /\ res.grants[s].bytes \in Nat
           /\ BacklogChunks[s] - res.grants[s].chunks \in Nat
           /\ bytes[s] - res.grants[s].bytes \in Nat
<1>1. bytes[s] \in Nat /\ BacklogChunks[s] \in Nat /\ OneChunk[s] \in Nat /\ OneChunk[s] <= bytes[s]
  BY BacklogType, OneChunkType DEF RoundTypeOK
<1>2. CASE res.grants[s] = NoGrant
  BY <1>1, <1>2 DEF NoGrant
<1>3. CASE s \in Eligible /\ res.grants[s] = [bytes |-> OneChunk[s], chunks |-> 1]
  <2>1. BacklogChunks[s] > 0
    BY <1>3, BacklogType DEF Eligible, RoundTypeOK
  <2> QED BY <1>1, <1>3, <2>1
<1> QED BY <1>2, <1>3 DEF ReservedFor

\* A backfill share g of s: whole chunks of the residual, within the quantum.
ShareOf(res, s, g) ==
    /\ g.chunks <= BacklogChunks[s] - res.grants[s].chunks
    /\ g.chunks * Chunk <= quantum
    /\ g.bytes = Least(bytes[s] - res.grants[s].bytes, g.chunks * Chunk)

\* What BackfillShare grants, and why it grants nothing.
LEMMA ShareBounds ==
    ASSUME RoundTypeOK, NEW res, ReservedFor(res, Eligible \cap active),
           NEW s \in Sources, NEW left \in Nat
    PROVE  LET g == BackfillShare(res, s, left)
           IN /\ g \in [bytes : Nat, chunks : Nat]
              /\ ShareOf(res, s, g) /\ g.bytes <= left
              /\ g.chunks = 0 /\ quantum >= Chunk /\ BacklogChunks[s] # res.grants[s].chunks
                   => left < Chunk /\ bytes[s] - res.grants[s].bytes > 0
<1> DEFINE rc == BacklogChunks[s] - res.grants[s].chunks
           rb == bytes[s] - res.grants[s].bytes
           budget == quantum \div Chunk
           room == left \div Chunk
           fits == Least(Least(rc, budget), room)
           chunks == IF fits = 0 /\ rb = 0 THEN Least(rc, budget) ELSE fits
           g == BackfillShare(res, s, left)
<1>1. rc \in Nat /\ rb \in Nat /\ Chunk \in Nat /\ Chunk > 0 /\ quantum \in Nat
      /\ (rc = 0 => BacklogChunks[s] = res.grants[s].chunks)
  <2>1. BacklogChunks[s] \in Nat
    BY BacklogType
  <2>2. rc \in Nat /\ rb \in Nat /\ res.grants[s].chunks \in Nat
    BY ResidualType
  <2> QED BY <2>1, <2>2, ChunkType DEF RoundTypeOK
<1>2. budget \in Nat /\ budget * Chunk <= quantum /\ (quantum >= Chunk => budget # 0)
  <2>1. budget \in Nat /\ budget * Chunk <= quantum /\ quantum < budget * Chunk + Chunk
    BY <1>1, QuotientBounds
  <2> HIDE DEF budget
  <2>2. 0 * Chunk = 0
    BY <1>1
  <2> QED BY <1>1, <2>1, <2>2
<1>3. room \in Nat /\ room * Chunk <= left /\ (room = 0 => left < Chunk)
  <2>1. room \in Nat /\ room * Chunk <= left /\ left < room * Chunk + Chunk
    BY <1>1, QuotientBounds
  <2> HIDE DEF room
  <2>2. 0 * Chunk = 0
    BY <1>1
  <2> QED BY <1>1, <2>1, <2>2
<1>4. g = [bytes |-> Least(rb, chunks * Chunk), chunks |-> chunks]
  <2>1. (IF left > 0 THEN left ELSE 0) = left
    OBVIOUS
  <2> QED BY <2>1 DEF BackfillShare
<1> HIDE DEF rc, rb, budget, room, g
<1>5. chunks \in Nat /\ chunks <= rc /\ chunks <= budget
      /\ (rb # 0 => chunks <= room)
      /\ (chunks = 0 /\ budget # 0 /\ rc # 0 => room = 0 /\ rb # 0)
  BY <1>1, <1>2, <1>3 DEF Least
<1> HIDE DEF chunks
<1>6. chunks * Chunk \in Nat /\ chunks * Chunk <= quantum /\ (rb # 0 => chunks * Chunk <= left)
  <2>1. chunks * Chunk \in Nat /\ budget * Chunk \in Nat /\ room * Chunk \in Nat
    BY <1>1, <1>2, <1>3, <1>5, TimesOrdered
  <2>2. chunks * Chunk <= budget * Chunk
    BY <1>1, <1>2, <1>5, TimesOrdered
  <2>3. rb # 0 => chunks * Chunk <= room * Chunk
    BY <1>1, <1>3, <1>5, TimesOrdered
  <2> QED BY <1>1, <1>2, <1>3, <2>1, <2>2, <2>3
<1> DEFINE full == chunks * Chunk
<1>7. g = [bytes |-> Least(rb, full), chunks |-> chunks]
  BY <1>4
<1>8. full \in Nat /\ full <= quantum /\ (rb # 0 => full <= left) /\ g.chunks * Chunk = full
  BY <1>6, <1>7
<1> HIDE DEF full
<1>9. g \in [bytes : Nat, chunks : Nat] /\ g.bytes <= left
  BY <1>1, <1>5, <1>7, <1>8 DEF Least
<1>10. ShareOf(res, s, g)
  BY <1>5, <1>7, <1>8 DEF ShareOf, rc, rb
<1>11. g.chunks = 0 /\ quantum >= Chunk /\ BacklogChunks[s] # res.grants[s].chunks
         => left < Chunk /\ rb > 0
  BY <1>1, <1>2, <1>3, <1>5, <1>7
<1> QED BY <1>9, <1>10, <1>11 DEF g, rb

\* The order backfill spends in is total, transitive and without ties.
LEMMA RanksOrder ==
    ASSUME RoundTypeOK
    PROVE  /\ \A x, y \in Sources : x = y \/ RanksAhead(x, y) \/ RanksAhead(y, x)
           /\ \A x, y, z \in Sources : RanksAhead(x, y) /\ RanksAhead(y, z) => RanksAhead(x, z)
           /\ \A x, y \in Sources : RanksAhead(x, y) => ~RanksAhead(y, x) /\ x # y
<1>1. \A x \in Sources : x \in Nat /\ bytes[x] \in Nat /\ events[x] \in Nat
  BY SourcesAssumption DEF SourcesAssumption, RoundTypeOK
<1> QED BY <1>1 DEF RanksAhead

\* A turn of backfill leads from accumulator to accumulator.
LEMMA BackfillType ==
    ASSUME RoundTypeOK, NEW res, ReservedFor(res, Eligible \cap active), NEW s \in Sources,
           NEW acc \in [spent : Int, deferred : Int, grants : Grants]
    PROVE  BackfillStep(res, acc, s) \in [spent : Int, deferred : Int, grants : Grants]
<1> DEFINE left == capacity - res.spent - acc.spent
           share == BackfillShare(res, s, left)
           room == IF left > 0 THEN left ELSE 0
           served == [spent |-> acc.spent + share.bytes, deferred |-> acc.deferred,
                      grants |-> [acc.grants EXCEPT ![s] = share]]
<1>1. share \in [bytes : Int, chunks : Int]
  <2>1. left \in Int
    BY DEF ReservedFor, RoundTypeOK
  <2>2. room \in Nat
    BY <2>1
  <2>3. share = BackfillShare(res, s, room)
    <3>1. (IF room > 0 THEN room ELSE 0) = room
      BY <2>2
    <3> HIDE DEF left
    <3> QED BY <3>1 DEF BackfillShare
  <2> HIDE DEF share, room
  <2>4. share \in [bytes : Nat, chunks : Nat]
    BY <2>2, <2>3, ShareBounds
  <2> QED BY <2>4
<1> HIDE DEF share
<1>2. served \in [spent : Int, deferred : Int, grants : Grants]
  <2>1. [acc.grants EXCEPT ![s] = share] \in Grants
    BY <1>1 DEF Grants
  <2> HIDE DEF Grants
  <2> QED BY <1>1, <2>1
<1>3. [acc EXCEPT !.deferred = @ + 1] \in [spent : Int, deferred : Int, grants : Grants]
  OBVIOUS
<1>4. \/ BackfillStep(res, acc, s) = acc
      \/ BackfillStep(res, acc, s) = [acc EXCEPT !.deferred = @ + 1]
      \/ BackfillStep(res, acc, s) = served
  BY DEF BackfillStep, share
<1> HIDE DEF served
<1> QED BY <1>2, <1>3, <1>4

\* Backfill is the loop: folding over the eligible sources gives each its
\* turn, behind all those that rank ahead of it.
LEMMA BackfillLoop ==
    ASSUME RoundTypeOK, NEW res, ReservedFor(res, Eligible \cap active)
    PROVE  \E G : IsBackfillLoop(G, res) /\ Backfill(res) = G[Eligible]
<1> DEFINE E == Eligible
           Accs == [spent : Int, deferred : Int, grants : Grants]
           last(T) == LastOf(T, RanksAhead)
           pick == [T \in SUBSET E |-> last(T)]
           F == [p \in Accs \X E |-> BackfillStep(res, p[1], p[2])]
           R == {p \in Sources \X Sources : RanksAhead(p[1], p[2])}
<1>1. E \subseteq Sources /\ IsFiniteSet(E)
  BY SourcesAssumption, FS_Subset DEF SourcesAssumption, Eligible
<1>2. \A T \in SUBSET E : T # {} =>
         last(T) \in T /\ \A y \in T \ {last(T)} : RanksAhead(y, last(T))
  <2> SUFFICES ASSUME NEW T \in SUBSET E, T # {}
               PROVE  last(T) \in T /\ \A y \in T \ {last(T)} : RanksAhead(y, last(T))
    OBVIOUS
  <2>1. Orders(R, E)
    <3>1. \A x, y \in E : <<x, y>> \in R <=> RanksAhead(x, y)
      BY <1>1
    <3> HIDE DEF R, E
    <3> QED BY <1>1, <3>1, RanksOrder DEF Orders
  <2>2. PICK x \in T : \A y \in T \ {x} : <<y, x>> \in R
    <3>1. IsFiniteSet(E)
      BY <1>1
    <3> HIDE DEF R, E
    <3> QED BY <2>1, <3>1, LastElement, Zenon
  <2>3. \A y \in T \ {x} : RanksAhead(y, x)
    BY <2>2
  <2> QED BY <2>3, Zenon DEF LastOf
<1>3. Picks(pick, E)
  BY <1>2 DEF Picks
<1>4. F \in [Accs \X E -> Accs]
  <2>1. \A p \in Accs \X E : BackfillStep(res, p[1], p[2]) \in Accs
    BY <1>1, BackfillType
  <2> HIDE DEF Accs, E
  <2> QED BY <2>1
<1>5. BackfillStart \in Accs
  BY DEF BackfillStart, Grants, NoGrant
<1>6. PICK G \in [SUBSET E -> Accs] : FoldsUp(G, F, BackfillStart, pick, E)
  <2> HIDE DEF pick, F, E, Accs
  <2> QED BY <1>1, <1>3, <1>4, <1>5, FoldExists
<1> DEFINE Iterates(iter) ==
              iter = [T \in SUBSET E |-> IF T = {} THEN BackfillStart
                                        ELSE BackfillStep(res, iter[T \ {last(T)}], last(T))]
<1>7. Iterates(G)
  <2>1. ASSUME NEW T \in SUBSET E, T # {}
        PROVE  G[T] = BackfillStep(res, G[T \ {last(T)}], last(T))
    <3>1. last(T) \in E /\ T \ {last(T)} \in SUBSET E /\ pick[T] = last(T)
      BY <1>2, <2>1
    <3>2. G[T] = F[<<G[T \ {last(T)}], last(T)>>]
      BY <1>6, <2>1, <3>1 DEF FoldsUp
    <3> HIDE DEF last, E, Accs
    <3>3. <<G[T \ {last(T)}], last(T)>> \in Accs \X E
      BY <1>6, <3>1
    <3> QED BY <3>2, <3>3
  <2>2. G[{}] = BackfillStart
    BY <1>6 DEF FoldsUp
  <2> HIDE DEF last, E
  <2> QED BY <1>6, <2>1, <2>2
<1> DEFINE I == CHOOSE iter : Iterates(iter)
<1>8. Iterates(I)
  <2> HIDE DEF Iterates
  <2> QED BY <1>7
<1>9. Backfill(res) = I[E]
  BY DEF Backfill, InOrder, MapThenFoldSet, BackfillStart
<1> HIDE DEF I
<1>10. IsBackfillLoop(I, res)
  <2>1. I[{}] = BackfillStart
    BY <1>8
  <2>2. ASSUME NEW T \in SUBSET E, T # {}
        PROVE  \E x \in T : /\ \A y \in T \ {x} : RanksAhead(y, x)
                            /\ I[T] = BackfillStep(res, I[T \ {x}], x)
    <3>1. last(T) \in T /\ \A y \in T \ {last(T)} : RanksAhead(y, last(T))
      BY <1>2, <2>2
    <3> HIDE DEF last, E
    <3>2. I[T] = BackfillStep(res, I[T \ {last(T)}], last(T))
      BY <1>8, <2>2
    <3> QED BY <3>1, <3>2
  <2> QED BY <2>1, <2>2 DEF IsBackfillLoop
<1> QED BY <1>9, <1>10

ChunksOf(acc) == [s \in Sources |-> acc.grants[s].chunks]

\* A source with something left to do that backfill could have served.
PassedOver(res, acc, s) ==
    /\ res.short = 0 /\ quantum >= Chunk
    /\ BacklogChunks[s] # res.grants[s].chunks
    /\ acc.grants[s].chunks = 0

\* Why a source is passed over: what its turn found left was less than a
\* chunk, and those ahead of it had been granted the rest.
LeftBehind(res, acc, s) ==
    /\ bytes[s] - res.grants[s].bytes > 0
    /\ capacity - res.spent - acc.spent < Chunk
    /\ capacity - res.spent < (SumFunctionOnSet(ChunksOf(acc), Ahead(s)) + 1) * Chunk

\* After the sources of T, the ones that rank ahead of all others.
BackfilledFor(res, acc, T) ==
    /\ acc \in [spent : Nat, deferred : Nat, grants : [Sources -> [bytes : Nat, chunks : Nat]]]
    /\ res.spent + acc.spent <= capacity
    /\ \A s \in Sources :
          \/ acc.grants[s] = NoGrant
          \/ s \in T /\ acc.grants[s].chunks > 0 /\ ShareOf(res, s, acc.grants[s])
    /\ res.short > 0 => acc.spent = 0 /\ \A s \in Sources : acc.grants[s] = NoGrant
    /\ acc.spent <= SumFunctionOnSet(ChunksOf(acc), T) * Chunk
    /\ \A s \in T : PassedOver(res, acc, s) => LeftBehind(res, acc, s)

\* A turn of plan_backfill that grants nothing.
LEMMA PassKeeps ==
    ASSUME RoundTypeOK, NEW res, ReservedFor(res, Eligible \cap active),
           NEW T \in SUBSET Eligible, NEW x \in T, \A y \in T \ {x} : RanksAhead(y, x),
           NEW acc, BackfilledFor(res, acc, T \ {x}),
           NEW new \in [spent : Nat, deferred : Nat,
                        grants : [Sources -> [bytes : Nat, chunks : Nat]]],
           new.spent = acc.spent, new.grants = acc.grants,
           PassedOver(res, acc, x) => capacity - res.spent - acc.spent < Chunk
                                      /\ bytes[x] - res.grants[x].bytes > 0
    PROVE  BackfilledFor(res, new, T)
<1> DEFINE sum(U) == SumFunctionOnSet(ChunksOf(acc), U)
<1>1. T \subseteq Sources /\ T \ {x} \in SUBSET Sources /\ IsFiniteSet(Sources)
      /\ Ahead(x) \in SUBSET Sources /\ T \ {x} \in SUBSET Ahead(x)
  BY SourcesAssumption DEF SourcesAssumption, Eligible, Ahead
<1>2. ChunksOf(acc) \in [Sources -> Nat]
  BY DEF ChunksOf, BackfilledFor
<1>3. sum(T \ {x}) \in Nat /\ sum(T) \in Nat /\ sum(Ahead(x)) \in Nat
  BY <1>1, <1>2, SumSteps
<1>4. sum(T \ {x}) <= sum(T) /\ sum(T \ {x}) <= sum(Ahead(x))
  BY <1>1, <1>2, SumMonotone
<1>5. ChunksOf(new) = ChunksOf(acc)
  BY DEF ChunksOf
<1> HIDE DEF sum
<1>6. acc.spent \in Nat /\ res.spent \in Nat /\ capacity \in Nat /\ Chunk \in Nat
      /\ acc.spent <= sum(T \ {x}) * Chunk
  BY ChunkType DEF BackfilledFor, ReservedFor, RoundTypeOK, sum
<1>7. /\ sum(T \ {x}) * Chunk \in Nat /\ sum(T) * Chunk \in Nat /\ sum(Ahead(x)) * Chunk \in Nat
      /\ sum(T \ {x}) * Chunk <= sum(T) * Chunk
      /\ sum(T \ {x}) * Chunk <= sum(Ahead(x)) * Chunk
      /\ (sum(Ahead(x)) + 1) * Chunk = sum(Ahead(x)) * Chunk + Chunk
  BY <1>3, <1>4, <1>6, TimesOrdered
<1>8. new.spent <= sum(T) * Chunk
  BY <1>6, <1>7
<1>9. ASSUME NEW s \in T, PassedOver(res, new, s) PROVE LeftBehind(res, new, s)
  <2>1. PassedOver(res, acc, s)
    BY <1>9 DEF PassedOver
  <2>2. CASE s # x
    BY <1>5, <2>1, <2>2 DEF BackfilledFor, LeftBehind
  <2>3. CASE s = x
    <3>1. capacity - res.spent - acc.spent < Chunk /\ bytes[x] - res.grants[x].bytes > 0
      BY <2>1, <2>3
    <3>2. capacity - res.spent < (sum(Ahead(x)) + 1) * Chunk
      BY <1>6, <1>7, <3>1
    <3> QED BY <1>5, <2>3, <3>1, <3>2 DEF LeftBehind, sum
  <2> QED BY <2>2, <2>3
<1>10. \A s \in Sources : \/ new.grants[s] = NoGrant
                          \/ s \in T /\ new.grants[s].chunks > 0 /\ ShareOf(res, s, new.grants[s])
  BY DEF BackfilledFor
<1>11. res.spent + new.spent <= capacity
       /\ (res.short > 0 => new.spent = 0 /\ \A s \in Sources : new.grants[s] = NoGrant)
  BY DEF BackfilledFor
<1> QED BY <1>5, <1>8, <1>9, <1>10, <1>11 DEF BackfilledFor, sum

\* A turn of plan_backfill that grants x the share g.
LEMMA ShareKeeps ==
    ASSUME RoundTypeOK, NEW res, ReservedFor(res, Eligible \cap active), res.short = 0,
           NEW T \in SUBSET Eligible, NEW x \in T, \A y \in T \ {x} : RanksAhead(y, x),
           NEW acc, BackfilledFor(res, acc, T \ {x}),
           NEW g \in [bytes : Nat, chunks : Nat], ShareOf(res, x, g), g.chunks > 0,
           g.bytes <= capacity - res.spent - acc.spent
    PROVE  BackfilledFor(res, [spent |-> acc.spent + g.bytes, deferred |-> acc.deferred,
                               grants |-> [acc.grants EXCEPT ![x] = g]], T)
<1> DEFINE new == [spent |-> acc.spent + g.bytes, deferred |-> acc.deferred,
                   grants |-> [acc.grants EXCEPT ![x] = g]]
           sum(U) == SumFunctionOnSet(ChunksOf(acc), U)
           newSum(U) == SumFunctionOnSet(ChunksOf(new), U)
<1>1. T \subseteq Sources /\ T \in SUBSET Sources /\ T \ {x} \in SUBSET Sources
      /\ IsFiniteSet(Sources) /\ x \in Sources
      /\ \A s \in Sources : Ahead(s) \in SUBSET Sources
  BY SourcesAssumption DEF SourcesAssumption, Eligible, Ahead
<1>2. acc \in [spent : Nat, deferred : Nat, grants : [Sources -> [bytes : Nat, chunks : Nat]]]
      /\ acc.spent \in Nat /\ res.spent \in Nat /\ capacity \in Nat /\ Chunk \in Nat
      /\ acc.spent <= sum(T \ {x}) * Chunk
  BY ChunkType DEF BackfilledFor, ReservedFor, RoundTypeOK
<1>3. new \in [spent : Nat, deferred : Nat, grants : [Sources -> [bytes : Nat, chunks : Nat]]]
  BY <1>1, <1>2
<1>4. /\ new.spent = acc.spent + g.bytes
      /\ new.grants[x] = g /\ \A s \in Sources \ {x} : new.grants[s] = acc.grants[s]
  BY <1>1, <1>2
<1> HIDE DEF new
<1>5. /\ ChunksOf(acc) \in [Sources -> Nat] /\ ChunksOf(new) \in [Sources -> Nat]
      /\ ChunksOf(new)[x] = g.chunks
      /\ \A s \in Sources \ {x} : ChunksOf(new)[s] = ChunksOf(acc)[s]
  BY <1>1, <1>2, <1>3, <1>4 DEF ChunksOf
<1>6. \A U \in SUBSET Sources : x \notin U => newSum(U) = sum(U)
  BY <1>1, <1>5, SumCongruent
<1>7. sum(T \ {x}) \in Nat /\ newSum(T) = g.chunks + sum(T \ {x})
  <2>1. sum(T \ {x}) \in Nat
    BY <1>1, <1>5, SumSteps
  <2>2. newSum(T) = ChunksOf(new)[x] + newSum(T \ {x})
    <3>1. \A U \in SUBSET Sources : \A y \in U : newSum(U) = ChunksOf(new)[y] + newSum(U \ {y})
      <4>1. ChunksOf(new) \in [Sources -> Nat] /\ IsFiniteSet(Sources)
        BY <1>1, <1>5
      <4> DEFINE f == ChunksOf(new)
      <4>2. f \in [Sources -> Nat] /\ IsFiniteSet(Sources)
        BY <4>1
      <4> HIDE DEF f
      <4>3. /\ \A U \in SUBSET Sources : SumFunctionOnSet(f, U) \in Nat
            /\ \A U \in SUBSET Sources : \A y \in U :
                  SumFunctionOnSet(f, U) = f[y] + SumFunctionOnSet(f, U \ {y})
        BY <4>2, SumSteps
      <4> QED BY <4>3 DEF f
    <3> QED BY <1>1, <3>1
  <2> QED BY <1>1, <1>5, <1>6, <2>1, <2>2
<1> HIDE DEF sum, newSum
<1>8. new.spent <= newSum(T) * Chunk
  <2>1. g.chunks * Chunk \in Nat /\ sum(T \ {x}) * Chunk \in Nat
    BY <1>2, <1>7, TimesOrdered
  <2>2. g.bytes <= g.chunks * Chunk
    <3>1. bytes[x] - res.grants[x].bytes \in Nat
      BY <1>1, ResidualType
    <3> QED BY <2>1, <3>1 DEF ShareOf, Least
  <2>3. (g.chunks + sum(T \ {x})) * Chunk = g.chunks * Chunk + sum(T \ {x}) * Chunk
    BY <1>2, <1>7, Z3
  <2> QED BY <1>2, <1>4, <1>7, <2>1, <2>2, <2>3
<1>9. ASSUME NEW s \in T, PassedOver(res, new, s) PROVE LeftBehind(res, new, s)
  <2>1. s # x
    BY <1>4, <1>9 DEF PassedOver
  <2>2. new.grants[s] = acc.grants[s]
    BY <1>1, <1>4, <2>1
  <2>3. LeftBehind(res, acc, s)
    BY <1>9, <2>1, <2>2 DEF BackfilledFor, PassedOver
  <2>4. x \notin Ahead(s)
    BY <1>1, <2>1, RanksOrder DEF Ahead
  <2>5. newSum(Ahead(s)) = sum(Ahead(s))
    BY <1>1, <1>6, <2>4
  <2>6. capacity - res.spent - new.spent < Chunk
    BY <1>2, <1>4, <2>3 DEF LeftBehind
  <2> QED BY <2>3, <2>5, <2>6 DEF LeftBehind, sum, newSum
<1>10. \A s \in Sources : \/ new.grants[s] = NoGrant
                          \/ s \in T /\ new.grants[s].chunks > 0 /\ ShareOf(res, s, new.grants[s])
  BY <1>4 DEF BackfilledFor
<1>11. res.spent + new.spent <= capacity
  BY <1>2, <1>4
<1>12. BackfilledFor(res, new, T)
  BY <1>3, <1>8, <1>9, <1>10, <1>11 DEF BackfilledFor, newSum
<1> QED BY <1>12 DEF new

\* plan_backfill keeps to BackfilledFor, one source at a time.
LEMMA BackfillKeeps ==
    ASSUME RoundTypeOK, NEW res, ReservedFor(res, Eligible \cap active),
           NEW T \in SUBSET Eligible, NEW x \in T, \A y \in T \ {x} : RanksAhead(y, x),
           NEW acc, BackfilledFor(res, acc, T \ {x})
    PROVE  BackfilledFor(res, BackfillStep(res, acc, x), T)
<1> DEFINE left == capacity - res.spent - acc.spent
           g == BackfillShare(res, x, left)
           Accs == [spent : Nat, deferred : Nat, grants : [Sources -> [bytes : Nat, chunks : Nat]]]
<1>1. left \in Nat /\ acc \in Accs /\ x \in Sources /\ res.short \in Nat
  BY DEF BackfilledFor, ReservedFor, RoundTypeOK, Eligible
<1>2. /\ g \in [bytes : Nat, chunks : Nat] /\ ShareOf(res, x, g) /\ g.bytes <= left
      /\ g.chunks = 0 /\ quantum >= Chunk /\ BacklogChunks[x] # res.grants[x].chunks
           => left < Chunk /\ bytes[x] - res.grants[x].bytes > 0
  <2> HIDE DEF left
  <2> QED BY <1>1, ShareBounds
<1> HIDE DEF g
<1>3. CASE BacklogChunks[x] = res.grants[x].chunks
  <2>1. BackfillStep(res, acc, x) = acc
    BY <1>3 DEF BackfillStep
  <2>2. ~PassedOver(res, acc, x)
    BY <1>3 DEF PassedOver
  <2> QED BY <1>1, <2>1, <2>2, PassKeeps
<1>4. CASE BacklogChunks[x] # res.grants[x].chunks /\ (res.short > 0 \/ g.chunks = 0)
  <2> DEFINE new == [acc EXCEPT !.deferred = @ + 1]
  <2>1. BackfillStep(res, acc, x) = new
    BY <1>4 DEF BackfillStep, g
  <2>2. new \in Accs /\ new.spent = acc.spent /\ new.grants = acc.grants
    BY <1>1
  <2>3. PassedOver(res, acc, x) => left < Chunk /\ bytes[x] - res.grants[x].bytes > 0
    BY <1>1, <1>2, <1>4 DEF PassedOver
  <2> HIDE DEF new
  <2> QED BY <2>1, <2>2, <2>3, PassKeeps
<1>5. CASE BacklogChunks[x] # res.grants[x].chunks /\ ~(res.short > 0 \/ g.chunks = 0)
  <2>1. BackfillStep(res, acc, x) = [spent |-> acc.spent + g.bytes, deferred |-> acc.deferred,
                                     grants |-> [acc.grants EXCEPT ![x] = g]]
    BY <1>5 DEF BackfillStep, g
  <2>2. res.short = 0 /\ g.chunks > 0
    BY <1>1, <1>2, <1>5
  <2>3. g \in [bytes : Nat, chunks : Nat] /\ ShareOf(res, x, g)
        /\ g.bytes <= capacity - res.spent - acc.spent
    BY <1>2
  <2>4. BackfilledFor(res, [spent |-> acc.spent + g.bytes, deferred |-> acc.deferred,
                            grants |-> [acc.grants EXCEPT ![x] = g]], T)
    BY <2>2, <2>3, ShareKeeps, Zenon
  <2> QED BY <2>1, <2>4
<1> QED BY <1>3, <1>4, <1>5

\* What every plan backfills.
LEMMA BackfillKept ==
    ASSUME RoundTypeOK, NEW res, ReservedFor(res, Eligible \cap active)
    PROVE  BackfilledFor(res, Backfill(res), Eligible)
<1>1. PICK G : IsBackfillLoop(G, res) /\ Backfill(res) = G[Eligible]
  BY BackfillLoop
<1>2. Eligible \subseteq Sources /\ IsFiniteSet(Eligible)
  BY SourcesAssumption, FS_Subset DEF SourcesAssumption, Eligible
<1> DEFINE Good == {T \in SUBSET Eligible : BackfilledFor(res, G[T], T)}
<1>3. ASSUME NEW T \in SUBSET Eligible, \A U \in SUBSET T : U # T => U \in Good
      PROVE  T \in Good
  <2>1. CASE T = {}
    <3>1. G[{}] = BackfillStart
      BY <1>1 DEF IsBackfillLoop
    <3>2. ChunksOf(BackfillStart) \in [Sources -> Nat]
      BY DEF ChunksOf, BackfillStart, NoGrant
    <3>3. SumFunctionOnSet(ChunksOf(BackfillStart), {}) = 0
      BY <3>2, SumSteps, SourcesAssumption DEF SourcesAssumption
    <3>4. 0 * Chunk = 0
      BY ChunkType
    <3>5. /\ BackfillStart \in [spent : Nat, deferred : Nat,
                                grants : [Sources -> [bytes : Nat, chunks : Nat]]]
          /\ BackfillStart.spent = 0 /\ \A s \in Sources : BackfillStart.grants[s] = NoGrant
      BY DEF BackfillStart, NoGrant
    <3>6. res.spent \in Nat /\ res.spent <= capacity /\ capacity \in Nat
      BY DEF ReservedFor, RoundTypeOK
    <3>7. BackfilledFor(res, BackfillStart, {})
      BY <3>3, <3>4, <3>5, <3>6 DEF BackfilledFor
    <3> QED BY <2>1, <3>1, <3>7
  <2>2. CASE T # {}
    <3>1. PICK x \in T : /\ \A y \in T \ {x} : RanksAhead(y, x)
                         /\ G[T] = BackfillStep(res, G[T \ {x}], x)
      BY <1>1, <2>2 DEF IsBackfillLoop
    <3>2. BackfilledFor(res, G[T \ {x}], T \ {x})
      <4>1. T \ {x} \in SUBSET T /\ T \ {x} # T
        OBVIOUS
      <4> QED BY <1>3, <4>1
    <3> QED BY <3>1, <3>2, BackfillKeeps
  <2> QED BY <2>1, <2>2
<1>4. Hereditary(Good, Eligible)
  BY <1>3 DEF Hereditary
<1> HIDE DEF Good
<1>5. Eligible \in Good
  BY <1>2, <1>4, SubsetInduction
<1> QED BY <1>1, <1>5 DEF Good
-------------------------------------------------------------------------------
(* What a plan grants, and what is left after it.                          *)

\* The plan's two passes.
LEMMA PlanKept ==
    RoundTypeOK => /\ Plan.reservations = Reservations
                   /\ Plan.backfill = Backfill(Reservations)
                   /\ ReservedFor(Plan.reservations, Eligible \cap active)
                   /\ BackfilledFor(Plan.reservations, Plan.backfill, Eligible)
<1> SUFFICES ASSUME RoundTypeOK
             PROVE  /\ Plan.reservations = Reservations
                    /\ Plan.backfill = Backfill(Reservations)
                    /\ ReservedFor(Plan.reservations, Eligible \cap active)
                    /\ BackfilledFor(Plan.reservations, Plan.backfill, Eligible)
  OBVIOUS
<1>1. Plan.reservations = Reservations /\ Plan.backfill = Backfill(Reservations)
  BY DEF Plan
<1>2. ReservedFor(Reservations, Eligible \cap active)
  BY ReservationsKept
<1>3. BackfilledFor(Reservations, Backfill(Reservations), Eligible)
  BY <1>2, BackfillKept
<1> QED BY <1>1, <1>2, <1>3

\* A grant of b bytes and c chunks to s: no more than s has, and all of whole
\* chunks unless it takes everything.
GrantFits(s, b, c) ==
    /\ b \in Nat /\ c \in Nat
    /\ b <= bytes[s] /\ c <= BacklogChunks[s]
    /\ c * Chunk \in Nat /\ b <= c * Chunk
    /\ b < bytes[s] => b = c * Chunk
    /\ c > 0 => s \in Eligible

\* Both lanes together never grant a source more than it has.
LEMMA GrantsFit ==
    ASSUME RoundTypeOK, NEW s \in Sources
    PROVE  GrantFits(s, GrantedBytes(Plan, s), GrantedChunks(Plan, s))
<1> DEFINE r == Plan.reservations.grants[s]
           k == Plan.backfill.grants[s]
           b == r.bytes + k.bytes
           c == r.chunks + k.chunks
<1>1. r \in [bytes : Nat, chunks : Nat] /\ k \in [bytes : Nat, chunks : Nat]
  BY PlanKept DEF ReservedFor, BackfilledFor
<1>2. bytes[s] \in Nat /\ BacklogChunks[s] \in Nat /\ Chunk \in Nat /\ Chunk > 0
      /\ BacklogChunks[s] - r.chunks \in Nat /\ bytes[s] - r.bytes \in Nat
  <2>1. bytes[s] \in Nat /\ BacklogChunks[s] \in Nat
    BY BacklogType DEF RoundTypeOK
  <2>2. BacklogChunks[s] - r.chunks \in Nat /\ bytes[s] - r.bytes \in Nat
    BY PlanKept, ResidualType
  <2> QED BY <2>1, <2>2, ChunkType
<1>3. \/ r = NoGrant
      \/ s \in Eligible /\ r = [bytes |-> OneChunk[s], chunks |-> 1]
  BY PlanKept DEF ReservedFor
<1>4. \/ k = NoGrant
      \/ s \in Eligible /\ ShareOf(Plan.reservations, s, k)
  BY PlanKept DEF BackfilledFor
<1> HIDE DEF r, k
<1>5. r.chunks * Chunk \in Nat /\ r.bytes <= r.chunks * Chunk
      /\ (r.bytes < bytes[s] => r.bytes = r.chunks * Chunk)
      /\ (r.chunks > 0 => s \in Eligible)
  <2>1. CASE r = NoGrant
    <3>1. r.chunks = 0 /\ r.bytes = 0 /\ 0 * Chunk = 0
      BY <1>2, <2>1 DEF NoGrant
    <3> QED BY <3>1
  <2>2. CASE s \in Eligible /\ r = [bytes |-> OneChunk[s], chunks |-> 1]
    <3>1. r.chunks = 1 /\ r.bytes = OneChunk[s] /\ 1 * Chunk = Chunk
      BY <1>2, <2>2
    <3>2. OneChunk[s] = Least(Chunk, bytes[s])
      BY DEF OneChunk
    <3> QED BY <1>2, <2>2, <3>1, <3>2 DEF Least
  <2> QED BY <1>3, <2>1, <2>2
<1>6. k.chunks * Chunk \in Nat /\ k.bytes <= k.chunks * Chunk
      /\ k.chunks <= BacklogChunks[s] - r.chunks /\ k.bytes <= bytes[s] - r.bytes
      /\ (k.bytes < bytes[s] - r.bytes => k.bytes = k.chunks * Chunk)
      /\ (k.chunks > 0 => s \in Eligible)
  <2>1. CASE k = NoGrant
    <3>1. k.chunks = 0 /\ k.bytes = 0 /\ 0 * Chunk = 0
      BY <1>2, <2>1 DEF NoGrant
    <3> QED BY <1>1, <1>2, <3>1
  <2>2. CASE s \in Eligible /\ ShareOf(Plan.reservations, s, k)
    <3> DEFINE full == k.chunks * Chunk
    <3>1. full \in Nat
      BY <1>1, <1>2, TimesOrdered
    <3>2. k.chunks <= BacklogChunks[s] - r.chunks /\ k.bytes = Least(bytes[s] - r.bytes, full)
      BY <2>2 DEF ShareOf, r
    <3> HIDE DEF full
    <3>3. k.bytes <= full /\ k.bytes <= bytes[s] - r.bytes
          /\ (k.bytes < bytes[s] - r.bytes => k.bytes = full)
      BY <1>1, <1>2, <3>1, <3>2 DEF Least
    <3> QED BY <2>2, <3>1, <3>2, <3>3 DEF full
  <2> QED BY <1>4, <2>1, <2>2
<1>7. c * Chunk = r.chunks * Chunk + k.chunks * Chunk
  BY <1>1, <1>2, Z3
<1>8. b \in Nat /\ c \in Nat /\ b <= bytes[s] /\ c <= BacklogChunks[s]
  BY <1>1, <1>2, <1>6
<1>9. c * Chunk \in Nat /\ b <= c * Chunk /\ (b < bytes[s] => b = c * Chunk)
  <2> DEFINE R == r.chunks * Chunk
             K == k.chunks * Chunk
             C == c * Chunk
  <2>1. C = R + K /\ R \in Nat /\ K \in Nat /\ r.bytes <= R /\ k.bytes <= K
        /\ (r.bytes < bytes[s] => r.bytes = R) /\ (k.bytes < bytes[s] - r.bytes => k.bytes = K)
        /\ k.bytes <= bytes[s] - r.bytes
    BY <1>5, <1>6, <1>7
  <2> HIDE DEF R, K, C
  <2>2. C \in Nat /\ b <= C /\ (b < bytes[s] => b = C)
    BY <1>1, <1>2, <2>1
  <2> QED BY <2>2 DEF C
<1>10. c > 0 => s \in Eligible
  BY <1>1, <1>5, <1>6
<1>11. GrantFits(s, b, c)
  BY <1>8, <1>9, <1>10 DEF GrantFits
<1> QED BY <1>11 DEF GrantedBytes, GrantedChunks, r, k

\* A plan made from well-typed measurements is within its means.
LEMMA PlanFits ==
    ASSUME RoundTypeOK
    PROVE  PlanWithinMeans
<1> DEFINE res == Plan.reservations
           back == Plan.backfill
<1>1. ReservedFor(res, Eligible \cap active) /\ BackfilledFor(res, back, Eligible)
  BY PlanKept
<1>2. res.spent + back.spent <= capacity /\ (res.short > 0 => back.spent = 0)
  BY <1>1 DEF BackfilledFor
<1>3. ASSUME NEW s \in Sources
      PROVE  /\ GrantedBytes(Plan, s) <= bytes[s]
             /\ GrantedChunks(Plan, s) <= BacklogChunks[s]
             /\ GrantedBytes(Plan, s) = bytes[s]
                  => GrantedChunks(Plan, s) \in {0, BacklogChunks[s]}
             /\ back.grants[s].bytes <= quantum
             /\ s \in unclean => GrantedChunks(Plan, s) = 0
  <2> DEFINE b == GrantedBytes(Plan, s)
             c == GrantedChunks(Plan, s)
  <2>1. GrantFits(s, b, c)
    BY GrantsFit
  <2> HIDE DEF b, c
  <2>2. /\ bytes[s] \in Nat /\ events[s] \in Nat /\ BacklogChunks[s] \in Nat
        /\ \A n \in Nat : bytes[s] > 0 /\ n * Chunk >= bytes[s] => BacklogChunks[s] <= n
        /\ bytes[s] = 0 => BacklogChunks[s] = IF events[s] > 0 THEN 1 ELSE 0
    BY BacklogType DEF RoundTypeOK
  <2>3. b <= bytes[s] /\ c <= BacklogChunks[s]
    BY <2>1 DEF GrantFits
  <2>4. b = bytes[s] => c \in {0, BacklogChunks[s]}
    <3> SUFFICES ASSUME b = bytes[s], c # 0 PROVE c = BacklogChunks[s]
      OBVIOUS
    <3>1. c \in Nat /\ c <= BacklogChunks[s] /\ c * Chunk \in Nat /\ c * Chunk >= bytes[s]
      BY <2>1, <2>2 DEF GrantFits
    <3>2. CASE bytes[s] > 0
      BY <2>2, <3>1, <3>2
    <3>3. CASE bytes[s] = 0
      BY <2>2, <3>1, <3>3
    <3> QED BY <2>2, <3>2, <3>3
  <2>5. back.grants[s].bytes <= quantum
    <3>1. CASE back.grants[s] = NoGrant
      BY <3>1 DEF NoGrant, RoundTypeOK
    <3>2. CASE ShareOf(res, s, back.grants[s])
      <4>1. back.grants[s].chunks \in Nat /\ bytes[s] - res.grants[s].bytes \in Nat
        BY <1>1, ResidualType DEF BackfilledFor
      <4>2. back.grants[s].chunks * Chunk \in Nat
        BY <4>1, ChunkType, TimesOrdered
      <4> HIDE DEF back, res
      <4> QED BY <3>2, <4>1, <4>2 DEF ShareOf, Least, RoundTypeOK
    <3> QED BY <1>1, <3>1, <3>2 DEF BackfilledFor
  <2>6. s \in unclean => c = 0
    BY <2>1 DEF GrantFits, Eligible
  <2> QED BY <2>3, <2>4, <2>5, <2>6 DEF b, c
<1>4. ASSUME NEW s \in Eligible, bytes[s] > 0, GrantedChunks(Plan, s) = 0, res.short = 0,
             quantum >= Chunk
      PROVE  capacity - res.spent - back.spent < Chunk
  <2>1. s \in Sources /\ BacklogChunks[s] \in Nat /\ BacklogChunks[s] > 0
    BY <1>4, BacklogType DEF Eligible
  <2>2. res.grants[s].chunks \in Nat /\ back.grants[s].chunks \in Nat
    BY <1>1, <2>1 DEF ReservedFor, BackfilledFor
  <2>3. res.grants[s].chunks = 0 /\ back.grants[s].chunks = 0
    <3> DEFINE x == res.grants[s].chunks
               y == back.grants[s].chunks
    <3>1. x + y = 0 /\ x \in Nat /\ y \in Nat
      BY <1>4, <2>2, Zenon DEF GrantedChunks
    <3> HIDE DEF x, y
    <3>2. x = 0 /\ y = 0
      BY <3>1
    <3> QED BY <3>2 DEF x, y
  <2>4. PassedOver(res, back, s)
    BY <1>4, <2>1, <2>3 DEF PassedOver
  <2> QED BY <1>1, <2>4 DEF BackfilledFor, LeftBehind
<1>5. (\E s \in Eligible : bytes[s] > 0 /\ GrantedChunks(Plan, s) = 0 /\ res.short = 0)
        => capacity - res.spent - back.spent < Chunk \/ quantum < Chunk
  <2>1. quantum \in Nat /\ Chunk \in Nat
    BY ChunkType DEF RoundTypeOK
  <2>2. ~(quantum < Chunk) => quantum >= Chunk
    BY <2>1
  <2> QED BY <1>4, <2>2
<1> HIDE DEF res, back
<1> QED BY <1>2, <1>3, <1>5, Zenon DEF PlanWithinMeans, res, back
-------------------------------------------------------------------------------
(* From one round to the next.                                             *)

\* A cycle only takes away, from each source at least what it granted it.
LEMMA CycleShrinks ==
    ASSUME RoundTypeOK, Cycle
    PROVE  /\ RoundTypeOK' /\ BacklogChunks' \in [Sources -> Nat]
           /\ \A s \in Sources :
                 /\ bytes'[s] <= bytes[s] /\ events'[s] <= events[s]
                 /\ GrantedChunks(Plan, s) = 0 => bytes'[s] = bytes[s] /\ events'[s] = events[s]
                 /\ BacklogChunks'[s] + GrantedChunks(Plan, s) <= BacklogChunks[s]
                 /\ OneChunk'[s] <= OneChunk[s]
<1> DEFINE b(s) == GrantedBytes(Plan, s)
           c(s) == GrantedChunks(Plan, s)
<1>1. /\ bytes' = [s \in Sources |-> bytes[s] - b(s)]
      /\ events' = [s \in Sources |-> IF c(s) > 0 /\ bytes'[s] = 0 THEN 0 ELSE events[s]]
      /\ UNCHANGED <<active, unclean, capacity, quantum>>
  BY DEF Cycle, Execute
<1>2. \A s \in Sources : GrantFits(s, b(s), c(s))
  BY GrantsFit
<1> HIDE DEF b, c
<1>3. \A s \in Sources : b(s) \in Nat /\ b(s) <= bytes[s] /\ bytes[s] \in Nat /\ events[s] \in Nat
  BY <1>2 DEF GrantFits, RoundTypeOK
<1>4. bytes' \in [Sources -> Nat]
  BY <1>1, <1>3
<1>5. events' \in [Sources -> Nat]
  BY <1>1, <1>3
<1>6. RoundTypeOK'
  BY <1>1, <1>4, <1>5 DEF RoundTypeOK
<1>7. (/\ BacklogChunks \in [Sources -> Nat]
       /\ \A s \in Sources :
             /\ bytes[s] <= BacklogChunks[s] * Chunk
             /\ \A n \in Nat : bytes[s] > 0 /\ n * Chunk >= bytes[s] => BacklogChunks[s] <= n
             /\ bytes[s] > 0 => BacklogChunks[s] > 0
             /\ bytes[s] = 0 => BacklogChunks[s] = IF events[s] > 0 THEN 1 ELSE 0)'
  BY <1>6, BacklogType, PTL
<1>8. ASSUME NEW s \in Sources
      PROVE  /\ bytes'[s] <= bytes[s] /\ events'[s] <= events[s]
             /\ c(s) = 0 => bytes'[s] = bytes[s] /\ events'[s] = events[s]
             /\ BacklogChunks'[s] + c(s) <= BacklogChunks[s]
             /\ OneChunk'[s] <= OneChunk[s]
  <2>1. bytes'[s] = bytes[s] - b(s)
        /\ events'[s] = IF c(s) > 0 /\ bytes'[s] = 0 THEN 0 ELSE events[s]
    BY <1>1
  <2>2. /\ bytes[s] \in Nat /\ events[s] \in Nat /\ b(s) \in Nat /\ c(s) \in Nat
        /\ Chunk \in Nat /\ Chunk > 0
        /\ b(s) <= bytes[s] /\ c(s) <= BacklogChunks[s]
        /\ c(s) * Chunk \in Nat /\ b(s) <= c(s) * Chunk
        /\ b(s) < bytes[s] => b(s) = c(s) * Chunk
    BY <1>2, <1>3, ChunkType DEF GrantFits
  <2>3. /\ BacklogChunks[s] \in Nat /\ bytes[s] <= BacklogChunks[s] * Chunk
        /\ bytes[s] = 0 => BacklogChunks[s] = IF events[s] > 0 THEN 1 ELSE 0
    BY BacklogType
  <2>4. /\ BacklogChunks'[s] \in Nat
        /\ \A n \in Nat : bytes'[s] > 0 /\ n * Chunk >= bytes'[s] => BacklogChunks'[s] <= n
        /\ bytes'[s] = 0 => BacklogChunks'[s] = IF events'[s] > 0 THEN 1 ELSE 0
    BY <1>7
  <2>5. c(s) = 0 => b(s) = 0
    <3>1. 0 * Chunk = 0
      BY <2>2
    <3> QED BY <2>2, <3>1
  <2>6. BacklogChunks'[s] + c(s) <= BacklogChunks[s]
    <3>1. CASE b(s) < bytes[s]
      <4> DEFINE n == BacklogChunks[s] - c(s)
      <4>1. n \in Nat /\ bytes'[s] > 0
        BY <2>1, <2>2, <2>3, <3>1
      <4>2. n * Chunk = BacklogChunks[s] * Chunk - c(s) * Chunk
        BY <2>2, <2>3, Z3
      <4>3. BacklogChunks[s] * Chunk \in Nat
        BY <2>2, <2>3, TimesOrdered
      <4>4. n * Chunk >= bytes'[s]
        BY <2>1, <2>2, <2>3, <3>1, <4>2, <4>3
      <4>5. BacklogChunks'[s] <= n
        BY <2>4, <4>1, <4>4
      <4> QED BY <2>2, <2>3, <2>4, <4>5
    <3>2. CASE b(s) = bytes[s]
      <4>1. bytes'[s] = 0
        BY <2>1, <2>2, <3>2
      <4>2. CASE c(s) > 0
        BY <2>1, <2>2, <2>3, <2>4, <4>1, <4>2
      <4>3. CASE c(s) = 0
        BY <2>1, <2>2, <2>3, <2>4, <2>5, <3>2, <4>1, <4>3
      <4> QED BY <2>2, <4>2, <4>3
    <3> QED BY <2>2, <3>1, <3>2
  <2>7. OneChunk'[s] <= OneChunk[s]
    BY <2>1, <2>2 DEF OneChunk, Least
  <2> QED BY <2>1, <2>2, <2>5, <2>6, <2>7
<1> QED BY <1>6, <1>7, <1>8 DEF c

\* While nothing outgrows them, reservations that fit go on fitting and
\* leave no less than before.
LEMMA ReservationsGoOnFitting ==
    ASSUME RoundTypeOK, Cycle, Reservations.short = 0
    PROVE  /\ Reservations'.short = 0 /\ Remaining' >= Remaining
           /\ Remaining \in Nat /\ Remaining' \in Nat
<1> DEFINE E == Eligible \cap active
           now(U) == SumFunctionOnSet(OneChunk, U)
           then(U) == SumFunctionOnSet(OneChunk', U)
<1>1. ReservedFor(Reservations, E)
  BY ReservationsKept
<1>2. RoundTypeOK' /\ capacity' = capacity /\ active' = active /\ unclean' = unclean
  BY CycleShrinks DEF Cycle, Execute
<1>3. ReservedFor(Reservations, E)'
  BY <1>2, ReservationsKept, PTL
<1>4. E' \in SUBSET E
  <2>1. \A s \in Sources : bytes'[s] <= bytes[s] /\ events'[s] <= events[s]
                           /\ bytes[s] \in Nat /\ events[s] \in Nat
                           /\ bytes'[s] \in Nat /\ events'[s] \in Nat
    BY <1>2, CycleShrinks DEF RoundTypeOK
  <2>2. Eligible' \subseteq Eligible
    BY <1>2, <2>1 DEF Eligible
  <2> QED BY <1>2, <2>2
<1>5. E \in SUBSET Sources /\ E' \in SUBSET Sources /\ IsFiniteSet(Sources)
  BY <1>4, SourcesAssumption DEF SourcesAssumption, Eligible
<1>6. OneChunk \in [Sources -> Nat] /\ OneChunk' \in [Sources -> Nat]
  <2>1. OneChunk \in [Sources -> Nat]
    BY OneChunkType
  <2>2. (OneChunk \in [Sources -> Nat] /\ \A s \in Sources : OneChunk[s] <= bytes[s])'
    BY <1>2, OneChunkType, PTL
  <2> QED BY <2>1, <2>2
<1>7. then(E') <= now(E) /\ then(E') \in Nat /\ now(E) \in Nat
  <2> DEFINE zero == [s \in Sources |-> 0]
             f == OneChunk
             h == OneChunk'
             D == E
             D1 == E'
  <2>1. f \in [Sources -> Nat] /\ h \in [Sources -> Nat] /\ zero \in [Sources -> Nat]
        /\ D \in SUBSET Sources /\ D1 \in SUBSET D /\ D1 \in SUBSET Sources /\ IsFiniteSet(Sources)
        /\ \A s \in D1 : h[s] + zero[s] <= f[s]
    <3>1. \A s \in Sources : OneChunk'[s] <= OneChunk[s]
      BY CycleShrinks
    <3> QED BY <1>4, <1>5, <1>6, <3>1
  <2> HIDE DEF zero, f, h, D, D1
  <2>2. SumFunctionOnSet(h, D1) \in Nat /\ SumFunctionOnSet(zero, D1) \in Nat
        /\ SumFunctionOnSet(f, D1) \in Nat /\ SumFunctionOnSet(f, D) \in Nat
    BY <2>1, SumSteps
  <2>3. SumFunctionOnSet(h, D1) + SumFunctionOnSet(zero, D1) <= SumFunctionOnSet(f, D1)
    BY <2>1, SumDominates
  <2>4. SumFunctionOnSet(f, D1) <= SumFunctionOnSet(f, D)
    BY <2>1, SumMonotone
  <2>5. SumFunctionOnSet(h, D1) <= SumFunctionOnSet(f, D)
    BY <2>2, <2>3, <2>4
  <2> QED BY <2>2, <2>5 DEF f, h, D, D1
<1>8. Reservations.spent = now(E) /\ now(E) <= capacity /\ capacity \in Nat
  BY <1>1 DEF ReservedFor, RoundTypeOK
<1>9. /\ Reservations'.short \in Nat
      /\ Reservations'.short = 0 => Reservations'.spent = then(E')
      /\ Reservations'.short > 0 => then(E') > capacity
  BY <1>2, <1>3 DEF ReservedFor
<1> HIDE DEF now, then, E
<1>10. Reservations'.short = 0 /\ Reservations'.spent = then(E')
  BY <1>7, <1>8, <1>9
<1> QED BY <1>2, <1>7, <1>8, <1>10 DEF Remaining

\* Those ahead of a source that was not served were ahead before.
LEMMA AheadShrinks ==
    ASSUME RoundTypeOK, Cycle, NEW s \in Sources, GrantedChunks(Plan, s) = 0
    PROVE  Ahead(s)' \subseteq Ahead(s)
<1>1. RoundTypeOK' /\ unclean' = unclean
  BY CycleShrinks DEF Cycle, Execute
<1>2. \A t \in Sources : /\ bytes'[t] <= bytes[t] /\ events'[t] <= events[t] /\ t \in Nat
                         /\ bytes[t] \in Nat /\ events[t] \in Nat
                         /\ bytes'[t] \in Nat /\ events'[t] \in Nat
  BY <1>1, CycleShrinks, SourcesAssumption DEF RoundTypeOK, SourcesAssumption
<1>3. bytes'[s] = bytes[s] /\ events'[s] = events[s]
  BY CycleShrinks
<1>4. Eligible' \subseteq Eligible /\ Eligible \subseteq Sources
  BY <1>1, <1>2 DEF Eligible
<1>5. ASSUME NEW t \in Sources, RanksAhead(t, s)' PROVE RanksAhead(t, s)
  BY <1>2, <1>3, <1>5 DEF RanksAhead
<1> QED BY <1>4, <1>5 DEF Ahead

\* A promise is for one round at least.
LEMMA BoundType ==
    RoundTypeOK => \A s \in Sources : WholeChunkBound(s) \in {Forever} \cup (Nat \ {0})
<1> SUFFICES ASSUME RoundTypeOK, NEW s \in Sources
             PROVE  WholeChunkBound(s) \in {Forever} \cup (Nat \ {0})
  OBVIOUS
<1> DEFINE sum == SumFunctionOnSet(BacklogChunks, Ahead(s))
           k == Remaining \div Chunk
<1>1. ASSUME Remaining >= Chunk PROVE sum \div k + 1 \in Nat \ {0}
  <2>1. Remaining \in Nat
    BY ReservationsKept DEF ReservedFor, Remaining, RoundTypeOK
  <2>2. k \in Nat /\ Remaining < k * Chunk + Chunk
    BY <2>1, ChunkType, QuotientBounds
  <2> HIDE DEF k
  <2>3. k > 0
    <3>1. 0 * Chunk = 0
      BY ChunkType
    <3> QED BY <1>1, <2>1, <2>2, <3>1, ChunkType
  <2>4. sum \in Nat
    <3>1. BacklogChunks \in [Sources -> Nat] /\ IsFiniteSet(Sources) /\ Ahead(s) \in SUBSET Sources
      BY BacklogType, SourcesAssumption DEF SourcesAssumption, Ahead, Eligible
    <3> QED BY <3>1, SumSteps
  <2> HIDE DEF sum
  <2>5. sum \div k \in Nat
    BY <2>2, <2>3, <2>4, QuotientBounds
  <2> QED BY <2>5
<1>2. Remaining \in Int /\ Chunk \in Int
  BY ReservationsKept, ChunkType DEF ReservedFor, Remaining, RoundTypeOK
<1> HIDE DEF sum, k
<1>3. WholeChunkBound(s) = IF ~Promised(s) THEN Forever
                           ELSE IF s \in active \/ bytes[s] = 0 THEN 1
                           ELSE IF Remaining < Chunk THEN Forever
                           ELSE sum \div k + 1
  BY DEF WholeChunkBound, sum, k
<1> QED BY <1>1, <1>2, <1>3

\* What a round is planned from decides what it promises.
LEMMA BoundUnmoved ==
    ASSUME RoundTypeOK, UNCHANGED <<active, bytes, events, unclean, capacity, quantum>>,
           NEW s \in Sources
    PROVE  WholeChunkBound(s)' = WholeChunkBound(s)
<1> DEFINE E == Eligible \cap active
<1>1. RoundTypeOK'
  BY DEF RoundTypeOK
<1>2. ReservedFor(Reservations, E) /\ ReservedFor(Reservations, E)'
  BY <1>1, ReservationsKept, PTL
<1>3. Eligible' = Eligible /\ OneChunk' = OneChunk /\ BacklogChunks' = BacklogChunks
  BY DEF Eligible, OneChunk, BacklogChunks
<1>4. Ahead(s)' = Ahead(s)
  BY <1>3 DEF Ahead, RanksAhead
<1> DEFINE need == SumFunctionOnSet(OneChunk, E)
<1>5. (Reservations.short = 0 => Reservations.spent = need)
      /\ (Reservations.short > 0 => need > capacity) /\ Reservations.short \in Nat
      /\ Reservations.spent <= capacity /\ capacity \in Nat /\ Reservations.spent \in Nat
  BY <1>2 DEF ReservedFor, RoundTypeOK
<1>6. (Reservations'.short = 0 => Reservations'.spent = need)
      /\ (Reservations'.short > 0 => need > capacity) /\ Reservations'.short \in Nat
      /\ Reservations'.spent <= capacity /\ Reservations'.spent \in Nat
  BY <1>2, <1>3 DEF ReservedFor
<1> HIDE DEF need
<1>7. (Reservations'.short = 0 <=> Reservations.short = 0)
      /\ (Reservations.short = 0 => Reservations'.spent = Reservations.spent)
  BY <1>5, <1>6
<1>8. Promised(s)' = Promised(s) /\ (Promised(s) => Remaining' = Remaining)
  BY <1>3, <1>7 DEF Promised, Remaining
<1>9. CASE ~Promised(s)
  BY <1>8, <1>9 DEF WholeChunkBound
<1>10. CASE Promised(s)
  BY <1>3, <1>4, <1>8, <1>10 DEF WholeChunkBound
<1> QED BY <1>9, <1>10

\* A round that passes a source over brings its next chunk nearer by one.
LEMMA BoundFalls ==
    ASSUME RoundTypeOK, Cycle, NEW s \in Sources, GrantedChunks(Plan, s) = 0,
           WholeChunkBound(s) # Forever
    PROVE  WholeChunkBound(s)' # Forever /\ WholeChunkBound(s)' + 1 <= WholeChunkBound(s)
<1> DEFINE res == Plan.reservations
           back == Plan.backfill
<1>1. /\ res = Reservations
      /\ ReservedFor(res, Eligible \cap active) /\ BackfilledFor(res, back, Eligible)
  BY PlanKept
<1>2. Promised(s)
  BY DEF WholeChunkBound
<1>3. s \in Eligible /\ res.short = 0 /\ (s \in active \/ quantum >= Chunk)
  BY <1>1, <1>2 DEF Promised
<1>4. res.grants[s].chunks = 0 /\ back.grants[s].chunks = 0
  <2> DEFINE x == res.grants[s].chunks
             y == back.grants[s].chunks
  <2>1. x \in Nat /\ y \in Nat
    BY <1>1 DEF ReservedFor, BackfilledFor
  <2>2. x + y = 0
    BY DEF GrantedChunks
  <2> HIDE DEF x, y
  <2>3. x = 0 /\ y = 0
    BY <2>1, <2>2
  <2> QED BY <2>3 DEF x, y
<1>5. s \notin active
  BY <1>1, <1>3, <1>4 DEF ReservedFor
<1>6. BacklogChunks[s] # res.grants[s].chunks
  BY <1>3, <1>4, BacklogType DEF Eligible, RoundTypeOK
<1>7. LeftBehind(res, back, s)
  <2>1. PassedOver(res, back, s)
    BY <1>3, <1>4, <1>5, <1>6 DEF PassedOver
  <2> QED BY <1>1, <1>3, <2>1 DEF BackfilledFor
<1>8. bytes[s] \in Nat /\ bytes[s] > 0
  <2>1. bytes[s] \in Nat /\ res.grants[s].bytes \in Nat
    BY <1>1, ResidualType DEF RoundTypeOK
  <2> HIDE DEF res
  <2> QED BY <1>7, <2>1 DEF LeftBehind
<1>9. Reservations'.short = 0 /\ Remaining' >= Remaining /\ Remaining \in Nat /\ Remaining' \in Nat
  BY <1>1, <1>3, ReservationsGoOnFitting
<1>10. Chunk \in Nat /\ Chunk > 0
  BY ChunkType
<1>11. Remaining >= Chunk
  <2>1. ~(Remaining < Chunk)
    BY <1>2, <1>5, <1>8 DEF WholeChunkBound
  <2> QED BY <1>9, <1>10, <2>1
<1> DEFINE a == SumFunctionOnSet(BacklogChunks, Ahead(s))
           k == Remaining \div Chunk
           a1 == SumFunctionOnSet(BacklogChunks', Ahead(s)')
           k1 == Remaining' \div Chunk
           g == SumFunctionOnSet(ChunksOf(back), Ahead(s))
<1>12. WholeChunkBound(s) = a \div k + 1
  BY <1>2, <1>5, <1>8, <1>9, <1>10, <1>11 DEF WholeChunkBound
<1>13. WholeChunkBound(s)' = a1 \div k1 + 1
  <2>1. active' = active /\ unclean' = unclean /\ quantum' = quantum
        /\ bytes'[s] = bytes[s]
    BY CycleShrinks DEF Cycle, Execute
  <2>2. Promised(s)'
    BY <1>3, <1>5, <1>8, <1>9, <2>1 DEF Promised, Eligible
  <2>3. ~(Remaining' < Chunk)
    BY <1>9, <1>10, <1>11
  <2>4. s \notin active' /\ bytes'[s] # 0
    BY <1>5, <1>8, <2>1
  <2> QED BY <2>2, <2>3, <2>4 DEF WholeChunkBound
<1>14. k \in Nat /\ k * Chunk <= Remaining /\ Remaining < k * Chunk + Chunk
       /\ k1 \in Nat /\ k1 * Chunk <= Remaining' /\ Remaining' < k1 * Chunk + Chunk
  BY <1>9, <1>10, QuotientBounds
<1>15. a \in Nat /\ a1 \in Nat /\ g \in Nat /\ a1 + g <= a
  <2> DEFINE f == ChunksOf(back)
             h == BacklogChunks
             h1 == BacklogChunks'
             D == Ahead(s)
             D1 == Ahead(s)'
  <2>1. /\ f \in [Sources -> Nat] /\ h \in [Sources -> Nat] /\ h1 \in [Sources -> Nat]
        /\ IsFiniteSet(Sources) /\ D \in SUBSET Sources /\ D1 \in SUBSET D
        /\ D1 \in SUBSET Sources
        /\ \A t \in D : h1[t] + f[t] <= h[t]
    <3>1. h \in [Sources -> Nat]
      BY BacklogType
    <3>2. h1 \in [Sources -> Nat]
      BY CycleShrinks
    <3>3. f \in [Sources -> Nat]
      BY <1>1 DEF ChunksOf, BackfilledFor
    <3>4. D \in SUBSET Sources /\ D1 \in SUBSET D
      BY AheadShrinks DEF Ahead, Eligible
    <3>5. ASSUME NEW t \in Sources PROVE h1[t] + f[t] <= h[t]
      <4> DEFINE x == res.grants[t].chunks
                 y == back.grants[t].chunks
      <4>1. x \in Nat /\ y \in Nat /\ f[t] = y
        BY <1>1 DEF ReservedFor, BackfilledFor, ChunksOf
      <4>2. h1[t] + (x + y) <= h[t]
        BY CycleShrinks DEF GrantedChunks
      <4>3. h[t] \in Nat /\ h1[t] \in Nat
        BY <3>1, <3>2
      <4> HIDE DEF x, y, h, h1, f
      <4> QED BY <4>1, <4>2, <4>3
    <3> QED BY <3>1, <3>2, <3>3, <3>4, <3>5, SourcesAssumption DEF SourcesAssumption
  <2> HIDE DEF f, h, h1, D, D1
  <2>2. SumFunctionOnSet(f, D) \in Nat /\ SumFunctionOnSet(h, D) \in Nat
        /\ SumFunctionOnSet(h1, D) \in Nat /\ SumFunctionOnSet(h1, D1) \in Nat
    BY <2>1, SumSteps
  <2>3. SumFunctionOnSet(h1, D1) <= SumFunctionOnSet(h1, D)
    BY <2>1, SumMonotone
  <2>4. SumFunctionOnSet(h1, D) + SumFunctionOnSet(f, D) <= SumFunctionOnSet(h, D)
    BY <2>1, SumDominates
  <2>5. SumFunctionOnSet(h1, D1) + SumFunctionOnSet(f, D) <= SumFunctionOnSet(h, D)
    BY <2>2, <2>3, <2>4
  <2> QED BY <2>2, <2>5 DEF f, h, h1, D, D1
<1>16. Remaining < (g + 1) * Chunk
  BY <1>1, <1>7 DEF LeftBehind, Remaining
<1> HIDE DEF a, k, a1, k1, g
<1>17. k > 0 /\ k <= g /\ k1 >= k
  <2>1. 0 * Chunk = 0 /\ (k1 + 1) * Chunk = k1 * Chunk + Chunk
        /\ k * Chunk \in Nat /\ k1 * Chunk \in Nat /\ (g + 1) * Chunk \in Nat
        /\ (k1 + 1) * Chunk \in Nat /\ g + 1 \in Nat /\ k1 + 1 \in Nat
    BY <1>10, <1>14, <1>15, TimesOrdered
  <2>2. k # 0
    BY <1>9, <1>10, <1>11, <1>14, <2>1
  <2>3. k * Chunk < (g + 1) * Chunk /\ k * Chunk < (k1 + 1) * Chunk
    BY <1>9, <1>10, <1>14, <1>16, <2>1
  <2>4. k < g + 1 /\ k < k1 + 1
    BY <1>10, <1>14, <2>1, <2>3, TimesOrdered
  <2> QED BY <1>14, <1>15, <2>2, <2>4
<1>18. a1 + k <= a
  BY <1>14, <1>15, <1>17
<1>19. a1 \div k1 + 1 <= a \div k
  BY <1>14, <1>15, <1>17, <1>18, RoundsFewer
<1>20. a1 \div k1 \in Nat /\ a \div k \in Nat
  <2>1. k1 > 0
    BY <1>14, <1>17
  <2> QED BY <1>14, <1>15, <1>17, <2>1, QuotientBounds
<1> QED BY <1>12, <1>13, <1>19, <1>20 DEF Forever
-------------------------------------------------------------------------------
(* The theorems about the scheduler.                                       *)

\* A source waits at least as long as this round still promises it.
WaitsInv ==
    /\ RoundTypeOK /\ waits \in [Sources -> Int]
    /\ \A s \in Sources : waits[s] # Forever =>
          WholeChunkBound(s) # Forever /\ waits[s] >= WholeChunkBound(s)

\* The measurements keep their type through every step.
LEMMA RoundTypeStep ==
    ASSUME RoundTypeOK, SchedulerNext \/ UNCHANGED schedulerVars
    PROVE  RoundTypeOK'
<1>1. CASE Cycle
  BY <1>1, CycleShrinks
<1>2. CASE Measure
  <2>1. PICK s \in Sources :
          \/ /\ bytes' \in {[bytes EXCEPT ![s] = b] : b \in ByteBacklogs}
             /\ events' \in {[events EXCEPT ![s] = e] : e \in EventBacklogs}
             /\ unclean' = unclean \ {s}
          \/ /\ unclean' = unclean \cup {s}
             /\ UNCHANGED <<bytes, events>>
    BY <1>2 DEF Measure
  <2>2. bytes' \in [Sources -> Nat] /\ events' \in [Sources -> Nat]
    BY <2>1, SizesAssumption DEF RoundTypeOK, SizesAssumption
  <2>3. unclean' \subseteq Sources
    BY <2>1 DEF RoundTypeOK
  <2> QED BY <1>2, <2>2, <2>3 DEF Measure, RoundTypeOK
<1>3. CASE Rest
  BY <1>3 DEF Rest, RoundTypeOK, schedulerVars
<1>4. CASE UNCHANGED schedulerVars
  BY <1>4 DEF RoundTypeOK, schedulerVars
<1> QED BY <1>1, <1>2, <1>3, <1>4 DEF SchedulerNext

\* The first measurements are well typed.
LEMMA RoundTypeInit == SchedulerInit => RoundTypeOK
BY SourcesAssumption, SizesAssumption
   DEF SchedulerInit, RoundTypeOK, SourcesAssumption, SizesAssumption

\* plan() never spends what the round does not have, whatever the sources,
\* their measurements, the chunk size, the quantum and the capacity: every
\* plan of every reachable round is within its means.
THEOREM PlanStaysWithinMeans == SchedulerSpec => []PlanWithinMeans
<1>1. RoundTypeOK /\ [SchedulerNext]_schedulerVars => RoundTypeOK'
  BY RoundTypeStep
<1>2. RoundTypeOK => PlanWithinMeans
  BY PlanFits
<1> QED BY <1>1, <1>2, RoundTypeInit, PTL DEF SchedulerSpec

\* The first promises are those of the first round.
LEMMA WaitsInit == SchedulerInit => WaitsInv
<1> SUFFICES ASSUME SchedulerInit PROVE WaitsInv
  OBVIOUS
<1>1. RoundTypeOK
  BY RoundTypeInit
<1>2. \A s \in Sources : WholeChunkBound(s) \in Int
  BY <1>1, BoundType DEF Forever
<1>3. waits = [s \in Sources |-> WholeChunkBound(s)]
  BY DEF SchedulerInit
<1> QED BY <1>1, <1>2, <1>3 DEF WaitsInv

\* Each step keeps every promise at least as long as what the round promises.
LEMMA WaitsStep == WaitsInv /\ [SchedulerNext]_schedulerVars => WaitsInv'
<1> SUFFICES ASSUME WaitsInv, SchedulerNext \/ UNCHANGED schedulerVars PROVE WaitsInv'
  OBVIOUS
<1>1. RoundTypeOK /\ RoundTypeOK'
  BY RoundTypeStep DEF WaitsInv
<1>2. (\A s \in Sources : WholeChunkBound(s) \in {Forever} \cup (Nat \ {0}))'
  BY <1>1, BoundType, PTL
<1>3. \A s \in Sources : WholeChunkBound(s)' \in Int
  BY <1>2 DEF Forever
<1>4. CASE Cycle
  <2>1. waits' = [s \in Sources |->
                   IF GrantedChunks(Plan, s) > 0 \/ waits[s] = Forever
                   THEN WholeChunkBound(s)' ELSE waits[s] - 1]
    BY <1>4 DEF Cycle, Execute
  <2>2. waits' \in [Sources -> Int]
    BY <1>3, <2>1 DEF WaitsInv
  <2>3. ASSUME NEW s \in Sources, waits'[s] # Forever
        PROVE  WholeChunkBound(s)' # Forever /\ waits'[s] >= WholeChunkBound(s)'
    <3>1. CASE GrantedChunks(Plan, s) > 0 \/ waits[s] = Forever
      <4>1. waits'[s] = WholeChunkBound(s)'
        BY <2>1, <3>1
      <4> QED BY <1>3, <2>3, <4>1
    <3>2. CASE ~(GrantedChunks(Plan, s) > 0 \/ waits[s] = Forever)
      <4>1. GrantedChunks(Plan, s) = 0
        BY <1>1, <3>2, GrantsFit DEF GrantFits
      <4>2. WholeChunkBound(s) # Forever /\ waits[s] >= WholeChunkBound(s) /\ waits[s] \in Int
        BY <3>2 DEF WaitsInv
      <4>3. WholeChunkBound(s)' # Forever /\ WholeChunkBound(s)' + 1 <= WholeChunkBound(s)
        BY <1>1, <1>4, <4>1, <4>2, BoundFalls
      <4>4. waits'[s] = waits[s] - 1
        BY <2>1, <3>2
      <4>5. WholeChunkBound(s) \in Int
        BY <1>1, BoundType DEF Forever
      <4> QED BY <1>3, <4>2, <4>3, <4>4, <4>5
    <3> QED BY <3>1, <3>2
  <2> QED BY <1>1, <2>2, <2>3 DEF WaitsInv
<1>5. CASE Measure
  <2>1. waits' = [s \in Sources |-> WholeChunkBound(s)']
    BY <1>5 DEF Measure
  <2> QED BY <1>1, <1>3, <2>1 DEF WaitsInv
<1>6. CASE Rest \/ UNCHANGED schedulerVars
  <2>1. UNCHANGED <<active, bytes, events, unclean, capacity, quantum>> /\ waits' = waits
    BY <1>6 DEF Rest, schedulerVars
  <2>2. \A s \in Sources : WholeChunkBound(s)' = WholeChunkBound(s)
    BY <1>1, <2>1, BoundUnmoved
  <2> QED BY <1>1, <2>1, <2>2 DEF WaitsInv
<1> QED BY <1>4, <1>5, <1>6 DEF SchedulerNext

\* A source to which a round promises a chunk has it within as many rounds as
\* the whole chunks ranked ahead of it fill, plus one, and an active one in
\* every round, for any number of sources and any backlogs.
THEOREM PromisedSourcesAreServed == SchedulerSpec => []PromiseKept
<1>1. WaitsInv => PromiseKept
  <2> SUFFICES ASSUME WaitsInv, NEW s \in Sources PROVE waits[s] # 0
    BY DEF PromiseKept
  <2>1. WholeChunkBound(s) \in {Forever} \cup (Nat \ {0}) /\ waits[s] \in Int
    BY BoundType DEF WaitsInv
  <2> QED BY <2>1 DEF WaitsInv, Forever
<1> QED BY <1>1, WaitsInit, WaitsStep, PTL DEF SchedulerSpec
===============================================================================
