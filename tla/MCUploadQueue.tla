---------------------------- MODULE MCUploadQueue ----------------------------
(* Small instances of UploadQueue for TLC.                                 *)
EXTENDS UploadQueue, TLC

CONSTANTS oA, oB, oC, s1, cA, cB, cC

\* Two successive ranges of one source's generation.
MCSourceOf == [o \in Occurrences |-> s1]
MCRangeEnd == [o \in Occurrences |-> IF o = oA THEN 1 ELSE 2]
MCCursorOf == [o \in Occurrences |-> CASE o = oA -> cA [] o = oB -> cB [] OTHER -> cC]

\* The file was replaced: the new generation's first range ends where the
\* old generation's did, under its own cursor.
MCRangeEndReplaced == [o \in Occurrences |-> 1]

\* Neither requests nor receipt digests are ordered or named by the model.
QueueSymmetry == Permutations(Requests) \cup Permutations(Digests)
===============================================================================
