--------------------------- MODULE MCClientPipeline ---------------------------
(* A small instance of ClientPipeline for TLC.                             *)
EXTENDS ClientPipeline, TLC

CONSTANTS oA, oB, s1, cA, cB, r1, r2

MCSize == [e \in Entries |-> 1]
MCSourceOf == [o \in Occurrences |-> s1]
\* Two successive ranges of one source.
MCRangeEnd == [o \in Occurrences |-> IF o = oA THEN 1 ELSE 2]
MCCursorOf == [o \in Occurrences |-> IF o = oA THEN cA ELSE cB]
\* Request identities are only ever compared for equality.
RequestSymmetry == Permutations(Requests)
===============================================================================
