----------------------------- MODULE MCCollection -----------------------------
(* Small instances of Collection for TLC.                                  *)
EXTENDS Collection

CONSTANTS o1, o2, w1, w2

\* Two occurrences of one blob.
MCShared == [o \in Occurrences |-> 1]
===============================================================================
