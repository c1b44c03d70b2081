------------------------------- MODULE MCSpool -------------------------------
(* Small instances of Spool for TLC.                                       *)
EXTENDS Spool

CONSTANTS e1, e2, e3

\* Two one-byte bundles reach a cap of two; a three-byte one passes it.
MCSize == [e \in Entries |-> IF e = e3 THEN 3 ELSE 1]

\* Above and at the floor.
MCFreeLevels == {1, 2}
===============================================================================
