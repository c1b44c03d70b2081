-------------------------- MODULE MCServerLifecycle --------------------------
(* A small instance of ServerLifecycle for TLC.                            *)
EXTENDS ServerLifecycle

CONSTANTS r1, r2, r3, cA, cB

\* Two requests of one client and one of another.
MCClientOf == [r \in Requests |-> IF r = r3 THEN cB ELSE cA]
===============================================================================
