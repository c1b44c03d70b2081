----------------------------- MODULE RangeCustody -----------------------------
(***************************************************************************)
(* What the client promises about a captured range, with every mechanism   *)
(* left out (plan Section 7.9; the contracts of src/spool.rs and           *)
(* src/acknowledgement.rs): once its bundle is complete the client holds   *)
(* the range, it keeps holding it until a receipt for exactly that range   *)
(* is stored, and only then may the bundle go.  Nothing is ever held by    *)
(* nobody.                                                                 *)
(***************************************************************************)
CONSTANT Entries

VARIABLE custody

CustodyStates == {"none", "held", "receipted", "released"}

CustodyInit == custody = [e \in Entries |-> "none"]

Hold(e) ==
    /\ custody[e] = "none"
    /\ custody' = [custody EXCEPT ![e] = "held"]

StoreReceipt(e) ==
    /\ custody[e] = "held"
    /\ custody' = [custody EXCEPT ![e] = "receipted"]

Release(e) ==
    /\ custody[e] = "receipted"
    /\ custody' = [custody EXCEPT ![e] = "released"]

CustodyNext == \E e \in Entries : Hold(e) \/ StoreReceipt(e) \/ Release(e)

CustodySpec == CustodyInit /\ [][CustodyNext]_custody
===============================================================================
