---------------------------- MODULE PipelineProofs ----------------------------
(***************************************************************************)
(* Proofs about the durable side of the client, for every set of entries,  *)
(* every limit and any number of faults.                                   *)
(*                                                                         *)
(* About Spool: type correctness, live rows keep their bundles, a bundle   *)
(* goes only after its acknowledgement, what survives a power loss, a      *)
(* finished reconcile pass settles the directory, and the recorded usage   *)
(* passes its cap by one bundle at most.                                   *)
(*                                                                         *)
(* About ClientPipeline, which extends Spool: the composed client runs the *)
(* upload protocol of UploadQueue, keeps the promise of RangeCustody, and  *)
(* its cursor never skips a range.  The invariant is the spool's and the   *)
(* queue's, carried over from their own proofs, and one conjunct that ties *)
(* the rows of the one to the payloads of the other.                       *)
(***************************************************************************)
EXTENDS ClientPipeline, FiniteFacts

QP == INSTANCE UploadProofs
-------------------------------------------------------------------------------
(* The spool.                                                              *)

\* What the mutator's position says about the entry it works on.
PositionInv ==
    /\ pc \in {"minted", "staged", "renamed", "synced", "cleanup"} => cur \in minted
    /\ pc = "minted" => file[cur] = "absent"
    /\ pc = "staged" => file[cur] = "staging"
    /\ pc \in {"renamed", "synced"} => file[cur] = "bundle"
    /\ pc \in {"minted", "staged"} => row[cur] = "none"
    /\ pc \in {"renamed", "synced"} => row[cur] # "acknowledged"
    /\ pc = "cleanup" => row[cur] = "acknowledged"

\* An identity not drawn yet has left no trace.
UnmintedInv ==
    \A e \in Entries \ minted : file[e] = "absent" /\ row[e] = "none"

SpoolInv == SpoolTypeOK /\ PositionInv /\ UnmintedInv /\ LiveRowHasBundle

\* One evaluation of the gate yields a Boolean.
LEMMA EvaluateType ==
    ASSUME NEW p \in BOOLEAN, NEW u, NEW f
    PROVE  Evaluate(p, u, f) \in BOOLEAN
BY DEF Evaluate, CapLive, FloorLive

\* The initial state satisfies the invariant.
LEMMA SpoolInvInit == SpoolInit => SpoolInv
<1> SUFFICES ASSUME SpoolInit PROVE SpoolInv
  OBVIOUS
<1>1. paused \in BOOLEAN
  BY Zenon DEF SpoolInit
<1>2. SpoolTypeOK
  BY <1>1, SpoolAssumption DEF SpoolAssumption, SpoolInit, SpoolTypeOK, FileStates, RowStates, PCs
<1>3. PositionInv /\ UnmintedInv /\ LiveRowHasBundle
  BY DEF SpoolInit, PositionInv, UnmintedInv, LiveRowHasBundle, LiveRows
<1> QED BY <1>2, <1>3 DEF SpoolInv

\* Every step of SpoolNext preserves types.
LEMMA SpoolTypeStep == SpoolTypeOK /\ [SpoolNext]_spoolVars => SpoolTypeOK'
<1> SUFFICES ASSUME SpoolTypeOK, [SpoolNext]_spoolVars
             PROVE  SpoolTypeOK'
  OBVIOUS
<1> USE SpoolAssumption DEF SpoolAssumption, SpoolTypeOK, FileStates, RowStates, PCs, diskVars, Return
<1>1. ASSUME NEW free \in FreeLevels, EvaluateSpool(free) PROVE SpoolTypeOK'
  BY <1>1, EvaluateType DEF EvaluateSpool
<1>2. ASSUME NEW e \in Entries, NEW free \in FreeLevels, Materialize(e, free) PROVE SpoolTypeOK'
  <2>1. paused' \in BOOLEAN
    BY <1>2, EvaluateType DEF Materialize
  <2>2. minted' \subseteq Entries /\ pc' \in PCs /\ cur' \in Entries \cup {NoEntry}
    BY <1>2 DEF Materialize
  <2> QED BY <1>2, <2>1, <2>2 DEF Materialize
<1>3. CASE WriteAndSyncStaging BY <1>3 DEF WriteAndSyncStaging, SetFile
<1>4. CASE StagingFails BY <1>4 DEF StagingFails, SetFile, Fault
<1>5. CASE RenameBundle BY <1>5 DEF RenameBundle, SetFile
<1>6. CASE SyncDirectory BY <1>6 DEF SyncDirectory
<1>7. CASE InsertSpoolEntry BY <1>7 DEF InsertSpoolEntry
<1>8. CASE MaterializeFails BY <1>8 DEF MaterializeFails, Fault
<1>9. CASE StartReconcile BY <1>9 DEF StartReconcile
<1>10. ASSUME NEW e \in Entries, ReconcileEntry(e) PROVE SpoolTypeOK'
  <2>1. CASE ReconcileBundle(e) /\ row[e] = "acknowledged"
    BY <1>10, <2>1 DEF ReconcileEntry, ReconcileBundle, SetFile
  <2>2. CASE ReconcileBundle(e) /\ row[e] = "materialized"
    BY <1>10, <2>2 DEF ReconcileEntry, ReconcileBundle
  <2>3. CASE ReconcileBundle(e) /\ row[e] = "none"
    BY <1>10, <2>3 DEF ReconcileEntry, ReconcileBundle
  <2>4. CASE ReconcileStaging(e) BY <1>10, <2>4 DEF ReconcileEntry, ReconcileStaging, SetFile
  <2> QED BY <1>10, <2>1, <2>2, <2>3, <2>4 DEF ReconcileEntry
<1>11. CASE FinishReconcile BY <1>11 DEF FinishReconcile
<1>12. CASE ReconcileFails BY <1>12 DEF ReconcileFails, Fault
<1>13. CASE RemoveBundle BY <1>13 DEF RemoveBundle, SetFile
<1>14. CASE RemoveFails BY <1>14 DEF RemoveFails, Fault
<1>15. CASE Crash
  <2>1. paused' \in BOOLEAN
    BY <1>15, Zenon DEF Crash, Restart
  <2> QED BY <1>15, <2>1 DEF Crash, Fault, Restart
<1>16. ASSUME NEW e \in Entries, CommitAcknowledged(e) PROVE SpoolTypeOK'
  BY <1>16 DEF CommitAcknowledged
<1>17. CASE UNCHANGED spoolVars BY <1>17 DEF spoolVars
<1> QED
  BY <1>1, <1>2, <1>3, <1>4, <1>5, <1>6, <1>7, <1>8, <1>9, <1>10, <1>11, <1>12, <1>13,
     <1>14, <1>15, <1>16, <1>17 DEF SpoolNext, SpoolStep

\* Every step of SpoolNext preserves the inductive invariant.
LEMMA SpoolInvStep == SpoolInv /\ [SpoolNext]_spoolVars => SpoolInv'
<1> SUFFICES ASSUME SpoolInv, [SpoolNext]_spoolVars
             PROVE  (PositionInv /\ UnmintedInv /\ LiveRowHasBundle)'
  BY SpoolTypeStep DEF SpoolInv
<1> USE SpoolAssumption DEF SpoolAssumption, SpoolInv, SpoolTypeOK, PositionInv, UnmintedInv, LiveRowHasBundle,
        LiveRows, FileStates, RowStates, PCs, diskVars, Return
<1> DEFINE Goal == (PositionInv /\ UnmintedInv /\ LiveRowHasBundle)'
<1>1. ASSUME NEW free \in FreeLevels, EvaluateSpool(free) PROVE Goal
  BY <1>1 DEF EvaluateSpool
<1>2. ASSUME NEW e \in Entries, NEW free \in FreeLevels, Materialize(e, free) PROVE Goal
  BY <1>2 DEF Materialize
<1>3. CASE WriteAndSyncStaging BY <1>3 DEF WriteAndSyncStaging, SetFile
<1>4. CASE StagingFails BY <1>4 DEF StagingFails, SetFile, Fault
<1>5. CASE RenameBundle BY <1>5 DEF RenameBundle, SetFile
<1>6. CASE SyncDirectory BY <1>6 DEF SyncDirectory
<1>7. CASE InsertSpoolEntry BY <1>7 DEF InsertSpoolEntry
<1>8. CASE MaterializeFails BY <1>8 DEF MaterializeFails, Fault
<1>9. CASE StartReconcile BY <1>9 DEF StartReconcile
<1>10. ASSUME NEW e \in Entries, ReconcileEntry(e) PROVE Goal
  <2>1. CASE ReconcileBundle(e) /\ row[e] = "acknowledged"
    BY <1>10, <2>1 DEF ReconcileEntry, ReconcileBundle, SetFile
  <2>2. CASE ReconcileBundle(e) /\ row[e] = "materialized"
    BY <1>10, <2>2 DEF ReconcileEntry, ReconcileBundle
  <2>3. CASE ReconcileBundle(e) /\ row[e] = "none"
    BY <1>10, <2>3 DEF ReconcileEntry, ReconcileBundle
  <2>4. CASE ReconcileStaging(e) BY <1>10, <2>4 DEF ReconcileEntry, ReconcileStaging, SetFile
  <2> QED BY <1>10, <2>1, <2>2, <2>3, <2>4 DEF ReconcileEntry
<1>11. CASE FinishReconcile BY <1>11 DEF FinishReconcile
<1>12. CASE ReconcileFails BY <1>12 DEF ReconcileFails, Fault
<1>13. CASE RemoveBundle BY <1>13 DEF RemoveBundle, SetFile
<1>14. CASE RemoveFails BY <1>14 DEF RemoveFails, Fault
<1>15. CASE Crash BY <1>15 DEF Crash, Fault, Restart
<1>16. ASSUME NEW e \in Entries, CommitAcknowledged(e) PROVE Goal
  BY <1>16 DEF CommitAcknowledged
<1>17. CASE UNCHANGED spoolVars BY <1>17 DEF spoolVars
<1> QED
  BY <1>1, <1>2, <1>3, <1>4, <1>5, <1>6, <1>7, <1>8, <1>9, <1>10, <1>11, <1>12, <1>13,
     <1>14, <1>15, <1>16, <1>17 DEF SpoolNext, SpoolStep

\* The inductive invariant holds in every reachable state.
LEMMA SpoolInvariant == SpoolSpec => []SpoolInv
<1> QED BY SpoolInvInit, SpoolInvStep, PTL DEF SpoolSpec

\* Every reachable state of the spool is well typed.
THEOREM SpoolTypeCorrect == SpoolSpec => []SpoolTypeOK
<1>1. SpoolInv => SpoolTypeOK
  BY DEF SpoolInv
<1> QED BY <1>1, SpoolInvariant, PTL

\* No failed call and no process death, at any point of materialize,
\* reconcile or the cleanup, leaves a live row without its complete bundle.
THEOREM LiveRowsKeepBundles == SpoolSpec => []LiveRowHasBundle
<1>1. SpoolInv => LiveRowHasBundle
  BY DEF SpoolInv
<1> QED BY <1>1, SpoolInvariant, PTL

\* A complete bundle leaves the directory only when its acknowledgement has
\* committed: no failed materialize, no reconcile pass and no process death
\* discards one.
THEOREM BundlesKeptUntilAcknowledged == SpoolSpec => BundleKeptUntilAcknowledged
<1> DEFINE Kept == \A e \in Entries :
                      file[e] = "bundle" /\ file'[e] # "bundle" => row[e] = "acknowledged"
<1>1. SpoolInv /\ [SpoolNext]_spoolVars => [Kept]_spoolVars
  <2> SUFFICES ASSUME SpoolInv, SpoolNext PROVE Kept
    OBVIOUS
  <2> USE DEF SpoolInv, SpoolTypeOK, PositionInv, FileStates, RowStates, diskVars
  <2>1. CASE WriteAndSyncStaging BY <2>1 DEF WriteAndSyncStaging, SetFile
  <2>2. CASE StagingFails BY <2>2 DEF StagingFails, SetFile
  <2>3. CASE RenameBundle BY <2>3 DEF RenameBundle, SetFile
  <2>4. ASSUME NEW e \in Entries, ReconcileEntry(e) PROVE Kept
    <3>1. CASE ReconcileBundle(e) /\ row[e] = "acknowledged"
      BY <2>4, <3>1 DEF ReconcileBundle, SetFile
    <3>2. CASE ReconcileBundle(e) /\ row[e] # "acknowledged"
      BY <2>4, <3>2 DEF ReconcileBundle
    <3>3. CASE ReconcileStaging(e) BY <2>4, <3>3 DEF ReconcileStaging, SetFile
    <3> QED BY <2>4, <3>1, <3>2, <3>3 DEF ReconcileEntry
  <2>5. CASE RemoveBundle BY <2>5 DEF RemoveBundle, SetFile
  <2>6. CASE UNCHANGED file BY <2>6
  <2> QED
    BY <2>1, <2>2, <2>3, <2>4, <2>5, <2>6
       DEF SpoolNext, SpoolStep, EvaluateSpool, Materialize, SyncDirectory, InsertSpoolEntry,
           MaterializeFails, StartReconcile, FinishReconcile, ReconcileFails, RemoveFails,
           Crash, CommitAcknowledged
<1> QED BY <1>1, SpoolInvariant, PTL DEF SpoolSpec, BundleKeptUntilAcknowledged

--------------------------------------------------------------------------------
(* Power loss.  PositionInv and UnmintedInv survive it only in part: the   *)
(* directory may fall back, so the invariant speaks of what is possible.   *)

\* The directory shows one of its possible states, a row the mutator is about
\* to commit names a synchronized bundle, and a row materialize committed
\* names a bundle no power loss can undo.
PowerInv ==
    /\ SpoolTypeOK
    /\ \A e \in Entries : file[e] \in possible[e]
    /\ pc \in {"minted", "staged", "renamed", "synced", "cleanup"} => cur \in minted
    /\ pc \in {"minted", "staged", "renamed", "synced"} => row[cur] = "none"
    /\ pc = "renamed" => file[cur] = "bundle"
    /\ pc = "synced" => possible[cur] = {"bundle"}
    /\ pc = "cleanup" => row[cur] = "acknowledged"
    /\ \A e \in Entries \ minted : row[e] = "none" /\ possible[e] = {"absent"}
    /\ SyncedRowSurvivesPowerLoss

\* A power loss keeps the types.
LEMMA PowerLossType == SpoolTypeOK /\ PowerLoss => SpoolTypeOK'
<1> SUFFICES ASSUME SpoolTypeOK, PowerLoss PROVE SpoolTypeOK'
  OBVIOUS
<1>1. paused' \in BOOLEAN
  BY Zenon DEF PowerLoss, Restart
<1>2. file' \in [Entries -> FileStates]
  BY DEF PowerLoss
<1>3. possible' \in [Entries -> SUBSET FileStates]
  BY <1>2 DEF PowerLoss
<1> QED
  BY <1>1, <1>2, <1>3, SpoolAssumption
     DEF SpoolAssumption, SpoolTypeOK, PowerLoss, Restart, Fault, PCs

\* Every step, power losses included, preserves the invariant.
LEMMA PowerInvStep == PowerInv /\ [SpoolNext \/ PowerLoss]_spoolVars => PowerInv'
<1> SUFFICES ASSUME PowerInv, [SpoolNext \/ PowerLoss]_spoolVars PROVE PowerInv'
  OBVIOUS
<1>0. SpoolTypeOK'
  <2>1. CASE [SpoolNext]_spoolVars
    BY <2>1, SpoolTypeStep DEF PowerInv
  <2>2. CASE PowerLoss
    BY <2>2, PowerLossType DEF PowerInv
  <2> QED BY <2>1, <2>2
<1> USE SpoolAssumption, <1>0 DEF SpoolAssumption, PowerInv, SpoolTypeOK, SyncedRowSurvivesPowerLoss,
        LiveRows, FileStates, RowStates, PCs, diskVars, Return
<1>1. ASSUME NEW free \in FreeLevels, EvaluateSpool(free) PROVE PowerInv'
  BY <1>1 DEF EvaluateSpool
<1>2. ASSUME NEW e \in Entries, NEW free \in FreeLevels, Materialize(e, free) PROVE PowerInv'
  BY <1>2 DEF Materialize
<1>3. CASE WriteAndSyncStaging BY <1>3 DEF WriteAndSyncStaging, SetFile
<1>4. CASE StagingFails BY <1>4 DEF StagingFails, SetFile, Fault
<1>5. CASE RenameBundle BY <1>5 DEF RenameBundle, SetFile
<1>6. CASE SyncDirectory BY <1>6 DEF SyncDirectory
<1>7. CASE InsertSpoolEntry BY <1>7 DEF InsertSpoolEntry
<1>8. CASE MaterializeFails BY <1>8 DEF MaterializeFails, Fault
<1>9. CASE StartReconcile BY <1>9 DEF StartReconcile
<1>10. ASSUME NEW e \in Entries, ReconcileEntry(e) PROVE PowerInv'
  <2>1. CASE ReconcileBundle(e) /\ row[e] = "acknowledged"
    <3>1. /\ SetFile(e, "absent") /\ todo' = todo \ {e}
          /\ UNCHANGED <<row, indexed, minted, pc, cur, paused, faults>>
      BY <1>10, <2>1 DEF ReconcileEntry, ReconcileBundle
    <3> QED BY <1>10, <2>1, <3>1 DEF ReconcileEntry, SetFile
  <2>2. CASE ReconcileBundle(e) /\ row[e] = "materialized"
    BY <1>10, <2>2 DEF ReconcileEntry, ReconcileBundle
  <2>3. CASE ReconcileBundle(e) /\ row[e] = "none"
    <3>1. /\ row' = [row EXCEPT ![e] = "materialized"]
          /\ indexed' = indexed \cup {e} /\ todo' = todo \ {e}
          /\ UNCHANGED <<file, possible, minted, pc, cur, paused, faults>>
      BY <1>10, <2>3 DEF ReconcileEntry, ReconcileBundle
    <3>2. e \in minted /\ pc = "reconcile"
      BY <1>10, <2>3 DEF ReconcileEntry, ReconcileBundle
    <3> QED BY <1>10, <3>1, <3>2
  <2>4. CASE ReconcileStaging(e) BY <1>10, <2>4 DEF ReconcileEntry, ReconcileStaging, SetFile
  <2> QED BY <1>10, <2>1, <2>2, <2>3, <2>4 DEF ReconcileEntry
<1>11. CASE FinishReconcile BY <1>11 DEF FinishReconcile
<1>12. CASE ReconcileFails BY <1>12 DEF ReconcileFails, Fault
<1>13. CASE RemoveBundle BY <1>13 DEF RemoveBundle, SetFile
<1>14. CASE RemoveFails BY <1>14 DEF RemoveFails, Fault
<1>15. CASE Crash BY <1>15 DEF Crash, Fault, Restart
<1>16. ASSUME NEW e \in Entries, CommitAcknowledged(e) PROVE PowerInv'
  BY <1>16 DEF CommitAcknowledged
<1>17. CASE UNCHANGED spoolVars BY <1>17 DEF spoolVars
<1>18. CASE PowerLoss BY <1>18 DEF PowerLoss, Restart, Fault
<1> QED
  BY <1>1, <1>2, <1>3, <1>4, <1>5, <1>6, <1>7, <1>8, <1>9, <1>10, <1>11, <1>12, <1>13,
     <1>14, <1>15, <1>16, <1>17, <1>18 DEF SpoolNext, SpoolStep

\* A row materialize committed survives any power loss with its bundle,
\* because the directory is synchronized before the row commits.
THEOREM SyncedRowsSurvivePowerLoss == PowerSpec => []SyncedRowSurvivesPowerLoss
<1>1. SpoolInit => PowerInv
  <2> SUFFICES ASSUME SpoolInit PROVE PowerInv
    OBVIOUS
  <2>1. SpoolTypeOK
    BY SpoolInvInit DEF SpoolInv
  <2> QED BY <2>1, SpoolAssumption
       DEF SpoolAssumption, SpoolInit, PowerInv, SyncedRowSurvivesPowerLoss, LiveRows
<1>2. PowerInv => SyncedRowSurvivesPowerLoss
  BY DEF PowerInv
<1> QED BY <1>1, <1>2, PowerInvStep, PTL DEF PowerSpec


-------------------------------------------------------------------------------
(* What a reconcile pass has established so far: every entry it has done   *)
(* with, or never listed, agrees with its row.  The mutator is the only    *)
(* writer, so nothing behind the pass changes until it returns.            *)

Reconciled(e) ==
    file[e] # "staging" /\ (file[e] = "bundle" <=> row[e] = "materialized")

ScanInv == pc = "reconcile" => \A e \in Entries \ todo : Reconciled(e)

LEMMA ScanInvStep == SpoolInv /\ ScanInv /\ [SpoolNext]_spoolVars => ScanInv'
<1> SUFFICES ASSUME SpoolInv, ScanInv, [SpoolNext]_spoolVars, pc' = "reconcile"
             PROVE  \A e \in Entries \ todo' : Reconciled(e)'
  BY DEF ScanInv
<1>1. SpoolTypeOK /\ LiveRowHasBundle
  BY DEF SpoolInv
<1>2. CASE UNCHANGED spoolVars
  BY <1>2 DEF spoolVars, ScanInv, Reconciled
<1>3. CASE StartReconcile
  BY <1>1, <1>3 DEF StartReconcile, Reconciled, diskVars, LiveRowHasBundle, LiveRows
<1>4. ASSUME NEW e \in Entries, ReconcileEntry(e)
      PROVE  \A f \in Entries \ todo' : Reconciled(f)'
  <2>1. \A f \in Entries \ todo : Reconciled(f)
    BY <1>4 DEF ReconcileEntry, ScanInv
  <2>2. todo' = todo \ {e} /\ (ReconcileBundle(e) \/ ReconcileStaging(e))
    BY <1>4 DEF ReconcileEntry
  <2>3. /\ \A f \in Entries \ {e} : file'[f] = file[f] /\ row'[f] = row[f]
        /\ Reconciled(e)'
    <3>1. CASE ReconcileBundle(e) /\ row[e] = "acknowledged"
      BY <1>1, <3>1 DEF ReconcileBundle, SetFile, Reconciled, SpoolTypeOK
    <3>2. CASE ReconcileBundle(e) /\ row[e] = "materialized"
      BY <1>1, <3>2 DEF ReconcileBundle, Reconciled
    <3>3. CASE ReconcileBundle(e) /\ row[e] = "none"
      BY <1>1, <3>3 DEF ReconcileBundle, Reconciled, SpoolTypeOK
    <3>4. CASE ReconcileStaging(e)
      BY <1>1, <3>4 DEF ReconcileStaging, SetFile, Reconciled, SpoolTypeOK, LiveRowHasBundle,
                        LiveRows
    <3>5. row[e] \in RowStates
      BY <1>1 DEF SpoolTypeOK
    <3> QED BY <2>2, <3>1, <3>2, <3>3, <3>4, <3>5 DEF RowStates
  <2> QED BY <2>1, <2>2, <2>3 DEF Reconciled
<1>5. ~ (\/ \E free \in FreeLevels : EvaluateSpool(free)
         \/ \E e \in Entries, free \in FreeLevels : Materialize(e, free)
         \/ WriteAndSyncStaging \/ StagingFails \/ RenameBundle \/ SyncDirectory
         \/ InsertSpoolEntry \/ MaterializeFails \/ FinishReconcile \/ ReconcileFails
         \/ RemoveBundle \/ RemoveFails \/ Crash
         \/ \E e \in Entries : CommitAcknowledged(e))
  BY DEF EvaluateSpool, Materialize, WriteAndSyncStaging, StagingFails, RenameBundle,
         SyncDirectory, InsertSpoolEntry, MaterializeFails, FinishReconcile, ReconcileFails,
         RemoveBundle, RemoveFails, Crash, CommitAcknowledged, Return, Restart
<1> QED BY <1>2, <1>3, <1>4, <1>5 DEF SpoolNext, SpoolStep

AllReconciled == \A e \in Entries : Reconciled(e)

\* Where every entry agrees with its row, the rows count the directory's bytes.
LEMMA ReconciledIsSettled == AllReconciled => Settled
<1> SUFFICES ASSUME AllReconciled PROVE Settled
  OBVIOUS
<1>1. LiveRows = { e \in Entries : file[e] = "bundle" }
  BY DEF LiveRows, AllReconciled, Reconciled
<1>2. live_usage_bytes = DirectoryBytes
  BY <1>1 DEF live_usage_bytes, DirectoryBytes
<1> QED BY <1>2 DEF Settled, AllReconciled, Reconciled

\* Spool::reconcile, when it returns without an error, leaves no orphan, no
\* staging file and no acknowledged debris, so that live_usage_bytes is what
\* the directory holds, whatever crashes and failed calls had left before it.
THEOREM ReconcileAlwaysSettles == SpoolSpec => ReconcileSettles
<1> DEFINE Finishes == pc = "reconcile" /\ pc' = "idle" /\ faults' = faults
<1>1. SpoolInit => ScanInv
  BY DEF SpoolInit, ScanInv
<1>2. SpoolInv /\ ScanInv /\ [SpoolNext]_spoolVars => [Finishes => AllReconciled']_spoolVars
  <2> SUFFICES ASSUME SpoolInv, ScanInv, SpoolNext, Finishes PROVE AllReconciled'
    OBVIOUS
  <2>1. ~Fault
    BY DEF Fault, SpoolInv, SpoolTypeOK
  <2>2. FinishReconcile
    BY <2>1 DEF SpoolNext, SpoolStep, EvaluateSpool, Materialize, WriteAndSyncStaging,
       StagingFails, RenameBundle, SyncDirectory, InsertSpoolEntry, MaterializeFails,
       StartReconcile, ReconcileEntry, ReconcileFails, RemoveBundle, RemoveFails, Crash,
       CommitAcknowledged
  <2> QED BY <2>2 DEF FinishReconcile, ScanInv, AllReconciled, Reconciled, diskVars
<1> QED
  BY <1>1, <1>2, ScanInvStep, SpoolInvariant, ReconciledIsSettled, PTL
     DEF SpoolSpec, ReconcileSettles

--------------------------------------------------------------------------------
(* Pressure.  The gate looks at the recorded usage once, before a bundle   *)
(* is staged; the row that counts it commits four steps later.             *)

\* Between admission and row commit the recorded usage is below the cap.
AdmissionInv ==
    pc \in {"minted", "staged", "renamed", "synced"} => live_usage_bytes < Cap

UsageInv == SpoolTypeOK /\ AdmissionInv /\ UsageBounded

\* All of the set but one element stays below the cap.
OneOver(M) == M # {} => \E last \in M : SumFunctionOnSet(Size, M \ {last}) < Cap

\* A gate that admits has measured less than the cap, latched or not: the
\* resume threshold is never above it, saturated product or not.
LEMMA AdmittedBelowCap ==
    ASSUME NEW p \in BOOLEAN, NEW usage \in Nat, NEW free, ~Evaluate(p, usage, free)
    PROVE  usage < Cap
<1>1. resume_threshold_bytes <= Cap /\ resume_threshold_bytes \in Nat
  <2>1. /\ Cap \in Nat /\ UMax \in Nat /\ Cap <= UMax
        /\ ResumePercent \in Nat /\ ResumePercent <= 100
    BY PressureAssumption DEF PressureAssumption
  <2>2. Cap * ResumePercent \in Nat /\ Cap * ResumePercent <= Cap * 100
    BY <2>1, Z3
  <2> DEFINE product == SaturatingMul(Cap, ResumePercent)
  <2>3. product \in Nat /\ product <= Cap * 100
    BY <2>1, <2>2 DEF SaturatingMul
  <2> HIDE DEF product
  <2>4. product \div 100 \in Nat /\ product \div 100 <= Cap
    BY <2>1, <2>3
  <2> QED BY <2>4 DEF resume_threshold_bytes, product
<1>2. Cap \in Nat
  BY PressureAssumption DEF PressureAssumption
<1>3. CASE p
  BY <1>1, <1>2, <1>3 DEF Evaluate
<1>4. CASE ~p
  BY <1>2, <1>4 DEF Evaluate, CapLive
<1> QED BY <1>3, <1>4

\* Sums of sizes are naturals and grow with their sets.
LEMMA SizesSum ==
    ASSUME NEW M \in SUBSET Entries, NEW K \in SUBSET M
    PROVE  /\ SumFunctionOnSet(Size, K) \in Nat /\ SumFunctionOnSet(Size, M) \in Nat
           /\ SumFunctionOnSet(Size, K) <= SumFunctionOnSet(Size, M)
<1>1. IsFiniteSet(Entries) /\ Size \in [Entries -> Nat]
  BY SpoolAssumption DEF SpoolAssumption
<1>2. K \in SUBSET Entries
  OBVIOUS
<1> QED BY <1>1, <1>2, SumSteps, SumMonotone

\* Whatever leaves a set that is one element over leaves it one over.
LEMMA OneOverShrinks ==
    ASSUME NEW M \in SUBSET Entries, OneOver(M), NEW e
    PROVE  OneOver(M \ {e})
<1> SUFFICES ASSUME M \ {e} # {}
             PROVE  \E last \in M \ {e} : SumFunctionOnSet(Size, (M \ {e}) \ {last}) < Cap
  BY DEF OneOver
<1>1. PICK last \in M : SumFunctionOnSet(Size, M \ {last}) < Cap
  BY DEF OneOver
<1>2. PICK other \in M \ {e} : last # e => other = last
  OBVIOUS
<1> DEFINE Before == M \ {last}
           After == (M \ {e}) \ {other}
<1>3. Before \in SUBSET Entries /\ After \in SUBSET Before
  BY <1>2
<1>4. Cap \in Nat
  BY PressureAssumption DEF PressureAssumption
<1> HIDE DEF Before, After
<1>5. SumFunctionOnSet(Size, After) < Cap
  BY <1>1, <1>3, <1>4, SizesSum DEF Before
<1> QED BY <1>2, <1>5 DEF After

\* Every step, power losses included, keeps the usage within its bound.
LEMMA UsageStep == UsageInv /\ [SpoolNext \/ PowerLoss]_spoolVars => UsageInv'
<1> SUFFICES ASSUME UsageInv, [SpoolNext \/ PowerLoss]_spoolVars PROVE UsageInv'
  OBVIOUS
<1>0. SpoolTypeOK'
  <2>1. CASE [SpoolNext]_spoolVars
    BY <2>1, SpoolTypeStep DEF UsageInv
  <2>2. CASE PowerLoss
    BY <2>2, PowerLossType DEF UsageInv
  <2> QED BY <2>1, <2>2
<1> DEFINE M == LiveRows \ indexed
           Admitted == {"minted", "staged", "renamed", "synced"}
<1>1. /\ LiveRows \in SUBSET Entries /\ M \in SUBSET Entries /\ OneOver(M)
      /\ live_usage_bytes \in Nat /\ Cap \in Nat
  BY SizesSum, PressureAssumption
     DEF UsageInv, UsageBounded, OneOver, LiveRows, live_usage_bytes, PressureAssumption
<1>2. ASSUME OneOver(M') PROVE UsageBounded'
  BY <1>2 DEF OneOver, UsageBounded
<1>3. ASSUME UNCHANGED <<row, indexed>>, pc' \in Admitted => pc \in Admitted
      PROVE  UsageInv'
  <2>1. LiveRows' = LiveRows
    BY <1>3 DEF LiveRows
  <2>2. live_usage_bytes' = live_usage_bytes /\ M' = M
    BY <1>3, <2>1 DEF live_usage_bytes
  <2>3. AdmissionInv'
    BY <1>3, <2>2 DEF UsageInv, AdmissionInv
  <2> QED BY <1>0, <1>1, <1>2, <2>2, <2>3 DEF UsageInv
<1>4. ASSUME NEW e \in Entries, NEW free \in FreeLevels, Materialize(e, free) PROVE UsageInv'
  <2>1. LiveRows' = LiveRows
    BY <1>4 DEF Materialize, LiveRows
  <2>2. live_usage_bytes' = live_usage_bytes /\ M' = M
    BY <1>4, <2>1 DEF live_usage_bytes, Materialize
  <2>3. CASE paused'
    BY <1>3, <1>4, <2>3 DEF Materialize
  <2>4. CASE ~paused'
    <3>1. live_usage_bytes < Cap
      BY <1>1, <1>4, <2>4, AdmittedBelowCap DEF Materialize, UsageInv, SpoolTypeOK
    <3> QED BY <1>0, <1>1, <1>2, <2>2, <3>1 DEF UsageInv, AdmissionInv
  <2> QED BY <2>3, <2>4
<1>5. CASE InsertSpoolEntry
  <2>1. live_usage_bytes < Cap
    BY <1>5 DEF InsertSpoolEntry, UsageInv, AdmissionInv
  <2>2. M' \ {cur} \in SUBSET LiveRows
    BY <1>5 DEF InsertSpoolEntry, LiveRows, UsageInv, SpoolTypeOK
  <2>3. M' # {} => cur \in M' \/ M' \in SUBSET LiveRows
    BY <2>2
  <2>4. ASSUME NEW last \in M', M' \ {last} \in SUBSET LiveRows
        PROVE  SumFunctionOnSet(Size, M' \ {last}) < Cap
    BY <1>1, <2>1, <2>4, SizesSum DEF live_usage_bytes
  <2>5. OneOver(M')
    BY <2>2, <2>3, <2>4 DEF OneOver
  <2>6. AdmissionInv'
    BY <1>5 DEF InsertSpoolEntry, Return, AdmissionInv
  <2> QED BY <1>0, <1>2, <2>5, <2>6 DEF UsageInv
<1>6. ASSUME NEW e \in Entries, ReconcileEntry(e) PROVE UsageInv'
  <2>1. CASE UNCHANGED <<row, indexed>>
    BY <1>3, <1>6, <2>1 DEF ReconcileEntry
  <2>2. CASE ReconcileBundle(e) /\ row[e] = "none"
    <3>1. /\ row' = [row EXCEPT ![e] = "materialized"] /\ indexed' = indexed \cup {e}
          /\ pc' = "reconcile"
      BY <1>6, <2>2 DEF ReconcileEntry, ReconcileBundle
    <3>2. M' = M \ {e}
      BY <3>1 DEF LiveRows, UsageInv, SpoolTypeOK
    <3>3. OneOver(M')
      BY <1>1, <3>2, OneOverShrinks
    <3> QED BY <1>0, <1>2, <3>1, <3>3 DEF UsageInv, AdmissionInv
  <2>3. CASE ReconcileBundle(e) /\ row[e] # "none"
    BY <1>6, <2>1, <2>3 DEF ReconcileBundle, UsageInv, SpoolTypeOK, RowStates
  <2> QED BY <1>6, <2>1, <2>2, <2>3 DEF ReconcileEntry, ReconcileStaging
<1>7. ASSUME NEW e \in Entries, CommitAcknowledged(e) PROVE UsageInv'
  <2>1. M' = M \ {e}
    BY <1>7 DEF CommitAcknowledged, LiveRows, UsageInv, SpoolTypeOK
  <2>2. OneOver(M')
    BY <1>1, <2>1, OneOverShrinks
  <2>3. AdmissionInv'
    BY <1>7 DEF CommitAcknowledged, AdmissionInv
  <2> QED BY <1>0, <1>2, <2>2, <2>3 DEF UsageInv
<1>8. CASE UNCHANGED spoolVars BY <1>3, <1>8 DEF spoolVars
<1>9. CASE PowerLoss BY <1>3, <1>9 DEF PowerLoss, Restart
<1> QED
  BY <1>3, <1>4, <1>5, <1>6, <1>7, <1>8, <1>9
     DEF SpoolNext, SpoolStep, EvaluateSpool, WriteAndSyncStaging, StagingFails, RenameBundle,
         SyncDirectory, MaterializeFails, StartReconcile, FinishReconcile, ReconcileFails,
         RemoveBundle, RemoveFails, Crash, Return, Restart, diskVars

\* The rows materialize committed never pass the cap by more than one bundle,
\* with any number of entries of any size, under failed calls, process deaths
\* and power losses: each was admitted below the cap, and nothing but its own
\* row was added between its admission and its commit.
THEOREM UsageStaysBounded == SpoolSpec \/ PowerSpec => []UsageBounded
<1>1. SpoolInit => UsageInv
  <2> SUFFICES ASSUME SpoolInit PROVE UsageInv
    OBVIOUS
  <2>1. SpoolTypeOK
    BY SpoolInvInit DEF SpoolInv
  <2>2. AdmissionInv /\ UsageBounded
    BY DEF SpoolInit, AdmissionInv, UsageBounded, LiveRows
  <2> QED BY <2>1, <2>2 DEF UsageInv
<1>2. UsageInv => UsageBounded
  BY DEF UsageInv
<1>3. [SpoolNext]_spoolVars => [SpoolNext \/ PowerLoss]_spoolVars
  OBVIOUS
<1> QED BY <1>1, <1>2, <1>3, UsageStep, PTL DEF SpoolSpec, PowerSpec

-------------------------------------------------------------------------------
(* The pipeline.                                                           *)

\* A minted bundle carries a range, and a row describes the bytes of the
\* bundle it was inserted for.
ContentInv ==
    /\ content \in [Entries -> Occurrences \cup {NoOccurrence}]
    /\ \A e \in minted : content[e] \in Occurrences
    /\ \A e \in Entries : row[e] # "none" => payload[e] = content[e]

PipeInv == SpoolInv /\ QP!QueueInv /\ ContentInv
-------------------------------------------------------------------------------
(* The queue as the composed client instantiates it, and as its proofs do. *)

\* The assumptions of the queue's proofs are the pipeline's.
LEMMA QueueConstants == QP!QueueAssumption!:
BY PipelineAssumption DEF Q!QueueAssumption, QP!QueueAssumption, QP!Receipts, Q!Receipts

\* A transaction of the pipeline's queue is one of the queue that the upload
\* proofs are about.
LEMMA SameQueueStep == [Q!QueueNext]_(Q!vars) => [QP!QueueNext]_(QP!vars)
<1> SUFFICES ASSUME [Q!QueueNext]_(Q!vars) PROVE [QP!QueueNext]_(QP!vars)
  OBVIOUS
<1>1. CASE UNCHANGED Q!vars
  BY <1>1 DEF Q!vars, QP!vars
<1>2. ASSUME NEW e \in Entries, NEW o \in Occurrences, Q!RowAppears(e, o)
      PROVE  QP!QueueNext
  BY <1>2 DEF Q!RowAppears, QP!RowAppears, Q!queueVars, QP!queueVars, QP!QueueNext
<1>3. ASSUME NEW e \in Entries, Q!BindRange(e) PROVE QP!QueueNext
  BY <1>3 DEF Q!BindRange, QP!BindRange, QP!QueueNext, QP!QueueStep
<1>4. ASSUME NEW e \in Entries, NEW r \in Requests, Q!FreezeUpload(e, r) PROVE QP!QueueNext
  BY <1>4 DEF Q!FreezeUpload, QP!FreezeUpload, Q!MintedRequests, QP!MintedRequests,
              QP!QueueNext, QP!QueueStep
<1>5. ASSUME NEW e \in Entries, NEW delay \in Q!full_jitter_ms(attempts[e]),
             Q!ClaimDueUpload(e, delay)
      PROVE  QP!QueueNext
  <2>1. delay \in QP!full_jitter_ms(attempts[e])
    BY DEF Q!full_jitter_ms, QP!full_jitter_ms, Q!upper_bound_ms, QP!upper_bound_ms,
           Q!ProductMax, QP!ProductMax
  <2>2. QP!ClaimDueUpload(e, delay)
    BY <1>5 DEF Q!ClaimDueUpload, QP!ClaimDueUpload, Q!Due, QP!Due, Q!Earlier, QP!Earlier
  <2> QED BY <2>1, <2>2 DEF QP!QueueNext, QP!QueueStep
<1>6. CASE Q!Tick
  BY <1>6 DEF Q!Tick, QP!Tick, Q!Due, QP!Due, QP!QueueNext, QP!QueueStep
<1>7. ASSUME NEW e \in Entries, NEW o \in Occurrences, NEW d \in Digests, Q!ReceiptArrives(e, o, d)
      PROVE  QP!QueueNext
  BY <1>7 DEF Q!ReceiptArrives, QP!ReceiptArrives, QP!QueueNext, QP!QueueStep
<1>8. ASSUME NEW e \in Entries, NEW failure \in Q!Failures, Q!AttemptFails(e, failure)
      PROVE  QP!QueueNext
  <2>1. failure \in QP!Failures
    BY DEF Q!Failures, QP!Failures
  <2>2. QP!AttemptFails(e, failure)
    BY <1>8 DEF Q!AttemptFails, QP!AttemptFails, Q!decide, QP!decide,
                Q!QuarantineDecisions, QP!QuarantineDecisions
  <2> QED BY <2>1, <2>2 DEF QP!QueueNext, QP!QueueStep
<1>9. CASE Q!ForgetInflight
  BY <1>9 DEF Q!ForgetInflight, QP!ForgetInflight, QP!QueueNext
<1>10. ASSUME NEW e \in Entries, NEW rc \in replies, Q!AcknowledgeReceipt(e, rc)
       PROVE  QP!QueueNext
  <2>1. QP!AcknowledgeReceipt(e, rc)
    BY <1>10 DEF Q!AcknowledgeReceipt, QP!AcknowledgeReceipt, Q!LoadPending, QP!LoadPending,
                 Q!ValidateBinding, QP!ValidateBinding, Q!ReceiptAdmissible,
                 QP!ReceiptAdmissible, Q!CursorConflict, QP!CursorConflict,
                 Q!AdvanceCursor, QP!AdvanceCursor
  <2> QED BY <2>1 DEF QP!QueueNext, QP!Acknowledge
<1> QED
  BY <1>1, <1>2, <1>3, <1>4, <1>5, <1>6, <1>7, <1>8, <1>9, <1>10
     DEF Q!QueueNext, Q!QueueStep, Q!Acknowledge

\* A transaction of the pipeline's queue keeps the queue's invariant.
LEMMA QueueKeepsInv == ASSUME QP!QueueInv, [Q!QueueNext]_(Q!vars) PROVE QP!QueueInv'
BY QueueConstants, SameQueueStep, QP!QueueInvStep
-------------------------------------------------------------------------------
(* What one step of a spool call does to rows and files.                   *)

\* A step of a spool call inserts at most one row, for a minted entry.
LEMMA SpoolRows ==
    ASSUME SpoolInv, SpoolStep
    PROVE  /\ minted \subseteq minted'
           /\ \/ row' = row
              \/ \E e \in minted : row[e] = "none" /\ row' = [row EXCEPT ![e] = "materialized"]
<1> USE DEF SpoolInv, SpoolTypeOK, PositionInv, UnmintedInv, FileStates, RowStates, diskVars
<1>1. CASE InsertSpoolEntry
  BY <1>1 DEF InsertSpoolEntry
<1>2. ASSUME NEW e \in Entries, ReconcileEntry(e)
      PROVE  /\ minted' = minted
             /\ row' = row \/ (e \in minted /\ row[e] = "none" /\ row' = [row EXCEPT ![e] = "materialized"])
  <2>1. CASE ReconcileBundle(e) /\ row[e] = "acknowledged"
    BY <1>2, <2>1 DEF ReconcileEntry, ReconcileBundle
  <2>2. CASE ReconcileBundle(e) /\ row[e] = "materialized"
    BY <1>2, <2>2 DEF ReconcileEntry, ReconcileBundle
  <2>3. CASE ReconcileBundle(e) /\ row[e] = "none"
    BY <1>2, <2>3 DEF ReconcileEntry, ReconcileBundle
  <2>4. CASE ReconcileStaging(e)
    BY <1>2, <2>4 DEF ReconcileEntry, ReconcileStaging
  <2> QED BY <1>2, <2>1, <2>2, <2>3, <2>4 DEF ReconcileEntry
<1>3. CASE UNCHANGED row /\ minted \subseteq minted'
  BY <1>3
<1> QED
  BY <1>1, <1>2, <1>3
     DEF SpoolStep, EvaluateSpool, Materialize, WriteAndSyncStaging, StagingFails, RenameBundle,
         SyncDirectory, MaterializeFails, StartReconcile, FinishReconcile, ReconcileFails,
         RemoveBundle, RemoveFails

\* A step of a spool call changes at most one file: it completes a bundle
\* that has no row, or it removes one whose row is acknowledged, or no
\* bundle is concerned.
LEMMA SpoolFiles ==
    ASSUME SpoolInv, SpoolStep
    PROVE  \/ file' = file
           \/ \E e \in Entries, state \in FileStates :
                 /\ file' = [file EXCEPT ![e] = state]
                 /\ state = "bundle" => row[e] = "none"
                 /\ file[e] = "bundle" => row[e] = "acknowledged" /\ state = "absent"
<1> USE DEF SpoolInv, SpoolTypeOK, PositionInv, FileStates, RowStates, diskVars
<1>1. CASE WriteAndSyncStaging
  BY <1>1 DEF WriteAndSyncStaging, SetFile
<1>2. CASE StagingFails
  BY <1>2 DEF StagingFails, SetFile
<1>3. CASE RenameBundle
  BY <1>3 DEF RenameBundle, SetFile
<1>4. ASSUME NEW e \in Entries, ReconcileEntry(e)
      PROVE  \/ file' = file
             \/ /\ file' = [file EXCEPT ![e] = "absent"]
                /\ file[e] = "bundle" => row[e] = "acknowledged"
  <2>1. CASE ReconcileBundle(e) /\ row[e] = "acknowledged"
    BY <1>4, <2>1 DEF ReconcileBundle, SetFile
  <2>2. CASE ReconcileBundle(e) /\ row[e] # "acknowledged"
    BY <1>4, <2>2 DEF ReconcileBundle
  <2>3. CASE ReconcileStaging(e)
    BY <1>4, <2>3 DEF ReconcileStaging, SetFile
  <2> QED BY <1>4, <2>1, <2>2, <2>3 DEF ReconcileEntry
<1>5. CASE RemoveBundle
  BY <1>5 DEF RemoveBundle, SetFile
<1>6. CASE UNCHANGED file
  BY <1>6
<1> QED
  BY <1>1, <1>2, <1>3, <1>4, <1>5, <1>6
     DEF SpoolStep, EvaluateSpool, Materialize, SyncDirectory, InsertSpoolEntry,
         MaterializeFails, StartReconcile, FinishReconcile, ReconcileFails, RemoveFails
-------------------------------------------------------------------------------
(* The invariant of the composition.                                       *)

\* A spool call is a new row of the queue, or nothing to it.
LEMMA SpoolCallRows ==
    ASSUME PipeInv, SpoolCall
    PROVE  \/ row' = row /\ payload' = payload
           \/ \E e \in minted :
                 /\ row[e] = "none"
                 /\ row' = [row EXCEPT ![e] = "materialized"]
                 /\ payload' = [payload EXCEPT ![e] = content[e]]
<1>1. row \in [Entries -> RowStates] /\ minted \subseteq Entries
  BY DEF PipeInv, SpoolInv, SpoolTypeOK
<1>2. payload \in [Entries -> Occurrences \cup {NoOccurrence}]
  BY DEF PipeInv, QP!QueueInv, QP!QueueTypeOK
<1>3. CASE row' = row
  BY <1>1, <1>2, <1>3 DEF SpoolCall, RowsDescribeContent
<1>4. ASSUME NEW e \in minted, row[e] = "none", row' = [row EXCEPT ![e] = "materialized"]
      PROVE  payload' = [payload EXCEPT ![e] = content[e]]
  BY <1>1, <1>2, <1>4 DEF SpoolCall, RowsDescribeContent
<1> QED BY <1>3, <1>4, SpoolRows DEF PipeInv, SpoolCall

\* Every step of the composed client is a transaction of the upload protocol
\* or does not concern it.
LEMMA PipeRefinesQueueStep ==
    ASSUME PipeInv, [PipeNext]_pipeVars
    PROVE  [Q!QueueNext]_(Q!vars)
<1>1. CASE SpoolCall
  <2>1. CASE row' = row /\ payload' = payload
    BY <1>1, <2>1 DEF SpoolCall, Q!vars
  <2>2. ASSUME NEW e \in minted, row[e] = "none",
               row' = [row EXCEPT ![e] = "materialized"],
               payload' = [payload EXCEPT ![e] = content[e]]
        PROVE  Q!QueueNext
    <3>1. e \in Entries /\ content[e] \in Occurrences
      BY DEF PipeInv, SpoolInv, SpoolTypeOK, ContentInv
    <3>2. Q!RowAppears(e, content[e])
      BY <1>1, <2>2 DEF SpoolCall, Q!RowAppears, Q!queueVars
    <3> QED BY <3>1, <3>2 DEF Q!QueueNext
  <2> QED BY <1>1, <2>1, <2>2, SpoolCallRows
<1>2. CASE Transaction
  BY <1>2 DEF Transaction, Q!QueueNext, Q!QueueStep
<1>3. CASE Outside
  BY <1>3 DEF Outside, Q!QueueNext, Q!QueueStep
<1>4. CASE AcknowledgeAndCleanUp
  BY <1>4 DEF AcknowledgeAndCleanUp, Q!QueueNext, Q!Acknowledge
<1>5. CASE ProcessDeath
  BY <1>5 DEF ProcessDeath, Crash, diskVars, Q!QueueNext, Q!ForgetInflight, Q!vars
<1>6. CASE UNCHANGED pipeVars
  BY <1>6 DEF pipeVars, spoolVars, Q!vars
<1> QED BY <1>1, <1>2, <1>3, <1>4, <1>5, <1>6 DEF PipeNext

\* Every step of the composed client is a step of the spool or does not
\* concern it.
LEMMA PipeRefinesSpoolStep ==
    ASSUME [PipeNext]_pipeVars
    PROVE  [SpoolNext]_spoolVars
BY DEF PipeNext, pipeVars, SpoolCall, Transaction, Outside, AcknowledgeAndCleanUp,
       ProcessDeath, SpoolNext

\* The initial state satisfies the invariant.
LEMMA PipeInvInit == PipeInit => PipeInv
<1> SUFFICES ASSUME PipeInit PROVE PipeInv
  OBVIOUS
<1>1. SpoolInv
  BY SpoolInvInit DEF PipeInit
<1>2. QP!QueueInit
  BY DEF PipeInit, Q!QueueInit, QP!QueueInit, Q!SourcesInit, QP!SourcesInit,
         Q!UpgradedInit, QP!UpgradedInit
<1>3. QP!QueueInv
  BY <1>2, QueueConstants, QP!QueueInvInit
<1>4. ContentInv
  BY DEF PipeInit, SpoolInit, ContentInv
<1> QED BY <1>1, <1>3, <1>4 DEF PipeInv

\* The invariant of the composition is inductive.
LEMMA PipeInvStep == PipeInv /\ [PipeNext]_pipeVars => PipeInv'
<1> SUFFICES ASSUME PipeInv, [PipeNext]_pipeVars PROVE PipeInv'
  OBVIOUS
<1>1. SpoolInv'
  BY PipeRefinesSpoolStep, SpoolInvStep DEF PipeInv
<1>2. QP!QueueInv'
  BY PipeRefinesQueueStep, QueueKeepsInv DEF PipeInv
<1>3. ContentInv'
  <2>0. /\ row \in [Entries -> RowStates] /\ minted \subseteq Entries /\ minted' \subseteq Entries
        /\ payload \in [Entries -> Occurrences \cup {NoOccurrence}]
    BY <1>1 DEF PipeInv, SpoolInv, SpoolTypeOK, QP!QueueInv, QP!QueueTypeOK
  <2>1. CASE SpoolCall
    <3>1. PICK o \in Occurrences :
            content' = [e \in Entries |-> IF e \in minted' \ minted THEN o ELSE content[e]]
      BY <2>1 DEF SpoolCall
    <3>2. /\ content' \in [Entries -> Occurrences \cup {NoOccurrence}]
          /\ \A e \in minted' : content'[e] \in Occurrences
      BY <2>0, <3>1 DEF PipeInv, ContentInv
    <3>3. \A e \in minted : content'[e] = content[e]
      BY <2>0, <3>1
    <3>4. \A e \in Entries : row[e] # "none" => e \in minted
      BY DEF PipeInv, SpoolInv, UnmintedInv
    <3>5. \A e \in Entries : row'[e] # "none" => payload'[e] = content'[e]
      BY <2>0, <2>1, <3>3, <3>4, SpoolCallRows DEF PipeInv, ContentInv
    <3> QED BY <3>2, <3>5 DEF ContentInv
  <2>2. CASE UNCHANGED <<minted, row, payload, content>>
    BY <2>2 DEF PipeInv, ContentInv
  <2>3. CASE AcknowledgeAndCleanUp
    BY <2>0, <2>3
       DEF AcknowledgeAndCleanUp, CommitAcknowledged, Q!AcknowledgeReceipt, PipeInv, ContentInv
  <2>4. CASE Transaction
    BY <2>2, <2>4 DEF Transaction, spoolVars, Q!BindRange, Q!FreezeUpload, Q!ClaimDueUpload,
                      Q!AttemptFails
  <2>5. CASE Outside
    BY <2>2, <2>5 DEF Outside, spoolVars, Q!Tick, Q!ReceiptArrives
  <2>6. CASE ProcessDeath
    BY <2>2, <2>6 DEF ProcessDeath, Crash, diskVars
  <2>7. CASE UNCHANGED pipeVars
    BY <2>2, <2>7 DEF pipeVars, spoolVars
  <2> QED BY <2>1, <2>3, <2>4, <2>5, <2>6, <2>7 DEF PipeNext
<1> QED BY <1>1, <1>2, <1>3 DEF PipeInv

\* Every behaviour of the composed client satisfies the invariant.
THEOREM PipeInvariant == PipeSpec => []PipeInv
BY PipeInvInit, PipeInvStep, PTL DEF PipeSpec
-------------------------------------------------------------------------------
\* The composed client still runs the upload protocol: no spool call, failed
\* call or process death changes the upload tables in a way that the protocol
\* does not allow.
THEOREM PipelineRunsUploadQueue == PipeSpec => RunsUploadQueue
<1>1. PipeInit => Q!QueueInit
  BY DEF PipeInit
<1>2. PipeInv /\ [PipeNext]_pipeVars => [Q!QueueNext]_(Q!vars)
  BY PipeRefinesQueueStep
<1> QED BY <1>1, <1>2, PipeInvariant, PTL DEF PipeSpec, RunsUploadQueue, Q!QueueSpec

\* The cursor never skips a range: whatever was acknowledged in whatever
\* order, a recorded range is receipted or its own bundle is still there.
THEOREM CursorsNeverSkip == PipeSpec => []CursorNeverSkips
<1>1. PipeInv => CursorNeverSkips
  <2> SUFFICES ASSUME PipeInv, NEW o \in Occurrences, rangeEntry[o] # NoEntry
               PROVE  LET e == rangeEntry[o]
                      IN  \/ receipt[e] # NoReceipt /\ receipt[e].occ = content[e]
                          \/ file[e] = "bundle" /\ content[e] = o
    BY DEF CursorNeverSkips
  <2> DEFINE e == rangeEntry[o]
  <2>1. e \in Entries /\ row[e] # "none" /\ payload[e] = o
    BY DEF PipeInv, QP!QueueInv, QP!QueueTypeOK, QP!BindingInv
  <2>2. content[e] = o
    BY <2>1 DEF PipeInv, ContentInv
  <2>3. CASE row[e] = "acknowledged"
    BY <2>1, <2>2, <2>3 DEF PipeInv, QP!QueueInv, QP!ReceiptInv
  <2>4. CASE row[e] = "materialized"
    BY <2>1, <2>2, <2>4 DEF PipeInv, SpoolInv, LiveRowHasBundle, LiveRows
  <2> QED BY <2>1, <2>3, <2>4 DEF PipeInv, SpoolInv, SpoolTypeOK, RowStates
<1> QED BY <1>1, PipeInvariant, PTL

\* The client keeps the promise of RangeCustody across every interleaving of
\* materialize, reconcile, upload, acknowledgement, failed calls and process
\* deaths: a complete bundle stays until a receipt for its range is stored.
THEOREM PipelineKeepsCustody == PipeSpec => KeepsCustody
<1>1. PipeInit => Custody!CustodyInit
  BY DEF PipeInit, SpoolInit, Q!QueueInit, custodyOf, Custody!CustodyInit
<1>2. PipeInv /\ [PipeNext]_pipeVars => [Custody!CustodyNext]_custodyOf
  <2> SUFFICES ASSUME PipeInv, [PipeNext]_pipeVars
               PROVE  [Custody!CustodyNext]_custodyOf
    OBVIOUS
  <2>0. /\ file \in [Entries -> FileStates] /\ row \in [Entries -> RowStates]
        /\ receipt \in [Entries -> QP!Receipts \cup {NoReceipt}]
        /\ \A e \in Entries : row[e] = "acknowledged" <=> receipt[e] # NoReceipt
    BY DEF PipeInv, SpoolInv, SpoolTypeOK, QP!QueueInv, QP!QueueTypeOK, QP!ReceiptInv
  <2>1. CASE UNCHANGED <<file, receipt>>
    BY <2>1 DEF custodyOf
  <2>2. ASSUME NEW e \in Entries, NEW state \in FileStates, UNCHANGED receipt,
               file' = [file EXCEPT ![e] = state],
               state = "bundle" => row[e] = "none",
               file[e] = "bundle" => row[e] = "acknowledged" /\ state = "absent"
        PROVE  [Custody!CustodyNext]_custodyOf
    <3>1. CASE state = "bundle"
      <4>1. custodyOf[e] = "none"
        BY <2>0, <2>2, <3>1 DEF custodyOf
      <4>2. custodyOf' = [custodyOf EXCEPT ![e] = "held"]
        BY <2>0, <2>2, <3>1 DEF custodyOf
      <4> QED BY <4>1, <4>2 DEF Custody!CustodyNext, Custody!Hold
    <3>2. CASE file[e] = "bundle"
      <4>1. custodyOf[e] = "receipted"
        BY <2>0, <2>2, <3>2 DEF custodyOf
      <4>2. custodyOf' = [custodyOf EXCEPT ![e] = "released"]
        BY <2>0, <2>2, <3>2 DEF custodyOf
      <4> QED BY <4>1, <4>2 DEF Custody!CustodyNext, Custody!Release
    <3>3. CASE state # "bundle" /\ file[e] # "bundle"
      BY <2>0, <2>2, <3>3 DEF custodyOf
    <3> QED BY <3>1, <3>2, <3>3
  <2>3. CASE SpoolCall
    BY <2>1, <2>2, <2>3, SpoolFiles DEF SpoolCall, PipeInv
  <2>4. CASE AcknowledgeAndCleanUp
    <3>1. PICK e \in Entries, rc \in replies : Q!AcknowledgeReceipt(e, rc) /\ CommitAcknowledged(e)
      BY <2>4 DEF AcknowledgeAndCleanUp
    <3>2. rc # NoReceipt
      BY QueueConstants DEF PipeInv, QP!QueueInv, QP!QueueTypeOK
    <3>3. file' = file /\ receipt' = [receipt EXCEPT ![e] = rc]
      BY <3>1 DEF Q!AcknowledgeReceipt, CommitAcknowledged
    <3>4. CASE receipt[e] = rc
      BY <2>0, <2>1, <3>3, <3>4
    <3>5. CASE receipt[e] = NoReceipt
      <4>1. row[e] = "materialized"
        BY <2>0, <3>1, <3>5 DEF CommitAcknowledged, RowStates
      <4>2. file[e] = "bundle"
        BY <4>1 DEF PipeInv, SpoolInv, LiveRowHasBundle, LiveRows
      <4>3. custodyOf[e] = "held"
        BY <3>5, <4>2 DEF custodyOf
      <4>4. custodyOf' = [custodyOf EXCEPT ![e] = "receipted"]
        BY <2>0, <3>2, <3>3, <4>2 DEF custodyOf
      <4> QED BY <4>3, <4>4 DEF Custody!CustodyNext, Custody!StoreReceipt
    <3> QED BY <3>1, <3>4, <3>5 DEF Q!AcknowledgeReceipt, Q!ReceiptAdmissible
  <2>5. CASE Transaction
    BY <2>1, <2>5 DEF Transaction, spoolVars, Q!BindRange, Q!FreezeUpload, Q!ClaimDueUpload,
                      Q!AttemptFails
  <2>6. CASE Outside
    BY <2>1, <2>6 DEF Outside, spoolVars, Q!Tick, Q!ReceiptArrives
  <2>7. CASE ProcessDeath
    BY <2>1, <2>7 DEF ProcessDeath, Crash, diskVars
  <2>8. CASE UNCHANGED pipeVars
    BY <2>1, <2>8 DEF pipeVars, spoolVars
  <2> QED BY <2>3, <2>4, <2>5, <2>6, <2>7, <2>8 DEF PipeNext
<1> QED BY <1>1, <1>2, PipeInvariant, PTL DEF PipeSpec, KeepsCustody, Custody!CustodySpec
===============================================================================
