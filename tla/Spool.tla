-------------------------------- MODULE Spool --------------------------------
(***************************************************************************)
(* The client spool of archivist-client-core (src/spool.rs): bundle files  *)
(* in the spool directory, their spool_entries rows in the state database, *)
(* and the one mutator process that holds the state-directory lock.        *)
(*                                                                         *)
(* The mutator is sequential, so it is one program counter.  Every write   *)
(* that can survive alone is a step of its own, and the process may die    *)
(* between any two of them (Crash); the machine may also lose power, which *)
(* additionally undoes directory changes no fsync has made durable         *)
(* (PowerLoss).  The acknowledgement transaction is the environment here:  *)
(* module UploadQueue gives its guard.                                     *)
(***************************************************************************)
EXTENDS Pressure, FiniteSets, Functions

CONSTANTS
    Entries,      \* spool entry identities, the UUIDs materialize mints
    Size,         \* the payload size each entry would have
    FreeLevels,   \* the free-space measurements statvfs can return
    MaxFaults,    \* bound on failed calls, crashes and power losses
    NoEntry       \* "the mutator holds no entry"

ASSUME SpoolAssumption ==
    /\ Entries # {} /\ IsFiniteSet(Entries)
    /\ Size \in [Entries -> Nat]
    /\ FreeLevels \subseteq Nat /\ FreeLevels # {}
    /\ MaxFaults \in Nat
    /\ NoEntry \notin Entries

VARIABLES
    file,      \* file[e]: the directory entry the running system sees
    possible,  \* possible[e]: the directory states a power loss may leave
    row,       \* row[e]: the spool_entries row, committed with synchronous=FULL
    indexed,   \* entries whose row reconcile, not materialize, inserted
    minted,    \* entry identities already drawn (UUIDv7 never repeats)
    pc,        \* the mutator's position
    cur,       \* the entry its current call works on
    todo,      \* directory entries the reconcile pass has not visited
    paused,    \* PressureGate.paused, in memory only
    faults     \* injected faults so far

diskVars == <<file, possible, row, indexed, minted>>
procVars == <<pc, cur, todo, paused>>
spoolVars == <<file, possible, row, indexed, minted, pc, cur, todo, paused, faults>>

FileStates == {"absent", "staging", "bundle"}
RowStates == {"none", "materialized", "acknowledged"}
PCs == {"idle", "minted", "staged", "renamed", "synced", "cleanup", "reconcile"}

\* Entries still counted: a row that is not acknowledged.
LiveRows == { e \in Entries : row[e] = "materialized" }

live_usage_bytes == SumFunctionOnSet(Size, LiveRows)

SpoolInit ==
    /\ file = [e \in Entries |-> "absent"]
    /\ possible = [e \in Entries |-> {"absent"}]
    /\ row = [e \in Entries |-> "none"]
    /\ indexed = {}
    /\ minted = {}
    /\ pc = "idle"
    /\ cur = NoEntry
    /\ todo = {}
    /\ paused = FALSE
    /\ faults = 0

-------------------------------------------------------------------------------
(* The directory.  A change is visible at once and durable only after the  *)
(* directory is synchronized; until then a power loss may leave either.    *)

SetFile(e, state) ==
    /\ file' = [file EXCEPT ![e] = state]
    /\ possible' = [possible EXCEPT ![e] = @ \cup {state}]

Fault == faults < MaxFaults /\ faults' = faults + 1

\* The call returns: the mutator holds nothing.
Return == pc' = "idle" /\ cur' = NoEntry

-------------------------------------------------------------------------------
(* Spool::materialize and begin_bundle.                                    *)

\* The scheduling cycle evaluates the gate once more on its own.
EvaluateSpool(free) ==
    /\ pc = "idle"
    /\ paused' = Evaluate(paused, live_usage_bytes, free)
    /\ UNCHANGED <<diskVars, pc, cur, todo, faults>>

\* A held gate returns MaterializationPaused and writes nothing else.
Materialize(e, free) ==
    /\ pc = "idle" /\ e \in Entries \ minted
    /\ paused' = Evaluate(paused, live_usage_bytes, free)
    /\ IF paused'
       THEN UNCHANGED <<minted, pc, cur>>
       ELSE /\ minted' = minted \cup {e}
            /\ pc' = "minted" /\ cur' = e
    /\ UNCHANGED <<file, possible, row, indexed, todo, faults>>

WriteAndSyncStaging ==
    /\ pc = "minted"
    /\ SetFile(cur, "staging")
    /\ pc' = "staged"
    /\ UNCHANGED <<row, indexed, minted, cur, todo, paused, faults>>

\* The failed write is swept; the sweep's own failure is ignored.
StagingFails ==
    /\ pc = "minted" /\ Fault
    /\ \/ UNCHANGED <<file, possible>>
       \/ SetFile(cur, "staging")
       \/ /\ file' = file
          /\ possible' = [possible EXCEPT ![cur] = @ \cup {"staging"}]
    /\ Return
    /\ UNCHANGED <<row, indexed, minted, todo, paused>>

RenameBundle ==
    /\ pc = "staged"
    /\ SetFile(cur, "bundle")
    /\ pc' = "renamed"
    /\ UNCHANGED <<row, indexed, minted, cur, todo, paused, faults>>

\* Bug: the rename is never made durable.
SyncDirectorySkipped ==
    /\ pc = "renamed"
    /\ pc' = "synced"
    /\ UNCHANGED <<diskVars, cur, todo, paused, faults>>

\* fsync of the directory makes every entry's present state durable.
SyncDirectory ==
    /\ pc = "renamed"
    /\ possible' = [e \in Entries |-> {file[e]}]
    /\ pc' = "synced"
    /\ UNCHANGED <<file, row, indexed, minted, cur, todo, paused, faults>>

\* Bug: the row may be committed before the rename.
InsertBeforeRename ==
    /\ pc \in {"staged", "synced"}
    /\ row' = [row EXCEPT ![cur] = "materialized"]
    /\ pc' = IF pc = "staged" THEN "staged" ELSE "idle"
    /\ cur' = IF pc = "staged" THEN cur ELSE NoEntry
    /\ UNCHANGED <<file, possible, indexed, minted, todo, paused, faults>>

\* Bug: the row is inserted in a state no reader of the table expects.
InsertAsUploading ==
    /\ pc = "synced"
    /\ row' = [row EXCEPT ![cur] = "uploading"]
    /\ Return
    /\ UNCHANGED <<file, possible, indexed, minted, todo, paused, faults>>

InsertSpoolEntry ==
    /\ pc = "synced"
    /\ row' = [row EXCEPT ![cur] = "materialized"]
    /\ Return
    /\ UNCHANGED <<file, possible, indexed, minted, todo, paused, faults>>

\* Rename, directory sync, clock read or insert fails: whatever is on disk stays.
MaterializeFails ==
    /\ pc \in {"staged", "renamed", "synced"} /\ Fault
    /\ Return
    /\ UNCHANGED <<diskVars, todo, paused>>

-------------------------------------------------------------------------------
(* Spool::reconcile: one pass over the directory, each entry independent.  *)

StartReconcile ==
    /\ pc = "idle"
    /\ pc' = "reconcile"
    /\ todo' = { e \in Entries : file[e] # "absent" }
    /\ UNCHANGED <<diskVars, cur, paused, faults>>

\* Bug: an orphan is taken for debris.
ReconcileRemovesOrphan(e) ==
    /\ file[e] = "bundle"
    /\ IF row[e] = "materialized"
       THEN UNCHANGED <<file, possible>> ELSE SetFile(e, "absent")
    /\ UNCHANGED <<row, indexed>>

\* Bug: an indexed bundle is removed whatever its row's state.
ReconcileRemovesIndexed(e) ==
    /\ file[e] = "bundle"
    /\ IF row[e] # "none"
       THEN SetFile(e, "absent") /\ UNCHANGED <<row, indexed>>
       ELSE /\ row' = [row EXCEPT ![e] = "materialized"]
            /\ indexed' = indexed \cup {e}
            /\ UNCHANGED <<file, possible>>

\* Bug: the pass trusts the acknowledgement to have removed its bundle.
ReconcileIgnoresDebris(e) ==
    /\ file[e] = "bundle"
    /\ IF row[e] = "none"
       THEN row' = [row EXCEPT ![e] = "materialized"] /\ indexed' = indexed \cup {e}
       ELSE UNCHANGED <<row, indexed>>
    /\ UNCHANGED <<file, possible>>

\* reconcile_bundle: acknowledged debris is removed, a live bundle is left
\* alone, a complete orphan is indexed under the identity in its name.
ReconcileBundle(e) ==
    /\ file[e] = "bundle"
    /\ CASE row[e] = "acknowledged" ->
              SetFile(e, "absent") /\ UNCHANGED <<row, indexed>>
         [] row[e] = "materialized" ->
              UNCHANGED <<file, possible, row, indexed>>
         [] row[e] = "none" ->
              /\ row' = [row EXCEPT ![e] = "materialized"]
              /\ indexed' = indexed \cup {e}
              /\ UNCHANGED <<file, possible>>

\* Bug: staging files are only counted.
ReconcileKeepsStaging(e) ==
    /\ file[e] = "staging"
    /\ UNCHANGED <<file, possible, row, indexed>>

\* reconcile_staging: no row is ever recorded under a staging name, so
\* every staging file of this module's shape is removed.
ReconcileStaging(e) ==
    /\ file[e] = "staging"
    /\ SetFile(e, "absent")
    /\ UNCHANGED <<row, indexed>>

ReconcileEntry(e) ==
    /\ pc = "reconcile" /\ e \in todo
    /\ ReconcileBundle(e) \/ ReconcileStaging(e)
    /\ todo' = todo \ {e}
    /\ UNCHANGED <<minted, pc, cur, paused, faults>>

FinishReconcile ==
    /\ pc = "reconcile" /\ todo = {}
    /\ Return
    /\ UNCHANGED <<diskVars, todo, paused, faults>>

\* A step that cannot act ends the pass; earlier steps stay applied.
ReconcileFails ==
    /\ pc = "reconcile" /\ Fault
    /\ Return /\ todo' = {}
    /\ UNCHANGED <<diskVars, paused>>

-------------------------------------------------------------------------------
(* Acknowledgement: commit the row, then remove the bundle.                *)

\* The row half of acknowledge_receipt's transaction; a receipt that arrives
\* again finds the row acknowledged and runs the cleanup again.
CommitAcknowledged(e) ==
    /\ pc = "idle" /\ row[e] # "none"
    /\ row' = [row EXCEPT ![e] = "acknowledged"]
    /\ pc' = "cleanup" /\ cur' = e
    /\ UNCHANGED <<file, possible, indexed, minted, todo, paused, faults>>

\* Spool::remove; an absent file is success.
RemoveBundle ==
    /\ pc = "cleanup"
    /\ IF file[cur] = "bundle"
       THEN SetFile(cur, "absent")
       ELSE UNCHANGED <<file, possible>>
    /\ Return
    /\ UNCHANGED <<row, indexed, minted, todo, paused, faults>>

\* CleanupPending: the committed row is left to the next reconcile pass.
RemoveFails ==
    /\ pc = "cleanup" /\ Fault
    /\ Return
    /\ UNCHANGED <<diskVars, todo, paused>>

-------------------------------------------------------------------------------
(* Process death and power loss.                                           *)

\* The restarted mutator begins with a fresh PressureGate.
Restart == pc' = "idle" /\ cur' = NoEntry /\ todo' = {} /\ paused' = FALSE

Crash ==
    /\ Fault
    /\ Restart
    /\ UNCHANGED diskVars

PowerLoss ==
    /\ Fault
    /\ Restart
    /\ file' \in { f \in [Entries -> FileStates] : \A e \in Entries : f[e] \in possible[e] }
    /\ possible' = [e \in Entries |-> {file'[e]}]
    /\ UNCHANGED <<row, indexed, minted>>

\* Everything the mutator does except acknowledging.
SpoolStep ==
    \/ \E free \in FreeLevels : EvaluateSpool(free)
    \/ \E e \in Entries, free \in FreeLevels : Materialize(e, free)
    \/ WriteAndSyncStaging \/ StagingFails
    \/ RenameBundle \/ SyncDirectory \/ InsertSpoolEntry \/ MaterializeFails
    \/ StartReconcile \/ (\E e \in Entries : ReconcileEntry(e))
    \/ FinishReconcile \/ ReconcileFails
    \/ RemoveBundle \/ RemoveFails

SpoolNext ==
    \/ SpoolStep \/ Crash
    \/ \E e \in Entries : CommitAcknowledged(e)

SpoolSpec == SpoolInit /\ [][SpoolNext]_spoolVars

\* The same system on a machine that may lose power.
PowerSpec == SpoolInit /\ [][SpoolNext \/ PowerLoss]_spoolVars

\* The cycle reconciles on every pass (operator.rs, cycle) and the mutator's
\* steps are not abandoned while it runs.
CallStep ==
    \/ WriteAndSyncStaging \/ RenameBundle \/ SyncDirectory \/ InsertSpoolEntry
    \/ (\E e \in Entries : ReconcileEntry(e)) \/ FinishReconcile
    \/ RemoveBundle

SpoolFairSpec ==
    /\ SpoolSpec
    /\ WF_spoolVars(CallStep)
    /\ SF_spoolVars(StartReconcile)

-------------------------------------------------------------------------------
(* Properties.                                                             *)

SpoolTypeOK ==
    /\ file \in [Entries -> FileStates]
    /\ possible \in [Entries -> SUBSET FileStates]
    /\ row \in [Entries -> RowStates]
    /\ indexed \subseteq Entries /\ minted \subseteq Entries
    /\ pc \in PCs
    /\ cur \in Entries \cup {NoEntry}
    /\ todo \subseteq Entries
    /\ paused \in BOOLEAN
    /\ faults \in 0..MaxFaults

\* A row that is not acknowledged always has its complete bundle in the
\* directory: no failed call and no process death, at any point of
\* materialize, reconcile or the acknowledgement cleanup, leaves the client
\* believing a range is durable when it is not (spool.rs module contract).
LiveRowHasBundle == \A e \in LiveRows : file[e] = "bundle"

\* A row that materialize itself committed names a bundle that survives a
\* power loss: the directory sync precedes the row commit.  Rows reconcile
\* inserts are excluded, because index_orphan commits without a sync.
SyncedRowSurvivesPowerLoss ==
    \A e \in LiveRows \ indexed : possible[e] = {"bundle"}

\* A complete bundle is discarded only after its acknowledgement committed:
\* neither a failed materialize, nor reconcile, nor a crash removes one.
BundleKeptUntilAcknowledged ==
    [][\A e \in Entries : file[e] = "bundle" /\ file'[e] # "bundle"
            => row[e] = "acknowledged"]_spoolVars

\* The bytes of the bundles in the directory.
DirectoryBytes ==
    SumFunctionOnSet(Size, { e \in Entries : file[e] = "bundle" })

\* What one completed reconcile pass establishes: no orphan, no staging
\* file, no acknowledged debris, so that the recorded usage the gate measures
\* is the directory's live bytes (live_usage_bytes' claim).
Settled ==
    /\ \A e \in Entries : file[e] = "bundle" <=> row[e] = "materialized"
    /\ \A e \in Entries : file[e] # "staging"
    /\ live_usage_bytes = DirectoryBytes

\* A reconcile pass that returns without an error leaves a settled spool,
\* whatever debris earlier crashes and failed calls had left.
ReconcileSettles ==
    [][pc = "reconcile" /\ pc' = "idle" /\ faults' = faults => Settled']_spoolVars

\* The recorded usage never passes the cap by more than the one bundle whose
\* admission reached it; only orphans indexed by reconcile, which the gate
\* could not see when it admitted their successors, come on top.
UsageBounded ==
    LET materialized == LiveRows \ indexed
    IN  materialized # {} =>
            \E last \in materialized :
                SumFunctionOnSet(Size, materialized \ {last}) < Cap

\* Crash debris does not last: every complete orphan is eventually indexed, so
\* the range a crash left unrecorded returns to the upload pipeline, and every
\* acknowledged bundle's file is eventually gone for good, even when the
\* removal after the commit failed or never ran.
DebrisEventuallyResolved ==
    \A e \in Entries :
        /\ (file[e] = "bundle" /\ row[e] = "none") ~> (row[e] # "none")
        /\ row[e] = "acknowledged" ~> [](file[e] = "absent")
===============================================================================
