--------------------------- MODULE ServerLifecycle ---------------------------
(***************************************************************************)
(* One replica of the ingest server: admission (guard.rs), the deadline,   *)
(* the multipart session each commit opens and the registry that keeps it  *)
(* reachable (multipart.rs, raw_write.rs), and the three-step shutdown     *)
(* (serve.rs).  The commit runs on the blocking pool: dropping the request *)
(* future releases the admission and does not stop the commit.             *)
(*                                                                         *)
(* A request opens at most one session, so sessions are named by requests. *)
(***************************************************************************)
EXTENDS Naturals, FiniteSets

CONSTANTS
    Requests,       \* upload requests, each presented once
    Clients,        \* uploader identities
    ClientOf,       \* the client a request's envelope names
    Cap,            \* max_inflight_upload_count
    Share,          \* max_inflight_per_client
    MaxFaults       \* bound: failed store calls, panics and process deaths

ASSUME ServerAssumption ==
    /\ IsFiniteSet(Requests)
    /\ ClientOf \in [Requests -> Clients]
    /\ Cap \in Nat /\ Share \in Nat /\ MaxFaults \in Nat

VARIABLES
    pc,         \* each request's place, from "new" to "done"
    admitted,   \* requests holding a process slot: their future is alive
    share,      \* requests holding a slot of their client's share
    open,       \* sessions open at the backend
    live,       \* sessions registered to a writer
    abandoned,  \* sessions registered as abandoned
    orphans,    \* sessions no registry of this process ever knew
    phase,      \* "running", "draining", "aborting" or "returned"
    outcome,    \* the ShutdownOutcome so far
    snapshot,   \* the sessions abort_abandoned set out to abort
    targets,    \* those it has still to call
    failures,   \* those whose abort failed
    faults

requestVars == <<pc, admitted, share>>
sessionVars == <<open, live, abandoned, orphans>>
shutdownVars == <<phase, outcome, snapshot, targets, failures>>
vars == <<requestVars, sessionVars, shutdownVars, faults>>

ServerInit ==
    /\ pc = [r \in Requests |-> "new"]
    /\ admitted = {} /\ share = {}
    /\ open = {} /\ live = {} /\ abandoned = {} /\ orphans = {}
    /\ phase = "running" /\ outcome = "none"
    /\ snapshot = {} /\ targets = {} /\ failures = {}
    /\ faults = 0

Fault == faults < MaxFaults /\ faults' = faults + 1
NoFault == UNCHANGED faults

\* The blocking task, not the request future, carries these on.
Committing == {"begin", "write", "commit", "abort", "tail"}

Goto(r, place) == pc' = [pc EXCEPT ![r] = place]

\* Bug: the client's share is kept.
ReleasedSlot(r) ==
    /\ admitted' = admitted \ {r}
    /\ UNCHANGED share

\* Both admissions drop with the future that holds them.
Released(r) ==
    /\ admitted' = admitted \ {r}
    /\ share' = share \ {r}

Answered(r) == Goto(r, "done") /\ Released(r)
KeepsSlots == UNCHANGED <<admitted, share>>

-------------------------------------------------------------------------------
(* The way of a request to its commit.                                     *)

\* try_admit_process.  A request over the cap is refused and changes nothing.
\* A connection accepted before the signal may deliver its request while the
\* server drains.
Arrive(r) ==
    /\ phase \in {"running", "draining"} /\ pc[r] = "new"
    /\ Cardinality(admitted) < Cap
    /\ Goto(r, "parse")
    /\ admitted' = admitted \cup {r}
    /\ UNCHANGED <<share, sessionVars, shutdownVars, faults>>

\* admit_client, once the envelope has parsed.
AdmitClient(r) ==
    /\ pc[r] = "parse"
    /\ Cardinality({ q \in share : ClientOf[q] = ClientOf[r] }) < Share
    /\ Goto(r, "evidence")
    /\ share' = share \cup {r}
    /\ UNCHANGED <<admitted, sessionVars, shutdownVars, faults>>

\* Framing, header, parse, share, rate and evidence refusals.
Refuse(r) ==
    /\ pc[r] \in {"parse", "evidence"}
    /\ Answered(r)
    /\ UNCHANGED <<sessionVars, shutdownVars, faults>>

SpawnCommit(r) ==
    /\ pc[r] = "evidence"
    /\ Goto(r, "begin")
    /\ KeepsSlots
    /\ UNCHANGED <<sessionVars, shutdownVars, faults>>

\* Bug: the deadline is kept only until the commit is spawned.
DropBeforeCommit(r) ==
    /\ r \in admitted /\ pc[r] \notin Committing
    /\ Goto(r, "done")
    /\ Released(r)
    /\ UNCHANGED <<sessionVars, shutdownVars, faults>>

\* within_deadline elapses, or the connection goes away: the future is
\* dropped.  A commit that was spawned runs on without its admission.
DropFuture(r) ==
    /\ r \in admitted
    /\ Goto(r, IF pc[r] \in Committing THEN pc[r] ELSE "done")
    /\ Released(r)
    /\ UNCHANGED <<sessionVars, shutdownVars, faults>>

-------------------------------------------------------------------------------
(* The commit's multipart session.                                         *)

Unregistered(r) == live' = live \ {r}
Abandon(r) == live' = live \ {r} /\ abandoned' = abandoned \cup {r}

\* begin: the session is registered once the store has answered.
BeginSession(r) ==
    /\ pc[r] = "begin"
    /\ Goto(r, "write")
    /\ open' = open \cup {r} /\ live' = live \cup {r}
    /\ KeepsSlots
    /\ UNCHANGED <<abandoned, orphans, shutdownVars, faults>>

\* begin_multipart fails, perhaps after the backend created the session.
BeginFails(r) ==
    /\ pc[r] = "begin" /\ Fault
    /\ Answered(r)
    /\ \/ UNCHANGED <<open, orphans>>
       \/ open' = open \cup {r} /\ orphans' = orphans \cup {r}
    /\ UNCHANGED <<live, abandoned, shutdownVars>>

\* The body ends, every part is uploaded and the last checks pass.
Streamed(r) ==
    /\ pc[r] = "write"
    /\ Goto(r, "commit")
    /\ KeepsSlots
    /\ UNCHANGED <<sessionVars, shutdownVars, faults>>

\* A truncated or refused stream, a mismatch or a failed part.
StreamFails(r) ==
    /\ pc[r] = "write"
    /\ Goto(r, "abort")
    /\ KeepsSlots
    /\ UNCHANGED <<sessionVars, shutdownVars, faults>>

\* commit: a failure, applied at the backend or not, leads to the abort.
CommitSession(r) ==
    /\ pc[r] = "commit" /\ KeepsSlots
    /\ \/ /\ Goto(r, "tail") /\ NoFault
          /\ open' = open \ {r} /\ Unregistered(r)
       \/ /\ Goto(r, "abort") /\ Fault
          /\ open' \in {open, open \ {r}} /\ UNCHANGED live
    /\ UNCHANGED <<abandoned, orphans, shutdownVars>>

\* terminate_by_abort.  A session the backend no longer knows is a success.
AbortSession(r) ==
    /\ pc[r] = "abort" /\ Answered(r)
    /\ \/ /\ NoFault /\ open' = open \ {r}
          /\ Unregistered(r) /\ UNCHANGED abandoned
       \/ /\ Fault /\ open' \in {open, open \ {r}}
          /\ Abandon(r)
    /\ UNCHANGED <<orphans, shutdownVars>>

\* The blocking task panics: the writer's Drop abandons its session.
Panic(r) ==
    /\ pc[r] \in {"write", "commit", "abort"} /\ Fault
    /\ Answered(r)
    /\ Abandon(r)
    /\ UNCHANGED <<open, orphans, shutdownVars>>

\* The provenance tail and the receipt, which IngestCommit models.
LandTail(r) ==
    /\ pc[r] = "tail"
    /\ Answered(r)
    /\ UNCHANGED <<sessionVars, shutdownVars, faults>>

-------------------------------------------------------------------------------
(* Shutdown.                                                               *)

Signal ==
    /\ phase = "running"
    /\ phase' = "draining"
    /\ UNCHANGED <<requestVars, sessionVars, outcome, snapshot, targets, failures, faults>>

\* Bug: whatever is registered is aborted.
Registered == live \cup abandoned

\* The sessions abort_abandoned collects under the registry's lock.
Doomed == abandoned

\* Bug: the sweep waits for the writers that are still registered.
StartAfterWriters(verdict) ==
    /\ phase = "draining" /\ live = {}
    /\ phase' = "aborting" /\ outcome' = verdict
    /\ snapshot' = Doomed /\ targets' = Doomed
    /\ UNCHANGED <<requestVars, sessionVars, failures, faults>>

StartAborting(verdict) ==
    /\ phase = "draining"
    /\ phase' = "aborting" /\ outcome' = verdict
    /\ snapshot' = Doomed /\ targets' = Doomed
    /\ UNCHANGED <<requestVars, sessionVars, failures, faults>>

\* Graceful shutdown ends when no request is in flight any more.
Drained == admitted = {} /\ StartAborting("drained")

\* bounded_drain: the window elapses, whatever is still in flight.
DrainTimesOut == StartAborting("drain_timed_out")

\* One call of abort_abandoned's loop.
AbortAbandoned(r) ==
    /\ phase = "aborting" /\ r \in targets
    /\ targets' = targets \ {r}
    /\ \/ /\ NoFault /\ open' = open \ {r}
          /\ live' = live \ {r} /\ abandoned' = abandoned \ {r}
          /\ UNCHANGED failures
       \/ /\ Fault /\ open' \in {open, open \ {r}}
          /\ failures' = failures \cup {r}
          /\ UNCHANGED <<live, abandoned>>
    /\ UNCHANGED <<requestVars, orphans, phase, outcome, snapshot>>

\* Bug: the drain's verdict is returned although an abort failed.
ReturnVerdict ==
    /\ phase = "aborting" /\ targets = {}
    /\ phase' = "returned"
    /\ UNCHANGED <<requestVars, sessionVars, outcome, snapshot, targets, failures, faults>>

Return ==
    /\ phase = "aborting" /\ targets = {}
    /\ phase' = "returned"
    /\ outcome' = IF failures = {} THEN outcome ELSE "aborts_failed"
    /\ UNCHANGED <<requestVars, sessionVars, snapshot, targets, failures, faults>>

\* The process ends, after serve returned or in the middle of anything, and
\* another begins with an empty registry.
ProcessEnds ==
    /\ \/ phase = "returned" /\ NoFault
       \/ phase # "returned" /\ Fault
    /\ pc' = [r \in Requests |-> IF pc[r] = "new" THEN "new" ELSE "done"]
    /\ admitted' = {} /\ share' = {}
    /\ live' = {} /\ abandoned' = {} /\ orphans' = open
    /\ phase' = "running" /\ outcome' = "none"
    /\ snapshot' = {} /\ targets' = {} /\ failures' = {}
    /\ UNCHANGED open

-------------------------------------------------------------------------------
ServerStep(r) ==
    \/ SpawnCommit(r) \/ BeginSession(r) \/ BeginFails(r)
    \/ CommitSession(r) \/ AbortSession(r) \/ LandTail(r)

ServerNext ==
    \/ \E r \in Requests :
          \/ Arrive(r) \/ AdmitClient(r) \/ Refuse(r) \/ DropFuture(r)
          \/ ServerStep(r) \/ Streamed(r) \/ StreamFails(r) \/ Panic(r)
          \/ AbortAbandoned(r)
    \/ Signal \/ Drained \/ DrainTimesOut \/ Return \/ ProcessEnds

ServerSpec == ServerInit /\ [][ServerNext]_vars

\* The server's own steps and its two timers are fair.  The client's are not:
\* a body may stall for ever, and no timer ends a read of the body.
ServerFairSpec ==
    /\ ServerSpec
    /\ \A r \in Requests :
          WF_vars(ServerStep(r)) /\ WF_vars(DropFuture(r)) /\ WF_vars(AbortAbandoned(r))
    /\ WF_vars(Drained \/ DrainTimesOut) /\ WF_vars(Return)

-------------------------------------------------------------------------------
(* Properties.                                                             *)

\* Every variable holds a value of its kind.
ServerTypeOK ==
    /\ pc \in [Requests -> Committing \cup {"new", "parse", "evidence", "done"}]
    /\ admitted \subseteq Requests /\ share \subseteq admitted
    /\ open \subseteq Requests /\ live \subseteq Requests
    /\ abandoned \subseteq Requests /\ orphans \subseteq Requests
    /\ phase \in {"running", "draining", "aborting", "returned"}
    /\ outcome \in {"none", "drained", "drain_timed_out", "aborts_failed"}
    /\ snapshot \subseteq Requests /\ targets \subseteq snapshot
    /\ failures \subseteq snapshot
    /\ faults \in 0..MaxFaults

\* No session leaks within a process: every session open at the backend is
\* registered or was never known to the registry, and a session registered
\* live has a writer that will still terminate it, through failed calls, lost
\* answers, panics, deadlines and the shutdown's sweep.  And the sweep never
\* takes a session from its writer: whoever still uploads or is about to
\* complete has an open, live session, also when the sweep runs while commits
\* that outlived their deadline go on.
SessionsAccounted ==
    /\ open \subseteq live \cup abandoned \cup orphans
    /\ \A r \in live : pc[r] \in {"write", "commit", "abort"}
    /\ live \cap abandoned = {}
    /\ \A r \in Requests : pc[r] \in {"write", "commit"} => r \in open \cap live

\* A run that ends without reporting a failed abort left none of the sessions
\* it set out to abort open at the backend.
CleanReturn ==
    phase = "returned" /\ outcome # "aborts_failed" => open \cap snapshot = {}

\* A stalled body cannot hold a slot past the deadline: every admission comes
\* back, whatever the client, the store or the commit do.
SlotsComeBack == \A r \in Requests : r \in admitted ~> r \notin admitted

\* A signalled shutdown ends, although a commit whose body stalled may never
\* end.
ShutdownCompletes == phase = "draining" ~> phase \in {"returned", "running"}
===============================================================================
