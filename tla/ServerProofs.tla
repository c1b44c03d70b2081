---------------------------- MODULE ServerProofs ----------------------------
(***************************************************************************)
(* Proofs about ServerLifecycle: type correctness, no multipart session    *)
(* leaks or is taken from its writer, and what a clean return of the       *)
(* shutdown means, for any number of requests, clients, slots and faults.  *)
(***************************************************************************)
EXTENDS ServerLifecycle, TLAPS

\* A request that has not reached its commit still holds its process slot:
\* its future is what carries it on.
FuturesHoldSlots ==
    \A r \in Requests : pc[r] \in {"parse", "evidence"} => r \in admitted

\* Nobody works on a session once it is abandoned or about to be swept.
AbandonedIsOver == \A r \in abandoned \cup snapshot : pc[r] = "done"

\* The sweep's books are empty before it starts, and during and after it the
\* sessions it set out to abort are aborted, still to be called, or failures.
SweepInv ==
    /\ phase \in {"running", "draining"} =>
          snapshot = {} /\ targets = {} /\ failures = {}
    /\ open \cap snapshot \subseteq targets \cup failures
    /\ phase = "returned" =>
          targets = {} /\ (outcome # "aborts_failed" => failures = {})

ServerInv ==
    /\ ServerTypeOK /\ SessionsAccounted
    /\ FuturesHoldSlots /\ AbandonedIsOver /\ SweepInv
-----------------------------------------------------------------------------
\* The initial state satisfies the invariant.
LEMMA ServerInvInit == ServerInit => ServerInv
BY ServerAssumption
   DEF ServerAssumption, ServerInit, ServerInv, ServerTypeOK, SessionsAccounted,
       FuturesHoldSlots, AbandonedIsOver, SweepInv, Committing

\* A step of one request's way to its commit keeps the invariant.
LEMMA AdmissionStep ==
    ASSUME ServerInv, NEW r \in Requests,
           Arrive(r) \/ AdmitClient(r) \/ Refuse(r) \/ SpawnCommit(r) \/ DropFuture(r)
    PROVE  ServerInv'
<1> USE DEF Goto, Answered, Released, KeepsSlots, Committing, sessionVars, shutdownVars
<1>1. ServerTypeOK'
  BY DEF ServerInv, ServerTypeOK, FuturesHoldSlots,
         Arrive, AdmitClient, Refuse, SpawnCommit, DropFuture
<1>2. SessionsAccounted'
  BY DEF ServerInv, ServerTypeOK, SessionsAccounted,
         Arrive, AdmitClient, Refuse, SpawnCommit, DropFuture
<1>3. FuturesHoldSlots'
  BY DEF ServerInv, ServerTypeOK, FuturesHoldSlots,
         Arrive, AdmitClient, Refuse, SpawnCommit, DropFuture
<1>4. AbandonedIsOver'
  BY DEF ServerInv, ServerTypeOK, AbandonedIsOver, FuturesHoldSlots,
         Arrive, AdmitClient, Refuse, SpawnCommit, DropFuture
<1>5. SweepInv'
  BY DEF ServerInv, SweepInv, Arrive, AdmitClient, Refuse, SpawnCommit, DropFuture
<1> QED BY <1>1, <1>2, <1>3, <1>4, <1>5 DEF ServerInv

\* The calls that open a session and stream into it keep the invariant.
LEMMA OpeningStep ==
    ASSUME ServerInv, NEW r \in Requests,
           BeginSession(r) \/ BeginFails(r) \/ Streamed(r) \/ StreamFails(r)
    PROVE  ServerInv'
<1> USE DEF Goto, Answered, Released, KeepsSlots, Committing, Fault, NoFault,
           Unregistered, Abandon, sessionVars, shutdownVars
<1>1. ServerTypeOK'
  BY ServerAssumption
     DEF ServerAssumption, ServerInv, ServerTypeOK, FuturesHoldSlots,
         BeginSession, BeginFails, Streamed, StreamFails
<1>2. SessionsAccounted'
  BY DEF ServerInv, ServerTypeOK, SessionsAccounted, AbandonedIsOver,
         BeginSession, BeginFails, Streamed, StreamFails
<1>3. FuturesHoldSlots'
  BY DEF ServerInv, ServerTypeOK, FuturesHoldSlots,
         BeginSession, BeginFails, Streamed, StreamFails
<1>4. AbandonedIsOver'
  BY DEF ServerInv, ServerTypeOK, SessionsAccounted, AbandonedIsOver,
         BeginSession, BeginFails, Streamed, StreamFails
<1>5. SweepInv'
  BY DEF ServerInv, ServerTypeOK, AbandonedIsOver, SweepInv,
         BeginSession, BeginFails, Streamed, StreamFails
<1> QED BY <1>1, <1>2, <1>3, <1>4, <1>5 DEF ServerInv

\* The ways a session ends, panic included, and the tail behind it keep the
\* invariant.
LEMMA EndingStep ==
    ASSUME ServerInv, NEW r \in Requests,
           CommitSession(r) \/ AbortSession(r) \/ Panic(r) \/ LandTail(r)
    PROVE  ServerInv'
<1> USE DEF Goto, Answered, Released, KeepsSlots, Committing, Fault, NoFault,
           Unregistered, Abandon, sessionVars, shutdownVars
<1>1. ServerTypeOK'
  BY ServerAssumption
     DEF ServerAssumption, ServerInv, ServerTypeOK, FuturesHoldSlots,
         CommitSession, AbortSession, Panic, LandTail
<1>2. SessionsAccounted'
  BY DEF ServerInv, ServerTypeOK, SessionsAccounted, AbandonedIsOver,
         CommitSession, AbortSession, Panic, LandTail
<1>3. FuturesHoldSlots'
  BY DEF ServerInv, ServerTypeOK, FuturesHoldSlots,
         CommitSession, AbortSession, Panic, LandTail
<1>4. AbandonedIsOver'
  BY DEF ServerInv, ServerTypeOK, SessionsAccounted, AbandonedIsOver,
         CommitSession, AbortSession, Panic, LandTail
<1>5. SweepInv'
  BY DEF ServerInv, ServerTypeOK, AbandonedIsOver, SweepInv,
         CommitSession, AbortSession, Panic, LandTail
<1> QED BY <1>1, <1>2, <1>3, <1>4, <1>5 DEF ServerInv

\* The phases of a shutdown keep the invariant: what the sweep takes up is
\* abandoned, and nobody works on it.
LEMMA ShutdownStep ==
    ASSUME ServerInv, Signal \/ Drained \/ DrainTimesOut \/ Return
    PROVE  ServerInv'
<1> USE DEF requestVars, sessionVars
<1>1. ServerTypeOK'
  BY DEF ServerInv, ServerTypeOK, SweepInv,
         Signal, Drained, DrainTimesOut, StartAborting, Doomed, Return
<1>2. SessionsAccounted'
  BY DEF ServerInv, ServerTypeOK, SessionsAccounted, AbandonedIsOver,
         Signal, Drained, DrainTimesOut, StartAborting, Doomed, Return
<1>3. FuturesHoldSlots'
  BY DEF ServerInv, ServerTypeOK, FuturesHoldSlots,
         Signal, Drained, DrainTimesOut, StartAborting, Doomed, Return
<1>4. AbandonedIsOver'
  BY DEF ServerInv, ServerTypeOK, SessionsAccounted, AbandonedIsOver,
         Signal, Drained, DrainTimesOut, StartAborting, Doomed, Return
<1>5. SweepInv'
  BY DEF ServerInv, ServerTypeOK, AbandonedIsOver, SweepInv,
         Signal, Drained, DrainTimesOut, StartAborting, Doomed, Return
<1> QED BY <1>1, <1>2, <1>3, <1>4, <1>5 DEF ServerInv

\* One call of the sweep keeps the invariant.
LEMMA SweepStep ==
    ASSUME ServerInv, NEW r \in Requests, AbortAbandoned(r)
    PROVE  ServerInv'
<1> USE DEF Fault, NoFault, requestVars
<1>1. ServerTypeOK'
  BY ServerAssumption
     DEF ServerAssumption, ServerInv, ServerTypeOK, FuturesHoldSlots,
         AbortAbandoned
<1>2. SessionsAccounted'
  BY DEF ServerInv, ServerTypeOK, SessionsAccounted, AbandonedIsOver,
         AbortAbandoned
<1>3. FuturesHoldSlots'
  BY DEF ServerInv, ServerTypeOK, FuturesHoldSlots,
         AbortAbandoned
<1>4. AbandonedIsOver'
  BY DEF ServerInv, ServerTypeOK, SessionsAccounted, AbandonedIsOver,
         AbortAbandoned
<1>5. SweepInv'
  BY DEF ServerInv, ServerTypeOK, AbandonedIsOver, SweepInv,
         AbortAbandoned
<1> QED BY <1>1, <1>2, <1>3, <1>4, <1>5 DEF ServerInv

\* The end of the process keeps the invariant: what was open is an orphan now.
LEMMA RestartStep ==
    ASSUME ServerInv, ProcessEnds
    PROVE  ServerInv'
<1> USE DEF Committing
<1>1. ServerTypeOK'
  BY ServerAssumption
     DEF ServerAssumption, ServerInv, ServerTypeOK, FuturesHoldSlots,
         ProcessEnds, Fault, NoFault
<1>2. SessionsAccounted'
  BY DEF ServerInv, ServerTypeOK, SessionsAccounted, AbandonedIsOver,
         ProcessEnds, Fault, NoFault
<1>3. FuturesHoldSlots'
  BY DEF ServerInv, ServerTypeOK, FuturesHoldSlots,
         ProcessEnds, Fault, NoFault
<1>4. AbandonedIsOver'
  BY DEF ServerInv, ServerTypeOK, SessionsAccounted, AbandonedIsOver,
         ProcessEnds, Fault, NoFault
<1>5. SweepInv'
  BY DEF ServerInv, ServerTypeOK, AbandonedIsOver, SweepInv,
         ProcessEnds, Fault, NoFault
<1> QED BY <1>1, <1>2, <1>3, <1>4, <1>5 DEF ServerInv

\* The invariant is inductive.
LEMMA ServerInvStep == ServerInv /\ [ServerNext]_vars => ServerInv'
<1> SUFFICES ASSUME ServerInv, [ServerNext]_vars PROVE ServerInv'
  OBVIOUS
<1>1. CASE UNCHANGED vars
  BY <1>1 DEF ServerInv, ServerTypeOK, SessionsAccounted, FuturesHoldSlots,
              AbandonedIsOver, SweepInv, vars, requestVars, sessionVars, shutdownVars
<1>2. CASE ServerNext
  BY <1>2, AdmissionStep, OpeningStep, EndingStep, ShutdownStep, SweepStep, RestartStep
     DEF ServerNext, ServerStep
<1> QED BY <1>1, <1>2

\* Every behaviour of the replica satisfies the invariant.
THEOREM ServerInvariant == ServerSpec => []ServerInv
BY ServerInvInit, ServerInvStep, PTL DEF ServerSpec
-----------------------------------------------------------------------------
\* Every reachable state of a replica is well typed; in particular a client's
\* share is only ever held together with a process slot, so the deadline
\* that drops a future returns both.
THEOREM ServerTypeCorrect == ServerSpec => []ServerTypeOK
<1>1. ServerInv => ServerTypeOK
  BY DEF ServerInv
<1> QED BY <1>1, ServerInvariant, PTL

\* No multipart session leaks within a process, and the shutdown's sweep
\* never takes one from its writer, whatever calls fail, answers are lost,
\* tasks panic or deadlines fire.
THEOREM SessionsStayAccounted == ServerSpec => []SessionsAccounted
<1>1. ServerInv => SessionsAccounted
  BY DEF ServerInv
<1> QED BY <1>1, ServerInvariant, PTL

\* A run of serve that reports no failed abort left open none of the sessions
\* it set out to abort.
THEOREM CleanReturnsAreClean == ServerSpec => []CleanReturn
<1>1. ServerInv => CleanReturn
  BY DEF ServerInv, SweepInv, CleanReturn
<1> QED BY <1>1, ServerInvariant, PTL
=============================================================================
