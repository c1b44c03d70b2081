-------------------------- MODULE MCSchedulerBound --------------------------
(***************************************************************************)
(* The starvation bound as the scheduler's documentation states it, counted *)
(* down beside the rounds of Scheduler.                                    *)
(***************************************************************************)
EXTENDS Scheduler

VARIABLE claimed    \* history: rounds the documentation lets a source wait

\* Bytes measured ahead of a closed source over bytes left after the
\* reservations, rounded up, plus one.  The documentation leaves out what is
\* unclean and freezes backfill when a reservation is short.
DocumentedBound(s) ==
    IF s \in Eligible \ active /\ Reservations.short = 0
         /\ Remaining > 0 /\ quantum >= Chunk
    THEN CeilDiv(SumFunctionOnSet(bytes, Ahead(s)), Remaining) + 1
    ELSE Forever

BoundInit ==
    SchedulerInit /\ claimed = [s \in Sources |-> DocumentedBound(s)]

BoundNext ==
    \/ /\ Cycle
       /\ claimed' = [s \in Sources |->
             IF GrantedChunks(Plan, s) > 0 \/ claimed[s] = Forever
             THEN DocumentedBound(s)' ELSE claimed[s] - 1]
    \/ Rest /\ UNCHANGED claimed

BoundSpec == BoundInit /\ [][BoundNext]_<<schedulerVars, claimed>>

\* With C the capacity left after the reservations and A the backlog measured
\* ahead of a closed source, the source has its first chunk by round
\* ceil(A / C) + 1, as the starvation bounds of scheduler.rs say.
ServedByDocumentedRound == \A s \in Sources : claimed[s] # 0
=============================================================================
