----------------------------- MODULE Scheduler -----------------------------
(***************************************************************************)
(* The two-lane scheduler of the capturing client.  A cycle measures the   *)
(* sources and plans one round out of the capacity the pressure gate       *)
(* admits: one reserved chunk for every active source, then largest-first  *)
(* backfill under a per-source quantum.  Planning is the pure function     *)
(* Plan, translated from plan().  The operator's cycle ends there and      *)
(* reports the totals; the daemon that executes a plan is announced and    *)
(* not written yet.  Execute stands for it, as the scheduler's contract    *)
(* describes it, so that rounds can follow one another.                    *)
(***************************************************************************)
EXTENDS Integers, FiniteSetsExt, Functions

CONSTANTS
    Sources,        \* source identifiers, compared as integers
    Lanes,          \* the sets of sources the freshness lane may hold
    ByteBacklogs,   \* outstanding bytes a measurement may find
    EventBacklogs,  \* outstanding events a measurement may find
    ChunkBytes,     \* limits.chunk_bytes
    Quanta,         \* values of limits.backfill_quantum_bytes
    Capacities,     \* byte capacities of a round
    MaxMeasurements \* bound on measurements that change something

ASSUME SourcesAssumption ==
    /\ Sources \subseteq Nat /\ IsFiniteSet(Sources)
    /\ Lanes \subseteq SUBSET Sources
ASSUME SizesAssumption ==
    /\ ChunkBytes \in Nat
    /\ ByteBacklogs \cup EventBacklogs \cup Quanta \cup Capacities \subseteq Nat

VARIABLES
    active,     \* the sources of the freshness lane
    bytes,      \* outstanding complete bytes of each source
    events,     \* outstanding events of each source
    unclean,    \* sources whose last scan failed or found an anomaly
    capacity,   \* capacity_bytes of the round
    quantum,    \* backfill_quantum_bytes
    measurements,   \* how often a measurement changed something
    waits       \* history: rounds each source may still go without a grant

schedulerVars == <<active, bytes, events, unclean, capacity, quantum,
                   measurements, waits>>

Chunk == Max({ChunkBytes, 1})

CeilDiv(a, b) == (a + b - 1) \div b

Least(a, b) == IF a <= b THEN a ELSE b
----------------------------------------------------------------------------
(***************************************************************************)
(* The plan.                                                               *)
(***************************************************************************)

Eligible == {s \in Sources \ unclean : bytes[s] > 0 \/ events[s] > 0}

BacklogChunks ==
    [s \in Sources |-> IF bytes[s] > 0 THEN CeilDiv(bytes[s], Chunk)
                      ELSE IF events[s] > 0 THEN 1 ELSE 0]

NoGrant == [bytes |-> 0, chunks |-> 0]

\* The element of T that every other one comes before.
LastOf(T, Before(_, _)) == CHOOSE x \in T : \A y \in T \ {x} : Before(y, x)

\* The loop over S in the given order, from base: what the sources before
\* the last one lead to, then its own step.
InOrder(Step(_, _), base, Before(_, _), S) ==
    MapThenFoldSet(LAMBDA s, acc : Step(acc, s), base, LAMBDA s : s,
                   LAMBDA T : LastOf(T, Before), S)

\* One step of reserve_freshness: the first reservation that does not fit
\* denies itself and every later one.
Reserve(acc, s) ==
    LET grant == Least(Chunk, bytes[s])
    IN IF acc.short = 0 /\ grant <= capacity - acc.spent
       THEN [spent  |-> acc.spent + grant,
             short  |-> 0,
             grants |-> [acc.grants EXCEPT ![s] = [bytes |-> grant, chunks |-> 1]]]
       ELSE [acc EXCEPT !.short = @ + 1]

\* One chunk for every active source, in the order of their identifiers.
Reservations ==
    InOrder(Reserve,
            [spent |-> 0, short |-> 0, grants |-> [s \in Sources |-> NoGrant]],
            <, Eligible \cap active)

\* The order backfill spends in: most bytes, most events, least identifier.
RanksAhead(a, b) ==
    \/ bytes[a] > bytes[b]
    \/ bytes[a] = bytes[b] /\ events[a] > events[b]
    \/ bytes[a] = bytes[b] /\ events[a] = events[b] /\ a < b

\* A backfill share that forgets the chunk already reserved.
ShareOfWhole(res, s, left) ==
    LET budget == quantum \div Chunk
        fits   == Least(Least(BacklogChunks[s], budget), left \div Chunk)
    IN [bytes |-> Least(bytes[s], fits * Chunk), chunks |-> fits]

\* What backfill grants a source when left bytes of capacity remain: whole
\* chunks of its residual within the quantum and the capacity; a residual
\* without bytes is bounded by the quantum alone.
BackfillShare(res, s, left) ==
    LET residualChunks == BacklogChunks[s] - res.grants[s].chunks
        residualBytes  == bytes[s] - res.grants[s].bytes
        budget == quantum \div Chunk
        fits   == Least(Least(residualChunks, budget),
                        (IF left > 0 THEN left ELSE 0) \div Chunk)
        chunks == IF fits = 0 /\ residualBytes = 0
                  THEN Least(residualChunks, budget) ELSE fits
    IN [bytes |-> Least(residualBytes, chunks * Chunk), chunks |-> chunks]

\* Backfill that ends at the first source it has no room for.
BackfillUntilFull(res, acc, s) ==
    LET share == BackfillShare(res, s, capacity - res.spent - acc.spent)
    IN IF acc.deferred > 0 THEN [acc EXCEPT !.deferred = @ + 1]
       ELSE IF BacklogChunks[s] = res.grants[s].chunks THEN acc
       ELSE IF share.chunks = 0 THEN [acc EXCEPT !.deferred = @ + 1]
       ELSE [spent    |-> acc.spent + share.bytes,
             deferred |-> acc.deferred,
             grants   |-> [acc.grants EXCEPT ![s] = share]]

\* One step of plan_backfill; a short reservation closes the whole pass.
BackfillStep(res, acc, s) ==
    LET share == BackfillShare(res, s, capacity - res.spent - acc.spent)
    IN IF BacklogChunks[s] = res.grants[s].chunks THEN acc
       ELSE IF res.short > 0 \/ share.chunks = 0
       THEN [acc EXCEPT !.deferred = @ + 1]
       ELSE [spent    |-> acc.spent + share.bytes,
             deferred |-> acc.deferred,
             grants   |-> [acc.grants EXCEPT ![s] = share]]

Backfill(res) ==
    InOrder(LAMBDA acc, s : BackfillStep(res, acc, s),
            [spent |-> 0, deferred |-> 0,
             grants |-> [s \in Sources |-> NoGrant]],
            RanksAhead, Eligible)

Plan == LET res == Reservations
        IN [reservations |-> res, backfill |-> Backfill(res)]

GrantedBytes(plan, s) == plan.reservations.grants[s].bytes
                           + plan.backfill.grants[s].bytes

GrantedChunks(plan, s) == plan.reservations.grants[s].chunks
                            + plan.backfill.grants[s].chunks
----------------------------------------------------------------------------
(***************************************************************************)
(* How long a source may wait, as a function of one round's inputs.        *)
(***************************************************************************)

\* No promise.
Forever == -1

\* Capacity left after the reservations, in bytes.
Remaining == capacity - Reservations.spent

Ahead(s) == {t \in Eligible : RanksAhead(t, s)}

\* Nothing is promised to a source the plan leaves out, to anyone while a
\* reservation is short, or without the means to grant one chunk.
Promised(s) == /\ s \in Eligible
               /\ Reservations.short = 0
               /\ s \in active \/ quantum >= Chunk

\* In whole chunks: a round that passes s over grants at least as many
\* chunks to the sources ahead of it as fit into the capacity.
WholeChunkBound(s) ==
    IF ~Promised(s) THEN Forever
    ELSE IF s \in active \/ bytes[s] = 0 THEN 1
    ELSE IF Remaining < Chunk THEN Forever
    ELSE SumFunctionOnSet(BacklogChunks, Ahead(s)) \div (Remaining \div Chunk) + 1
----------------------------------------------------------------------------
(***************************************************************************)
(* Cycles and measurements.                                                *)
(***************************************************************************)

SchedulerInit ==
    /\ active \in Lanes
    /\ bytes \in [Sources -> ByteBacklogs]
    /\ events \in [Sources -> EventBacklogs]
    /\ unclean = {}
    /\ capacity \in Capacities
    /\ quantum \in Quanta
    /\ measurements = 0
    /\ waits = [s \in Sources |-> WholeChunkBound(s)]

\* The daemon executes a plan in full and the next pass measures what is
\* left; outstanding events go with the bytes or with the byteless chunk that
\* carries them.
Execute(plan) ==
    /\ bytes' = [s \in Sources |-> bytes[s] - GrantedBytes(plan, s)]
    /\ events' = [s \in Sources |->
          IF GrantedChunks(plan, s) > 0 /\ bytes'[s] = 0 THEN 0
          ELSE events[s]]

\* The operator's cycle plans the round, and the plan is executed.  A source
\* that was served is promised its next chunk afresh, and one that had no
\* promise gets one as soon as the round allows it.
Cycle ==
    LET plan == Plan
    IN /\ Eligible # {}
       /\ Execute(plan)
       /\ UNCHANGED <<active, unclean, capacity, quantum, measurements>>
       /\ waits' = [s \in Sources |->
             IF GrantedChunks(plan, s) > 0 \/ waits[s] = Forever
             THEN WholeChunkBound(s)' ELSE waits[s] - 1]

\* The inventory finds something new about a source: it grew, its scan
\* failed, or it measures cleanly again.  Promises are made anew.
Measure ==
    /\ measurements < MaxMeasurements
    /\ measurements' = measurements + 1
    /\ \E s \in Sources :
          \/ /\ bytes' \in {[bytes EXCEPT ![s] = b] : b \in ByteBacklogs}
             /\ events' \in {[events EXCEPT ![s] = e] : e \in EventBacklogs}
             /\ unclean' = unclean \ {s}
          \/ /\ unclean' = unclean \cup {s}
             /\ UNCHANGED <<bytes, events>>
    /\ UNCHANGED <<active, capacity, quantum>>
    /\ waits' = [s \in Sources |-> WholeChunkBound(s)']

\* Nothing left to plan for: the client waits.
Rest == Eligible = {} /\ UNCHANGED schedulerVars

SchedulerNext == Cycle \/ Measure \/ Rest

SchedulerSpec == SchedulerInit /\ [][SchedulerNext]_schedulerVars
----------------------------------------------------------------------------
(***************************************************************************)
(* Properties.                                                             *)
(***************************************************************************)

\* No plan spends what it does not have: the grants of both lanes fit the
\* round's capacity together, no source is granted more bytes or chunks than
\* it measured or more backfill than its quantum, nothing unclean is
\* scheduled, an active source's denial stops all backfill, and a source is
\* deferred only when its turn came with less than a chunk left or with a
\* quantum below one.
PlanWithinMeans ==
    LET plan == Plan
        res  == plan.reservations
        back == plan.backfill
    IN /\ res.spent + back.spent <= capacity
       /\ \A s \in Sources :
             /\ GrantedBytes(plan, s) <= bytes[s]
             /\ GrantedChunks(plan, s) <= BacklogChunks[s]
             /\ GrantedBytes(plan, s) = bytes[s]
                  => GrantedChunks(plan, s) \in {0, BacklogChunks[s]}
             /\ back.grants[s].bytes <= quantum
             /\ s \in unclean => GrantedChunks(plan, s) = 0
       /\ res.short > 0 => back.spent = 0
       /\ (\E s \in Eligible :
              bytes[s] > 0 /\ GrantedChunks(plan, s) = 0 /\ res.short = 0)
            => capacity - res.spent - back.spent < Chunk \/ quantum < Chunk

\* Who may wait, and for how long, in whole chunks.  A source to which a
\* round promises a chunk has it within as many rounds as the whole chunks
\* ranked ahead of it fill, plus one; an active source has one every round.
\* No round promises anything to a source it finds unclean, to anyone while
\* an active source is denied its reservation, or to a closed source when
\* the quantum or the capacity left over rounds down to no chunk at all.
PromiseKept == \A s \in Sources : waits[s] # 0
=============================================================================
