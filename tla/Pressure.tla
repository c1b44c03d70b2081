------------------------------- MODULE Pressure -------------------------------
(***************************************************************************)
(* The spool-pressure policy of archivist-client-core                      *)
(* (src/spool/pressure.rs): the decision PressureGate::evaluate takes from *)
(* the measured spool usage and the measured free space.  The gate itself  *)
(* is one latched Boolean; the modules that own it keep it as a variable.  *)
(***************************************************************************)
EXTENDS Integers

CONSTANTS
    Cap,            \* spool.max_bytes: usage at or above it pauses
    FreeFloor,      \* spool.free_floor_bytes: free space at or below it pauses
    ResumePercent,  \* spool.resume_percent, which the registry keeps in 0..=100
    UMax            \* the largest value of the unsigned integer type (u64::MAX)

ASSUME PressureAssumption ==
    /\ Cap \in Nat /\ FreeFloor \in Nat /\ ResumePercent \in 0..100 /\ UMax \in Nat
    /\ Cap <= UMax

\* u64::saturating_mul
SaturatingMul(a, b) == IF a * b > UMax THEN UMax ELSE a * b

resume_threshold_bytes == SaturatingMul(Cap, ResumePercent) \div 100

\* Bug: the cap itself is admitted.
CapLiveStrict(usage) == usage > Cap

CapLive(usage) == usage >= Cap

FloorLive(free) == free <= FreeFloor

(***************************************************************************)
(* The value PressureGate.paused takes after one evaluation.               *)
(***************************************************************************)
Evaluate(paused, usage, free) ==
    IF paused
    THEN ~(usage < resume_threshold_bytes /\ ~FloorLive(free))
    ELSE CapLive(usage) \/ FloorLive(free)

(***************************************************************************)
(* The degraded reasons an evaluation names, from the gate's value after   *)
(* it: nothing while it admits, the live high-water conditions, or the     *)
(* latched hold between the resume threshold and the cap.                  *)
(***************************************************************************)
Reasons(pausedAfter, usage, free) ==
    CASE ~pausedAfter -> {}
      [] pausedAfter /\ (CapLive(usage) \/ FloorLive(free)) ->
            { r \in {"spool_cap", "free_floor"} :
                \/ r = "spool_cap" /\ CapLive(usage)
                \/ r = "free_floor" /\ FloorLive(free) }
      [] OTHER -> {"draining"}

===============================================================================
