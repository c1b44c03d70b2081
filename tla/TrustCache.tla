------------------------------ MODULE TrustCache ------------------------------
(***************************************************************************)
(* The bounded trust cache of archivist-auth src/trust_cache.rs in front   *)
(* of the authority-chain walk, and the readiness ledger of                *)
(* archivist-server src/state.rs it feeds, for one configured tenant.      *)
(*                                                                         *)
(* The tenant's authority has a pinned "root" half, which one rotation     *)
(* link may retire in favour of a "next" half.  The cache lock is not held *)
(* across a walk, and the clock is read before the lock is taken: several  *)
(* requests resolve one signer at once.                                    *)
(*                                                                         *)
(* `time` is true elapsed time (Instant); `wall` is what SystemClock       *)
(* reports, which an administrator or a clock fault may step.              *)
(***************************************************************************)
EXTENDS Integers

CONSTANTS
    Requests,           \* requests that may be resolving at once
    Ttl,                \* TRUST_CACHE_TTL_SECONDS
    Window,             \* TRUST_EVIDENCE_WINDOW
    LinksHanded,        \* what a caller's closure may serve the walk: no link (the
                        \* ingest route), the published one, or bytes that do not verify
    Start,              \* wall clock reading when the replica starts
    MaxTime,            \* bound: elapsed seconds
    MaxClockSteps,      \* bound: times the wall clock is stepped
    Never               \* no instant

ASSUME TrustAssumption ==
    /\ Ttl \in Nat \ {0} /\ Window \in Nat \ {0}
    /\ Start \in Nat /\ MaxTime \in Nat /\ MaxClockSteps \in Nat
    /\ LinksHanded \subseteq {"none", "published", "broken"}
    /\ Never \notin Nat

VARIABLES
    time,       \* elapsed time
    wall,       \* now_seconds(): seconds since the epoch, 0 before it
    steps,      \* times the wall clock was stepped
    setBack,    \* history: seconds by which it was set back, in all
    rotatedAt,  \* when the rotation link was published
    entry,      \* the cached resolution of each signer, or Vacant
    pc, job,    \* where each request stands in resolve, and what it holds
    evidence,   \* the readiness ledger: the last verified read
    answer      \* what the last step answered a request

vars == <<time, wall, steps, setBack, rotatedAt, entry, pc, job, evidence, answer>>

Signers == {"root", "next"}

\* A resolution: whether the chain showed a retirement, the true instant at
\* which the chain was read, and the lease anchor.
Vacant == [retired |-> FALSE, readAt |-> Never, cachedAt |-> Never]

\* A record being verified: its signer, where its signed_at lies (inside the
\* signer's window; past its retirement window; or refused by every resolution,
\* being before the link that establishes the signer or no calendar moment at
\* all), and the clock reading (and the true instant) with which its
\* resolution began.
SignedAt == {"inside", "late", "never"}

NoJob == [signer |-> "root", signed |-> "inside", now |-> Never, began |-> Never, read |-> Vacant]

Quiet == [how |-> "none", age |-> 0]

TrustInit ==
    /\ time = 0 /\ wall = Start /\ steps = 0 /\ setBack = 0
    /\ rotatedAt = Never
    /\ entry = [s \in Signers |-> Vacant]
    /\ pc = [r \in Requests |-> "idle"]
    /\ job = [r \in Requests |-> NoJob]
    /\ evidence = Never
    /\ answer = Quiet

-------------------------------------------------------------------------------
saturating_sub(x, y) == IF x > y THEN x - y ELSE 0

fresh_resolution(e, now) ==
    e # Vacant /\ saturating_sub(now, e.cachedAt) < Ttl

\* acceptance: the instant must exist, must not precede the half's establishing
\* link (which every resolution of a successor names), and must not lie past
\* the window of a retirement the resolution knows of.
verify_signing_at(read, signed) ==
    signed = "inside" \/ (signed = "late" /\ ~read.retired)

\* The request ends; `age` is how old the chain's reading was when it began.
Answered(r, how, age) ==
    /\ pc' = [pc EXCEPT ![r] = "idle"]
    /\ job' = [job EXCEPT ![r] = NoJob]
    /\ answer' = [how |-> how, age |-> age]

\* Bug: every record that resolves is evidence.
ConcludeAlways(r, how, read) ==
    /\ evidence' = time
    /\ Answered(r, IF verify_signing_at(read, job[r].signed) THEN how ELSE "refused",
                job[r].began - read.readAt)

\* An accepted record refreshes the readiness ledger; a refused one does not.
Conclude(r, how, read) ==
    LET age == job[r].began - read.readAt IN
    IF verify_signing_at(read, job[r].signed)
    THEN evidence' = time /\ Answered(r, how, age)
    ELSE UNCHANGED evidence /\ Answered(r, "refused", age)

\* resolve begins: the clock is read once, before the entry lock.
Begin(r, s, signed) ==
    /\ pc[r] = "idle"
    /\ s = "next" \/ signed = "late" => rotatedAt # Never
    /\ signed = "late" => s = "root"
    /\ pc' = [pc EXCEPT ![r] = "lookup"]
    /\ job' = [job EXCEPT ![r] =
          [signer |-> s, signed |-> signed, now |-> wall, began |-> time, read |-> Vacant]]
    /\ answer' = Quiet
    /\ UNCHANGED <<time, wall, steps, setBack, rotatedAt, entry, evidence>>

\* A fresh entry answers; anything else at the key is evicted before the walk.
Lookup(r) ==
    /\ pc[r] = "lookup"
    /\ LET s == job[r].signer IN
       IF fresh_resolution(entry[s], job[r].now)
       THEN Conclude(r, "hit", entry[s]) /\ UNCHANGED entry
       ELSE /\ entry' = [entry EXCEPT ![s] = Vacant]
            /\ pc' = [pc EXCEPT ![r] = "walk"]
            /\ answer' = Quiet
            /\ UNCHANGED <<job, evidence>>
    /\ UNCHANGED <<time, wall, steps, setBack, rotatedAt>>

\* resolve_authority, without the cache lock, over what the caller's closure
\* serves: the successor is reached only through the link that retires the
\* root, and a failed walk is propagated and not remembered.
Walk(r, links) ==
    /\ pc[r] = "walk"
    /\ LET linked == links = "published" /\ rotatedAt # Never
           reached == links # "broken" /\ (job[r].signer = "next" => linked)
       IN  IF reached
           THEN /\ pc' = [pc EXCEPT ![r] = "insert"]
                /\ job' = [job EXCEPT ![r].read =
                      [retired |-> job[r].signer = "root" /\ linked,
                       readAt |-> time, cachedAt |-> job[r].now]]
                /\ answer' = Quiet
           ELSE Answered(r, IF links = "broken" THEN "broken_chain" ELSE "unreachable", 0)
    /\ UNCHANGED <<time, wall, steps, setBack, rotatedAt, entry, evidence>>

\* Bug: the lease is anchored where the walk ends.
InsertNow(r) ==
    /\ pc[r] = "insert"
    /\ entry' = [entry EXCEPT ![job[r].signer] = [job[r].read EXCEPT !.cachedAt = wall]]
    /\ Conclude(r, "walk", job[r].read)
    /\ UNCHANGED <<time, wall, steps, setBack, rotatedAt>>

\* Bug: the instant the lease ends is stored as its anchor.
InsertExpiry(r) ==
    /\ pc[r] = "insert"
    /\ entry' = [entry EXCEPT ![job[r].signer] =
          [job[r].read EXCEPT !.cachedAt = job[r].now + Ttl]]
    /\ Conclude(r, "walk", job[r].read)
    /\ UNCHANGED <<time, wall, steps, setBack, rotatedAt>>

\* The resolution is inserted under the lock, anchored at the instant read
\* before the walk, whatever another request cached meanwhile.
Insert(r) ==
    /\ pc[r] = "insert"
    /\ entry' = [entry EXCEPT ![job[r].signer] = job[r].read]
    /\ Conclude(r, "walk", job[r].read)
    /\ UNCHANGED <<time, wall, steps, setBack, rotatedAt>>

-------------------------------------------------------------------------------
(* The environment.                                                        *)

Tick ==
    /\ time < MaxTime
    /\ time' = time + 1 /\ wall' = wall + 1
    /\ answer' = Quiet
    /\ UNCHANGED <<steps, setBack, rotatedAt, entry, pc, job, evidence>>

\* The wall clock is set, or misread as before the epoch.
StepClock(reading) ==
    /\ steps < MaxClockSteps
    /\ steps' = steps + 1
    /\ wall' = reading
    /\ setBack' = setBack + saturating_sub(wall, reading)
    /\ answer' = Quiet
    /\ UNCHANGED <<time, rotatedAt, entry, pc, job, evidence>>

Rotate ==
    /\ rotatedAt = Never
    /\ rotatedAt' = time
    /\ answer' = Quiet
    /\ UNCHANGED <<time, wall, steps, setBack, entry, pc, job, evidence>>

Next ==
    \/ \E r \in Requests :
          \/ \E s \in Signers, signed \in SignedAt : Begin(r, s, signed)
          \/ Lookup(r) \/ Insert(r)
          \/ \E links \in LinksHanded : Walk(r, links)
    \/ Tick \/ Rotate
    \/ \E reading \in 0 .. (Start + Ttl) : StepClock(reading)

Spec == TrustInit /\ [][Next]_vars

-------------------------------------------------------------------------------
(* Readiness, evaluated on demand.                                         *)

Ready == evidence # Never /\ time - evidence < Window

-------------------------------------------------------------------------------
(* Properties.                                                             *)

Instants == (0 .. MaxTime) \cup {Never}
Readings == (0 .. (Start + Ttl + MaxTime)) \cup {Never}
Resolutions == [retired : BOOLEAN, readAt : Instants, cachedAt : Readings]
Jobs == [signer : Signers, signed : SignedAt, now : Readings,
         began : Instants, read : Resolutions]

Answers == [how : {"none", "hit", "walk", "refused", "unreachable", "broken_chain"},
            age : -MaxTime .. MaxTime]

\* Every variable holds a value of its kind.
TrustTypeOK ==
    /\ time \in 0 .. MaxTime
    /\ wall \in Readings \ {Never} /\ steps \in 0 .. MaxClockSteps
    /\ setBack \in Nat
    /\ rotatedAt \in Instants
    /\ entry \in [Signers -> Resolutions]
    /\ pc \in [Requests -> {"idle", "lookup", "walk", "insert"}]
    /\ job \in [Requests -> Jobs]
    /\ evidence \in Instants
    /\ answer \in Answers

Hit == answer.how = "hit"

\* A cached resolution never answers a request that began Ttl or more true
\* seconds after the chain was read (trust_cache.rs: at most 60 seconds, then
\* fail closed), however slow the walk that filled the entry, whichever
\* racing request inserted last, whatever links the callers serve and however
\* far the clock jumped ahead.  A clock that was set back, or read as zero,
\* stretches the lease by as many seconds as it lost, and by no more: an
\* anchor it has not reached again counts as just cached.
StalenessBounded == Hit => answer.age < Ttl + setBack

\* A replica becomes ready only by accepting a verified record: no failed
\* walk, refused record or clock reading ever does it
\* (record_verified_control_read: a failed verification never changes
\* readiness).
ReadinessIsEarned ==
    [][ Ready' /\ ~Ready => answer'.how \in {"hit", "walk"} ]_vars
===============================================================================
