----------------------------- MODULE TrustProofs -----------------------------
(***************************************************************************)
(* Proofs about TrustCache for every lease, window, number of racing       *)
(* requests and sequence of clock steps.                                   *)
(*                                                                         *)
(* A resolution's lead is cachedAt - readAt: how far the clock of its      *)
(* lease ran ahead of true time when the chain was read.  Setting the      *)
(* clock back lowers its own lead by as much as it raises setBack, so no    *)
(* lead exceeds the two together; and a request about to look up either     *)
(* began before the chain was read or with a clock that far ahead: its own  *)
(* age computation then bounds the true age.                               *)
(***************************************************************************)
EXTENDS TrustCache, TLAPS

\* A resolution held in the cache or by a request.
Sound(x) ==
    /\ x.readAt \in Nat /\ x.cachedAt \in Nat /\ x.readAt <= time
    /\ x.cachedAt - x.readAt <= wall + setBack - time

\* What the comparison of request r relies on when it looks x up.
Comparable(x, r) ==
    \/ x.readAt >= job[r].began
    \/ x.cachedAt - x.readAt <= job[r].now + setBack - job[r].began

Active(r) ==
    /\ job[r].now \in Nat /\ job[r].began \in Nat /\ job[r].began <= time
    /\ job[r].now <= wall + setBack

ClockInv == wall <= Start + Ttl + time

EntriesSound == \A s \in Signers : entry[s] # Vacant => Sound(entry[s])
JobsActive == \A r \in Requests : pc[r] # "idle" => Active(r)
ReadsSound == \A r \in Requests : pc[r] = "insert" => Sound(job[r].read)
EntriesComparable ==
    \A s \in Signers, r \in Requests :
        entry[s] # Vacant /\ pc[r] = "lookup" => Comparable(entry[s], r)
ReadsComparable ==
    \A q, r \in Requests :
        pc[q] = "insert" /\ pc[r] = "lookup" => Comparable(job[q].read, r)

\* Inductive: what is known of the clock, the cache and the requests.
TrustInv ==
    /\ TrustTypeOK /\ ClockInv
    /\ EntriesSound /\ JobsActive /\ ReadsSound
    /\ EntriesComparable /\ ReadsComparable

\* What every answer satisfies; it holds of the step that gives it.
AnswerInv == StalenessBounded

-------------------------------------------------------------------------------
LEMMA VacantType == Vacant \in Resolutions /\ NoJob \in Jobs
  BY DEF Vacant, NoJob, Resolutions, Jobs, Instants, Readings, Signers, SignedAt

LEMMA InitTrust == TrustInit => TrustInv /\ AnswerInv
  <1> SUFFICES ASSUME TrustInit PROVE TrustInv /\ AnswerInv
    OBVIOUS
  <1>1. TrustTypeOK
    <2>1. time \in 0 .. MaxTime /\ steps \in 0 .. MaxClockSteps /\ wall \in Readings \ {Never}
      BY TrustAssumption DEF TrustInit, Readings
    <2>2. rotatedAt \in Instants /\ evidence \in Instants
      BY DEF TrustInit, Instants
    <2>3. entry \in [Signers -> Resolutions] /\ job \in [Requests -> Jobs]
      BY VacantType DEF TrustInit
    <2>4. answer \in Answers
      BY TrustAssumption DEF TrustInit, Quiet, Answers
    <2>5. setBack \in Nat /\ pc \in [Requests -> {"idle", "lookup", "walk", "insert"}]
      BY DEF TrustInit
    <2> QED BY <2>1, <2>2, <2>3, <2>4, <2>5 DEF TrustTypeOK
  <1>2. ClockInv
    BY TrustAssumption DEF TrustInit, ClockInv
  <1>3. EntriesSound /\ JobsActive /\ ReadsSound /\ EntriesComparable /\ ReadsComparable
    BY DEF TrustInit, EntriesSound, JobsActive, ReadsSound, EntriesComparable, ReadsComparable
  <1>4. AnswerInv
    BY DEF TrustInit, AnswerInv, StalenessBounded, Hit, Quiet
  <1> QED BY <1>1, <1>2, <1>3, <1>4 DEF TrustInv

-------------------------------------------------------------------------------
(* One lemma per action.                                                   *)

\* The clock's readings, free of the bounds.
LEMMA ClockTypes ==
    ASSUME TrustTypeOK
    PROVE  /\ time \in Nat /\ wall \in Nat /\ setBack \in Nat /\ time <= MaxTime
           /\ time \in Instants /\ wall \in Readings
           /\ \A x \in Instants : x # Never => x \in Nat
           /\ \A x \in Readings : x # Never => x \in Nat
  BY TrustAssumption DEF TrustTypeOK, Instants, Readings

LEMMA QuietType ==
    Quiet \in Answers
  BY TrustAssumption DEF Quiet, Answers

LEMMA QuietAnswers ==
    ASSUME answer' = Quiet PROVE AnswerInv'
  BY DEF AnswerInv, StalenessBounded, Hit, Quiet

LEMMA TickStep == ASSUME TrustInv, Tick PROVE TrustInv' /\ AnswerInv'
  <1> USE TrustAssumption, ClockTypes DEF TrustInv, Tick
  <1>1. time' \in 0 .. MaxTime /\ wall' \in Readings \ {Never}
    BY DEF TrustTypeOK, ClockInv, Readings
  <1>2. TrustTypeOK'
    BY <1>1, QuietType DEF TrustTypeOK
  <1>3. ClockInv'
    BY DEF ClockInv
  <1>4. EntriesSound'
    BY DEF EntriesSound, Sound
  <1>5. JobsActive'
    BY DEF JobsActive, Active
  <1>6. ReadsSound'
    BY DEF ReadsSound, Sound
  <1>7. EntriesComparable' /\ ReadsComparable'
    BY DEF EntriesComparable, ReadsComparable, Comparable
  <1>8. AnswerInv'
    BY QuietAnswers
  <1> QED BY <1>2, <1>3, <1>4, <1>5, <1>6, <1>7, <1>8

LEMMA ClockStep ==
    ASSUME TrustInv, NEW reading \in 0 .. (Start + Ttl), StepClock(reading)
    PROVE  TrustInv' /\ AnswerInv'
  <1> USE TrustAssumption, ClockTypes DEF TrustInv, StepClock
  <1>0. /\ setBack' \in Nat /\ setBack <= setBack'
        /\ wall + setBack <= wall' + setBack'
    BY DEF TrustTypeOK, saturating_sub
  <1>1. /\ wall' \in Readings \ {Never} /\ steps' \in 0 .. MaxClockSteps
        /\ setBack' \in Nat
    BY <1>0 DEF TrustTypeOK, Readings
  <1>2. TrustTypeOK'
    BY <1>1, QuietType DEF TrustTypeOK
  <1>3. ClockInv'
    BY DEF ClockInv
  <1>4. EntriesSound'
    BY <1>0, <1>1 DEF EntriesSound, Sound
  <1>5. JobsActive'
    BY <1>0, <1>1 DEF JobsActive, Active
  <1>6. ReadsSound'
    BY <1>0, <1>1 DEF ReadsSound, Sound
  <1>7. ASSUME NEW x, NEW r \in Requests, Sound(x), Active(r), Comparable(x, r)
        PROVE  Comparable(x, r)'
    BY <1>0, <1>7 DEF Sound, Active, Comparable
  <1>9. EntriesComparable'
    BY <1>7 DEF EntriesComparable, EntriesSound, JobsActive
  <1>10. ReadsComparable'
    BY <1>7 DEF ReadsComparable, ReadsSound, JobsActive
  <1>8. AnswerInv'
    BY QuietAnswers
  <1> QED BY <1>2, <1>3, <1>4, <1>5, <1>6, <1>8, <1>9, <1>10

LEMMA RotateStep == ASSUME TrustInv, Rotate PROVE TrustInv' /\ AnswerInv'
  <1> USE TrustAssumption, ClockTypes DEF TrustInv, Rotate
  <1>2. TrustTypeOK'
    BY QuietType DEF TrustTypeOK
  <1>3. ClockInv'
    BY DEF ClockInv
  <1>4. EntriesSound'
    BY DEF EntriesSound, Sound
  <1>5. JobsActive'
    BY DEF JobsActive, Active
  <1>6. ReadsSound'
    BY DEF ReadsSound, Sound
  <1>7. EntriesComparable' /\ ReadsComparable'
    BY DEF EntriesComparable, ReadsComparable, Comparable
  <1>8. AnswerInv'
    BY QuietAnswers
  <1> QED BY <1>2, <1>3, <1>4, <1>5, <1>6, <1>7, <1>8

\* The fields of a job and of a resolution have their types.
LEMMA FieldTypes ==
    /\ \A j \in Jobs : /\ j.signer \in Signers /\ j.signed \in SignedAt
                       /\ j.now \in Readings /\ j.began \in Instants
                       /\ j.read \in Resolutions
    /\ \A x \in Resolutions : /\ x.retired \in BOOLEAN
                              /\ x.readAt \in Instants /\ x.cachedAt \in Readings
  BY DEF Jobs, Resolutions

LEMMA BeginStep ==
    ASSUME TrustInv, NEW r \in Requests, NEW s \in Signers, NEW signed \in SignedAt,
           Begin(r, s, signed)
    PROVE  TrustInv' /\ AnswerInv'
  <1> DEFINE j == [signer |-> s, signed |-> signed, now |-> wall, began |-> time, read |-> Vacant]
  <1> USE ClockTypes DEF TrustInv
  <1>1. j \in Jobs
    BY VacantType DEF Jobs
  <1>2. job \in [Requests -> Jobs] /\ pc \in [Requests -> {"idle", "lookup", "walk", "insert"}]
    BY DEF TrustTypeOK
  <1>3. /\ job' = [job EXCEPT ![r] = j] /\ pc' = [pc EXCEPT ![r] = "lookup"]
        /\ UNCHANGED <<time, wall, steps, setBack, rotatedAt, entry, evidence>>
        /\ answer' = Quiet
    BY DEF Begin
  <1>4. job'[r] = j /\ pc'[r] = "lookup"
    BY <1>2, <1>3
  <1>5. \A q \in Requests : q # r => job'[q] = job[q] /\ pc'[q] = pc[q]
    BY <1>2, <1>3
  <1> HIDE DEF j
  <1>6. TrustTypeOK'
    BY <1>1, <1>2, <1>3, QuietType DEF TrustTypeOK
  <1>7. ClockInv'
    BY <1>3 DEF ClockInv
  <1>8. EntriesSound'
    BY <1>3 DEF EntriesSound, Sound
  <1>9. JobsActive'
    <2>1. Active(r)'
      BY <1>3, <1>4 DEF Active, j
    <2>2. ASSUME NEW q \in Requests, q # r, pc'[q] # "idle" PROVE Active(q)'
      BY <2>2, <1>3, <1>5 DEF JobsActive, Active
    <2> QED BY <2>1, <2>2 DEF JobsActive
  <1>10. ReadsSound'
    <2> SUFFICES ASSUME NEW q \in Requests, pc'[q] = "insert"
                 PROVE  Sound(job[q].read)' 
      BY DEF ReadsSound
    <2>1. q # r
      BY <1>4
    <2> QED BY <2>1, <1>3, <1>5 DEF ReadsSound, Sound
  <1>11. EntriesComparable'
    <2> SUFFICES ASSUME NEW u \in Signers, NEW q \in Requests,
                        entry[u] # Vacant, pc'[q] = "lookup"
                 PROVE  Comparable(entry[u], q)'
      BY <1>3 DEF EntriesComparable
    <2>1. CASE q = r
      BY <2>1, <1>3, <1>4 DEF EntriesSound, Sound, Comparable, j
    <2>2. CASE q # r
      BY <2>2, <1>3, <1>5 DEF EntriesComparable, Comparable
    <2> QED BY <2>1, <2>2
  <1>12. ReadsComparable'
    <2> SUFFICES ASSUME NEW p \in Requests, NEW q \in Requests,
                        pc'[p] = "insert", pc'[q] = "lookup"
                 PROVE  Comparable(job[p].read, q)'
      BY DEF ReadsComparable
    <2>1. p # r
      BY <1>4
    <2>2. CASE q = r
      BY <2>1, <2>2, <1>3, <1>4, <1>5 DEF ReadsSound, Sound, Comparable, j
    <2>3. CASE q # r
      BY <2>1, <2>3, <1>3, <1>5 DEF ReadsComparable, Comparable
    <2> QED BY <2>2, <2>3
  <1>13. AnswerInv'
    BY <1>3, QuietAnswers
  <1> QED BY <1>6, <1>7, <1>8, <1>9, <1>10, <1>11, <1>12, <1>13

\* A request that ends takes nothing away from the others.
LEMMA OthersStay ==
    ASSUME TrustInv, NEW r \in Requests,
           pc' = [pc EXCEPT ![r] = "idle"], job' = [job EXCEPT ![r] = NoJob],
           UNCHANGED <<time, wall, setBack, rotatedAt>>
    PROVE  JobsActive' /\ ReadsSound' /\ ReadsComparable'
  <1> USE DEF TrustInv
  <1>1. pc'[r] = "idle"
    BY DEF TrustTypeOK
  <1>2. \A q \in Requests : q # r => job'[q] = job[q] /\ pc'[q] = pc[q]
    BY DEF TrustTypeOK
  <1>3. JobsActive'
    BY <1>1, <1>2 DEF JobsActive, Active
  <1>4. ReadsSound'
    BY <1>1, <1>2 DEF ReadsSound, Sound
  <1>5. ReadsComparable'
    BY <1>1, <1>2 DEF ReadsComparable, Comparable
  <1> QED BY <1>3, <1>4, <1>5

\* What concluding a record does, for either way of resolving it.
LEMMA ConcludeStep ==
    ASSUME TrustInv, NEW r \in Requests, NEW how \in {"hit", "walk"},
           NEW read \in Resolutions, Conclude(r, how, read),
           read.readAt # Never, job[r].began # Never
    PROVE  /\ pc' = [pc EXCEPT ![r] = "idle"] /\ job' = [job EXCEPT ![r] = NoJob]
           /\ pc' \in [Requests -> {"idle", "lookup", "walk", "insert"}]
           /\ job' \in [Requests -> Jobs]
           /\ evidence' \in Instants
           /\ answer'.how \in {how, "refused"}
           /\ answer'.age = job[r].began - read.readAt
           /\ pc'[r] = "idle"
           /\ \A q \in Requests : q # r => job'[q] = job[q] /\ pc'[q] = pc[q]
           /\ answer' \in Answers
  <1> DEFINE age == job[r].began - read.readAt
  <1> USE ClockTypes DEF TrustInv
  <1>1. job \in [Requests -> Jobs] /\ pc \in [Requests -> {"idle", "lookup", "walk", "insert"}]
        /\ evidence \in Instants
    BY DEF TrustTypeOK
  <1>2. age \in -MaxTime .. MaxTime
    <2>1. read.readAt \in 0 .. MaxTime /\ job[r].began \in 0 .. MaxTime
      BY <1>1, FieldTypes DEF Instants
    <2> QED BY <2>1, TrustAssumption
  <1>3. PICK h \in {how, "refused"} : Answered(r, h, age) /\ evidence' \in Instants
    <2>1. CASE verify_signing_at(read, job[r].signed)
      BY <2>1 DEF Conclude
    <2>2. CASE ~verify_signing_at(read, job[r].signed)
      BY <2>2, <1>1 DEF Conclude
    <2> QED BY <2>1, <2>2
  <1> HIDE DEF age
  <1>4. /\ pc' = [pc EXCEPT ![r] = "idle"] /\ job' = [job EXCEPT ![r] = NoJob]
        /\ answer' = [how |-> h, age |-> age]
    BY <1>3 DEF Answered
  <1>5. pc' \in [Requests -> {"idle", "lookup", "walk", "insert"}] /\ job' \in [Requests -> Jobs]
    BY <1>1, <1>4, VacantType
  <1>6. /\ answer'.how = h /\ answer'.age = age
        /\ answer' \in Answers
    BY <1>2, <1>3, <1>4 DEF Answers
  <1>7. pc'[r] = "idle" /\ \A q \in Requests : q # r => job'[q] = job[q] /\ pc'[q] = pc[q]
    BY <1>1, <1>4
  <1> QED BY <1>3, <1>4, <1>5, <1>6, <1>7 DEF age

LEMMA HitStep ==
    ASSUME TrustInv, NEW r \in Requests, Lookup(r),
           fresh_resolution(entry[job[r].signer], job[r].now)
    PROVE  TrustInv' /\ AnswerInv'
  <1> DEFINE s == job[r].signer
             x == entry[s]
  <1> USE ClockTypes DEF TrustInv
  <1>1. s \in Signers /\ x \in Resolutions /\ job[r] \in Jobs
    BY DEF TrustTypeOK, Jobs
  <1>2. /\ pc[r] = "lookup" /\ Conclude(r, "hit", x)
        /\ UNCHANGED <<time, wall, steps, setBack, rotatedAt, entry>>
    BY DEF Lookup
  <1>3. /\ x # Vacant /\ saturating_sub(job[r].now, x.cachedAt) < Ttl
    BY DEF fresh_resolution
  <1>4. Active(r) /\ Sound(x) /\ Comparable(x, r)
    BY <1>1, <1>2, <1>3 DEF JobsActive, EntriesSound, EntriesComparable
  <1>0. x.readAt # Never /\ job[r].began # Never
    BY <1>4, TrustAssumption DEF Active, Sound
  <1>5. answer'.age = job[r].began - x.readAt
    BY <1>0, <1>1, <1>2, ConcludeStep
  <1> HIDE DEF s, x
  <1>6. TrustTypeOK'
    BY <1>0, <1>1, <1>2, ConcludeStep DEF TrustTypeOK
  <1>7. ClockInv' /\ EntriesSound'
    BY <1>2 DEF ClockInv, EntriesSound, Sound
  <1>8. JobsActive' /\ ReadsSound' /\ ReadsComparable'
    BY <1>0, <1>1, <1>2, ConcludeStep, OthersStay
  <1>9. EntriesComparable'
    <2>1. pc'[r] = "idle" /\ \A q \in Requests : q # r => job'[q] = job[q] /\ pc'[q] = pc[q]
      BY <1>0, <1>1, <1>2, ConcludeStep
    <2> QED BY <2>1, <1>2 DEF EntriesComparable, Comparable
  <1>10. StalenessBounded'
    <2> SUFFICES job[r].began - x.readAt < Ttl + setBack
      BY <1>2, <1>5 DEF StalenessBounded, Hit
    <2>1. x.readAt >= job[r].began \/ x.cachedAt - x.readAt <= job[r].now + setBack - job[r].began
      BY <1>4 DEF Comparable
    <2>2. /\ x.readAt \in Nat /\ x.cachedAt \in Nat
          /\ job[r].now \in Nat /\ job[r].began \in Nat
      BY <1>4 DEF Sound, Active
    <2> QED BY <2>1, <2>2, <1>3, TrustAssumption DEF saturating_sub
  <1> QED BY <1>6, <1>7, <1>8, <1>9, <1>10 DEF AnswerInv

LEMMA MissStep ==
    ASSUME TrustInv, NEW r \in Requests, Lookup(r),
           ~fresh_resolution(entry[job[r].signer], job[r].now)
    PROVE  TrustInv' /\ AnswerInv'
  <1> USE ClockTypes DEF TrustInv
  <1>1. /\ pc[r] = "lookup" /\ pc' = [pc EXCEPT ![r] = "walk"]
        /\ entry' = [entry EXCEPT ![job[r].signer] = Vacant]
        /\ answer' = Quiet
        /\ UNCHANGED <<time, wall, steps, setBack, rotatedAt, job, evidence>>
    BY DEF Lookup
  <1>2. pc'[r] = "walk" /\ \A q \in Requests : q # r => pc'[q] = pc[q]
    BY <1>1 DEF TrustTypeOK
  <1>3. \A s \in Signers : entry'[s] # Vacant => entry'[s] = entry[s]
    BY <1>1 DEF TrustTypeOK
  <1>4. TrustTypeOK'
    <2>1. entry' \in [Signers -> Resolutions] 
      BY <1>1, VacantType DEF TrustTypeOK
    <2>2. pc' \in [Requests -> {"idle", "lookup", "walk", "insert"}]
      BY <1>1 DEF TrustTypeOK
    <2> QED BY <2>1, <2>2, <1>1, QuietType DEF TrustTypeOK
  <1>5. ClockInv'
    BY <1>1 DEF ClockInv
  <1>6. EntriesSound'
    BY <1>1, <1>3 DEF EntriesSound, Sound
  <1>7. JobsActive' /\ ReadsSound' /\ ReadsComparable'
    BY <1>1, <1>2 DEF JobsActive, Active, ReadsSound, Sound, ReadsComparable, Comparable
  <1>8. EntriesComparable'
    BY <1>1, <1>2, <1>3 DEF EntriesComparable, Comparable
  <1>9. AnswerInv'
    BY <1>1, QuietAnswers
  <1> QED BY <1>4, <1>5, <1>6, <1>7, <1>8, <1>9

LEMMA WalkStep ==
    ASSUME TrustInv, NEW r \in Requests, NEW links \in LinksHanded, Walk(r, links)
    PROVE  TrustInv' /\ AnswerInv'
  <1> DEFINE linked == links = "published" /\ rotatedAt # Never
             x == [retired |-> job[r].signer = "root" /\ linked,
                   readAt |-> time, cachedAt |-> job[r].now]
  <1> USE ClockTypes DEF TrustInv
  <1>1. /\ pc[r] = "walk"
        /\ UNCHANGED <<time, wall, steps, setBack, rotatedAt, entry, evidence>>
    BY DEF Walk
  <1>2. /\ job[r] \in Jobs /\ job \in [Requests -> Jobs]
        /\ pc \in [Requests -> {"idle", "lookup", "walk", "insert"}]
    BY DEF TrustTypeOK
  <1>3. Active(r)
    BY <1>1 DEF JobsActive
  <1>4. ClockInv' /\ EntriesSound'
    BY <1>1 DEF ClockInv, EntriesSound, Sound
  <1>5. CASE links # "broken" /\ (job[r].signer = "next" => linked)
    <2>1. /\ pc' = [pc EXCEPT ![r] = "insert"] /\ job' = [job EXCEPT ![r].read = x]
          /\ answer' = Quiet
      BY <1>5 DEF Walk
    <2>2. x \in Resolutions
      BY <1>2, FieldTypes DEF Resolutions
    <2>3. /\ job'[r] \in Jobs /\ job'[r].read = x /\ job'[r].signer = job[r].signer
          /\ job'[r].now = job[r].now /\ job'[r].began = job[r].began
      BY <1>2, <2>1, <2>2 DEF Jobs
    <2>4. pc'[r] = "insert" /\ \A q \in Requests : q # r => job'[q] = job[q] /\ pc'[q] = pc[q]
      BY <1>2, <2>1
    <2>5. PICK y \in Resolutions, s \in Signers :
            /\ job'[r].read = y /\ job'[r].signer = s
            /\ Sound(y)' /\ \A q \in Requests : pc'[q] = "lookup" => Comparable(y, q)'
      <3>1. PICK y \in Resolutions, s \in Signers : y = x /\ s = job[r].signer
        BY <1>2, <2>2, FieldTypes
      <3>2. y.readAt = time /\ y.cachedAt = job[r].now
        BY <3>1
      <3>4. job'[r].read = y /\ job'[r].signer = s
        BY <2>3, <3>1
      <3> HIDE DEF x
      <3>5. Sound(y)'
        BY <1>1, <1>3, <3>2 DEF Sound, Active
      <3>6. ASSUME NEW q \in Requests, pc'[q] = "lookup" PROVE Comparable(y, q)'
        <4>1. q # r /\ job'[q] = job[q] /\ pc[q] = "lookup"
          BY <2>4, <3>6
        <4>2. Active(q)
          BY <4>1 DEF JobsActive
        <4> QED BY <1>1, <3>2, <4>1, <4>2 DEF Comparable, Active
      <3> QED BY <3>4, <3>5, <3>6
    <2> HIDE DEF x
    <2>6. TrustTypeOK'
      <3>1. job' \in [Requests -> Jobs]
        BY <1>2, <2>1, <2>3, <2>4
      <3>2. pc' \in [Requests -> {"idle", "lookup", "walk", "insert"}]
        BY <1>2, <2>1
      <3> QED BY <1>1, <2>1, <3>1, <3>2, QuietType DEF TrustTypeOK
    <2>7. JobsActive'
      BY <1>1, <1>3, <2>3, <2>4 DEF JobsActive, Active
    <2>8. ReadsSound'
      BY <1>1, <2>4, <2>5 DEF ReadsSound, Sound
    <2>9. EntriesComparable'
      BY <1>1, <2>4 DEF EntriesComparable, Comparable
    <2>10. ReadsComparable'
      <3> SUFFICES ASSUME NEW p \in Requests, NEW q \in Requests,
                          pc'[p] = "insert", pc'[q] = "lookup"
                   PROVE  Comparable(job[p].read, q)'
        BY DEF ReadsComparable
      <3>1. q # r
        BY <2>4
      <3>2. CASE p = r
        BY <3>2, <2>5 DEF Comparable
      <3>3. CASE p # r
        BY <3>1, <3>3, <1>1, <2>4 DEF ReadsComparable, Comparable
      <3> QED BY <3>2, <3>3
    <2>11. AnswerInv'
      BY <2>1, QuietAnswers
    <2> QED BY <1>4, <2>6, <2>7, <2>8, <2>9, <2>10, <2>11
  <1>6. CASE ~(links # "broken" /\ (job[r].signer = "next" => linked))
    <2> DEFINE h == IF links = "broken" THEN "broken_chain" ELSE "unreachable"
    <2>1. Answered(r, h, 0)
      BY <1>6 DEF Walk
    <2>3. /\ pc' = [pc EXCEPT ![r] = "idle"] /\ job' = [job EXCEPT ![r] = NoJob]
          /\ answer' = [how |-> h, age |-> 0]
      BY <2>1 DEF Answered
    <2>4. TrustTypeOK'
      <3>1. /\ pc' \in [Requests -> {"idle", "lookup", "walk", "insert"}]
            /\ job' \in [Requests -> Jobs]
        BY <1>2, <2>3, VacantType
      <3>2. answer' \in Answers
        BY <2>3, TrustAssumption DEF Answers
      <3> QED BY <1>1, <3>1, <3>2 DEF TrustTypeOK
    <2>5. JobsActive' /\ ReadsSound' /\ ReadsComparable'
      BY <1>1, <2>3, OthersStay
    <2>6. EntriesComparable'
      <3>1. pc'[r] = "idle" /\ \A q \in Requests : q # r => job'[q] = job[q] /\ pc'[q] = pc[q]
        BY <1>2, <2>3
      <3> QED BY <1>1, <3>1 DEF EntriesComparable, Comparable
    <2>7. AnswerInv'
      BY <2>3 DEF AnswerInv, StalenessBounded, Hit
    <2> QED BY <1>4, <2>4, <2>5, <2>6, <2>7
  <1> QED BY <1>5, <1>6

LEMMA InsertStep ==
    ASSUME TrustInv, NEW r \in Requests, Insert(r) PROVE TrustInv' /\ AnswerInv'
  <1> DEFINE s == job[r].signer
             x == job[r].read
  <1> USE ClockTypes DEF TrustInv
  <1>1. /\ pc[r] = "insert" /\ entry' = [entry EXCEPT ![s] = x] /\ Conclude(r, "walk", x)
        /\ UNCHANGED <<time, wall, steps, setBack, rotatedAt>>
    BY DEF Insert
  <1>2. s \in Signers /\ x \in Resolutions
    BY FieldTypes DEF TrustTypeOK
  <1>3. Sound(x)
    BY <1>1 DEF ReadsSound
  <1>0. x.readAt # Never /\ job[r].began # Never
    BY <1>1, <1>3, TrustAssumption DEF JobsActive, Active, Sound
  <1> HIDE DEF s, x
  <1>4. entry'[s] = x /\ \A u \in Signers : u # s => entry'[u] = entry[u]
    BY <1>1, <1>2 DEF TrustTypeOK
  <1>5. pc'[r] = "idle" /\ \A q \in Requests : q # r => job'[q] = job[q] /\ pc'[q] = pc[q]
    BY <1>1, <1>2, <1>0, ConcludeStep
  <1>6. TrustTypeOK'
    <2>1. entry' \in [Signers -> Resolutions]
      BY <1>1, <1>2 DEF TrustTypeOK
    <2> QED BY <2>1, <1>1, <1>2, <1>0, ConcludeStep DEF TrustTypeOK
  <1>7. ClockInv'
    BY <1>1 DEF ClockInv
  <1>8. EntriesSound'
    BY <1>1, <1>3, <1>4 DEF EntriesSound, Sound
  <1>9. JobsActive' /\ ReadsSound' /\ ReadsComparable'
    BY <1>1, <1>2, <1>0, ConcludeStep, OthersStay
  <1>10. EntriesComparable'
    <2> SUFFICES ASSUME NEW u \in Signers, NEW q \in Requests,
                        entry'[u] # Vacant, pc'[q] = "lookup"
                 PROVE  Comparable(entry[u], q)'
      BY DEF EntriesComparable
    <2>1. q # r /\ job'[q] = job[q] /\ pc[q] = "lookup"
      BY <1>5
    <2>2. CASE u = s
      BY <2>1, <2>2, <1>1, <1>4 DEF ReadsComparable, Comparable, x
    <2>3. CASE u # s
      BY <2>1, <2>3, <1>1, <1>4 DEF EntriesComparable, Comparable
    <2> QED BY <2>2, <2>3
  <1>11. AnswerInv'
    BY <1>1, <1>2, <1>0, ConcludeStep
       DEF AnswerInv, StalenessBounded, Hit
  <1> QED BY <1>6, <1>7, <1>8, <1>9, <1>10, <1>11

LEMMA StutterStep ==
    ASSUME TrustInv, AnswerInv, UNCHANGED vars PROVE TrustInv' /\ AnswerInv'
  BY DEF vars, TrustInv, AnswerInv, TrustTypeOK, ClockInv, EntriesSound, JobsActive,
         ReadsSound, EntriesComparable, ReadsComparable, Sound, Active, Comparable,
         StalenessBounded, Hit

-------------------------------------------------------------------------------
LEMMA TrustInvariant == Spec => [](TrustInv /\ AnswerInv)
  <1>1. TrustInv /\ AnswerInv /\ [Next]_vars => (TrustInv /\ AnswerInv)'
    <2> SUFFICES ASSUME TrustInv, AnswerInv, [Next]_vars PROVE TrustInv' /\ AnswerInv'
      OBVIOUS
    <2>1. ASSUME NEW r \in Requests, NEW s \in Signers, NEW signed \in SignedAt, Begin(r, s, signed)
          PROVE  TrustInv' /\ AnswerInv'
      BY <2>1, BeginStep
    <2>2. ASSUME NEW r \in Requests, Lookup(r) PROVE TrustInv' /\ AnswerInv'
      BY <2>2, HitStep, MissStep
    <2>3. ASSUME NEW r \in Requests, Insert(r) PROVE TrustInv' /\ AnswerInv'
      BY <2>3, InsertStep
    <2>4. ASSUME NEW r \in Requests, NEW links \in LinksHanded, Walk(r, links)
          PROVE  TrustInv' /\ AnswerInv'
      BY <2>4, WalkStep
    <2>5. ASSUME NEW reading \in 0 .. (Start + Ttl), StepClock(reading)
          PROVE  TrustInv' /\ AnswerInv'
      BY <2>5, ClockStep
    <2>6. CASE Tick
      BY <2>6, TickStep
    <2>7. CASE Rotate
      BY <2>7, RotateStep
    <2>8. CASE UNCHANGED vars
      BY <2>8, StutterStep
    <2> QED BY <2>1, <2>2, <2>3, <2>4, <2>5, <2>6, <2>7, <2>8 DEF Next
  <1> QED BY <1>1, InitTrust, PTL DEF Spec

\* Every variable keeps its kind, so that a lease anchor is always a clock
\* reading that resolve itself took.
THEOREM TrustTypeCorrect == Spec => []TrustTypeOK
  <1>1. TrustInv => TrustTypeOK
    BY DEF TrustInv
  <1> QED BY <1>1, TrustInvariant, PTL

\* BoundedTrustCache::resolve never serves a request a resolution whose chain
\* was read a whole lease before the request began, but for the seconds by
\* which the wall clock was set back: slow walks, racing inserts and forward
\* jumps cannot extend it.
THEOREM CachedTrustIsFresh == Spec => []StalenessBounded
  <1>1. AnswerInv => StalenessBounded
    BY DEF AnswerInv
  <1> QED BY <1>1, TrustInvariant, PTL

\* A request that ends touches the readiness ledger only by an accepted
\* record, and then says so.
LEMMA EvidenceIsAnswered ==
    ASSUME NEW r, NEW how \in {"hit", "walk"}, NEW read, Conclude(r, how, read)
    PROVE  evidence' = evidence \/ answer'.how \in {"hit", "walk"}
  BY DEF Conclude, Answered

\* A replica becomes ready only in the step that accepts a verified record
\* (record_verified_control_read): time, clock steps, rotations, failed walks
\* and refused records leave the ledger's evidence and can only age it.
THEOREM ReadyByEvidence == Spec => ReadinessIsEarned
  <1> DEFINE Earned == Ready' /\ ~Ready => answer'.how \in {"hit", "walk"}
  <1>1. TrustInv /\ [Next]_vars => [Earned]_vars
    <2> SUFFICES ASSUME TrustInv, Next PROVE Earned
      OBVIOUS
    <2>1. ASSUME evidence' = evidence, time' >= time, time' \in Nat
          PROVE  Earned
      <3>1. time \in Nat /\ (evidence = Never \/ evidence \in Nat)
        BY TrustAssumption DEF TrustInv, TrustTypeOK, Instants
      <3> QED BY <2>1, <3>1, TrustAssumption DEF Ready
    <2>2. time \in Nat
      BY TrustAssumption DEF TrustInv, TrustTypeOK
    <2>3. ASSUME NEW r \in Requests, NEW s \in Signers, NEW signed \in SignedAt, Begin(r, s, signed)
          PROVE  Earned
      BY <2>1, <2>2, <2>3 DEF Begin
    <2>4. ASSUME NEW r \in Requests, Lookup(r) PROVE Earned
      <3>1. time' = time /\ (evidence' = evidence \/ answer'.how \in {"hit", "walk"})
        BY <2>4, EvidenceIsAnswered DEF Lookup
      <3> QED BY <2>1, <2>2, <3>1
    <2>5. ASSUME NEW r \in Requests, Insert(r) PROVE Earned
      <3>1. time' = time /\ (evidence' = evidence \/ answer'.how \in {"hit", "walk"})
        BY <2>5, EvidenceIsAnswered DEF Insert
      <3> QED BY <2>1, <2>2, <3>1
    <2>6. ASSUME NEW r \in Requests, NEW links \in LinksHanded, Walk(r, links) PROVE Earned
      BY <2>1, <2>2, <2>6 DEF Walk
    <2>7. ASSUME NEW reading \in 0 .. (Start + Ttl), StepClock(reading) PROVE Earned
      BY <2>1, <2>2, <2>7 DEF StepClock
    <2>8. CASE Tick
      <3>1. evidence' = evidence /\ time' = time + 1
        BY <2>8 DEF Tick
      <3> QED BY <2>1, <2>2, <3>1
    <2>9. CASE Rotate
      BY <2>1, <2>2, <2>9 DEF Rotate
    <2> QED BY <2>3, <2>4, <2>5, <2>6, <2>7, <2>8, <2>9 DEF Next
  <1>2. TrustInv /\ AnswerInv => TrustInv
    OBVIOUS
  <1> QED BY <1>1, <1>2, TrustInvariant, PTL DEF Spec, ReadinessIsEarned
===============================================================================
