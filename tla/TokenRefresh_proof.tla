-------------------------- MODULE TokenRefresh_proof --------------------------
(***************************************************************************)
(* Safety of the shared token refresh for every set of instances, every    *)
(* number of logins and refreshes and every bound on the attempts.         *)
(*                                                                         *)
(* That a refresh under the lock presents the live token is not inductive: *)
(* it speaks of the moment of the call, and what makes it true happened    *)
(* long before.  The invariant that carries it (WorkerInv) follows the     *)
(* live pair of a grant through a handover: while nobody rotates, every    *)
(* pair that could be refreshed with is the live one or older than what    *)
(* the service hands out; from the rotation to the release only the        *)
(* holder's job has it.  A grant whose handover a lost call, a crash or an *)
(* expired lease broke is excused, and nothing is claimed of it.           *)
(***************************************************************************)
EXTENDS TokenRefresh, TLAPS

\* What a job's record says, whoever it belongs to.
Works(e) == e.pc \in {"acquiring", "looked", "calling", "rotated", "releasing", "caching",
                      "failing", "identifying"}
Flies(e) == e.leased /\ e.pc \in {"calling", "rotated", "releasing"}
Carries(e) == e.leased /\ e.pc \in {"rotated", "releasing"}

WellFormed(e) ==
    /\ Works(e) => e.pair # NoPair
    /\ e.pc = "looked" => e.attempts < MaxAttempts
    /\ e.leased => e.pc \in {"calling", "rotated", "releasing", "caching", "failing", "identifying"}
    /\ e.pc \in {"releasing", "caching", "failing"} => e.leased

\* A job under the lock has rotated the grant g and not handed it over yet.
Carried(jobs, g) == \E i \in Instances : Carries(jobs[i]) /\ jobs[i].pair.grant = g

\* A pair somebody may refresh with: upstream issued it, and unless its grant is
\* excused it is the live one, or the service has a newer one to hand over, or the
\* holder of the lock is about to bring one.
Sound(p, lv, ex, shared, jobs) ==
    p # NoPair =>
      /\ p.serial <= lv[p.grant]
      /\ p.grant \notin ex =>
            p.serial = lv[p.grant] \/ Newer(shared, p) \/ Carried(jobs, p.grant)

JobsWellFormed == \A i \in Instances : WellFormed(job[i])
SerialsIssued == \A g \in Grants : live[g] <= issued

OneStepService == \A i \in Instances : job[i].pc \notin {"looked", "caching"}
HolderIsLive ==
    \A i \in Instances : Flies(job[i]) /\ job[i].pair.grant \notin excused =>
        lock = i /\ live[job[i].pair.grant] = job[i].pair.serial
HolderIsAhead ==
    \A i \in Instances : Flies(job[i]) /\ lock = i => ~Newer(cache, job[i].pair)
PairsSound ==
    /\ Sound(cache, live, excused, cache, job)
    /\ \A i \in Instances :
         /\ Sound(file[i], live, excused, cache, job)
         /\ Works(job[i]) => Sound(job[i].pair, live, excused, cache, job)

BaseInv == TypeOK /\ JobsWellFormed /\ SerialsIssued
Worker == OneStepService /\ HolderIsLive /\ HolderIsAhead /\ PairsSound
WorkerInv == backend = "worker" => Worker

-----------------------------------------------------------------------------
(* Lemmas about pairs and jobs.                                            *)

LEMMA PairFields ==
    ASSUME NEW p \in Pairs
    PROVE  /\ p.grant \in Nat /\ p.serial \in Nat
           /\ p # NoPair => p.grant \in Grants /\ p.serial \in Serials
           /\ p = NoPair => p.grant = 0 /\ p.serial = 0
BY BoundsAssumption DEF Pairs, NoPair, Grants, Serials

\* A pair is determined by its grant and its serial number.
LEMMA PairsByFields ==
    ASSUME NEW p \in Pairs, NEW q \in Pairs, p.grant = q.grant, p.serial = q.serial
    PROVE  p = q
BY BoundsAssumption DEF Pairs, NoPair, Grants, Serials

\* Newer is a strict order in which any two pairs compare.
LEMMA NewerOrder ==
    ASSUME NEW p \in Pairs, NEW q \in Pairs, NEW r \in Pairs
    PROVE  /\ ~Newer(p, p)
           /\ Newer(p, q) => ~Newer(q, p) /\ p # NoPair
           /\ Newer(p, q) /\ ~Newer(r, q) => Newer(p, r)
           /\ Newer(p, q) /\ ~Newer(p, r) => Newer(r, q)
<1>1. \A s \in {p, q, r} : s.grant \in Nat /\ s.serial \in Nat
  BY PairFields
<1>2. p = NoPair => p.grant = 0 /\ p.serial = 0
  BY PairFields
<1> QED BY <1>1, <1>2 DEF Newer

\* updateTokens keeps a seat a seat.
LEMMA WithTokensType ==
    ASSUME NEW s \in Pairs, NEW p \in Pairs, p # NoPair
    PROVE  WithTokens(s, p) \in Pairs
<1>1. p.serial \in Serials
  BY PairFields
<1> QED BY <1>1 DEF WithTokens, Pairs, NoPair

LEMMA JobFields ==
    ASSUME NEW e \in Jobs
    PROVE  /\ e.pc \in Steps /\ e.pair \in Pairs /\ e.attempts \in 0..MaxAttempts /\ e.leased \in BOOLEAN
BY DEF Jobs

LEMMA JobType ==
    ASSUME NEW e \in Jobs, NEW pc \in Steps, NEW p \in Pairs, NEW n \in 0..MaxAttempts
    PROVE  /\ [e EXCEPT !.pc = pc] \in Jobs
           /\ [e EXCEPT !.pair = p] \in Jobs
           /\ [e EXCEPT !.attempts = n] \in Jobs
           /\ [e EXCEPT !.leased = TRUE] \in Jobs
BY DEF Jobs

LEMMA NoJobType == NoJob \in Jobs /\ NoPair \in Pairs
<1>1. 0 \in 0..MaxAttempts
  BY BoundsAssumption
<1> QED BY <1>1 DEF NoJob, Jobs, Steps, Pairs

-----------------------------------------------------------------------------
(* Types, for either service.                                              *)

\* A step of instance i that leaves it with a proper job keeps all jobs proper.
LEMMA JobReplaced ==
    ASSUME TypeOK, JobsWellFormed, NEW i \in Instances, NEW e \in Jobs, WellFormed(e),
           job' = [job EXCEPT ![i] = e]
    PROVE  job' \in [Instances -> Jobs] /\ JobsWellFormed'
BY DEF TypeOK, JobsWellFormed

\* What the invariant says of one instance.
LEMMA OwnState ==
    ASSUME BaseInv, NEW i \in Instances
    PROVE  /\ job[i] \in Jobs /\ WellFormed(job[i])
           /\ job[i].pc \in Steps /\ job[i].attempts \in 0..MaxAttempts
           /\ job[i].pair \in Pairs /\ job[i].leased \in BOOLEAN
           /\ file[i] \in Pairs /\ seat[i] \in Pairs /\ cache \in Pairs
           /\ Works(job[i]) => job[i].pair.grant \in Grants /\ job[i].pair.serial \in Serials
<1>1. job[i] \in Jobs /\ WellFormed(job[i]) /\ file[i] \in Pairs /\ seat[i] \in Pairs /\ cache \in Pairs
  BY DEF BaseInv, TypeOK, JobsWellFormed
<1>2. Works(job[i]) => job[i].pair # NoPair
  BY <1>1 DEF WellFormed
<1> QED BY <1>1, <1>2, JobFields, PairFields

\* The job of i moves to another step with the same pair.
LEMMA JobGoes ==
    ASSUME BaseInv, NEW i \in Instances, NEW pc \in Steps, Goes(i, pc),
           WellFormed([job[i] EXCEPT !.pc = pc])
    PROVE  job' \in [Instances -> Jobs] /\ JobsWellFormed'
<1>1. [job[i] EXCEPT !.pc = pc] \in Jobs
  BY OwnState, JobType, NoJobType
<1>2. job' = [job EXCEPT ![i] = [job[i] EXCEPT !.pc = pc]]
  BY DEF Goes
<1> QED BY <1>1, <1>2, JobReplaced DEF BaseInv

LEMMA JobEnds ==
    ASSUME BaseInv, NEW i \in Instances, Ends(i)
    PROVE  job' \in [Instances -> Jobs] /\ JobsWellFormed'
<1>1. WellFormed(NoJob)
  BY DEF WellFormed, Works, NoJob
<1> QED BY <1>1, NoJobType, JobReplaced DEF BaseInv, Ends

\* refreshAccountToken returns: the seat keeps its type, the job its form.
LEMMA ReturnsBase ==
    ASSUME BaseInv, NEW i \in Instances, NEW p \in Pairs, p # NoPair, Returns(i, p)
    PROVE  /\ seat' \in [Instances -> Pairs]
           /\ job' \in [Instances -> Jobs] /\ JobsWellFormed'
<1>1. seat' \in [Instances -> Pairs]
  BY WithTokensType DEF Returns, BaseInv, TypeOK
<1>2. CASE Ends(i)
  BY <1>1, <1>2, JobEnds
<1>3. CASE job' = [job EXCEPT ![i].pc = "identifying", ![i].pair = p]
  <2> DEFINE e == [job[i] EXCEPT !.pc = "identifying", !.pair = p]
  <2>1. job' = [job EXCEPT ![i] = e]
    BY <1>3
  <2>2. e \in Jobs
    BY OwnState DEF Jobs, Steps
  <2>3. WellFormed(e)
    BY <2>2 DEF WellFormed, Works, Jobs
  <2> HIDE DEF e
  <2> QED BY <1>1, <2>1, <2>2, <2>3, JobReplaced DEF BaseInv
<1> QED BY <1>2, <1>3 DEF Returns

LEMMA PeekBase ==
    ASSUME BaseInv, NEW i \in Instances, Tick(i) \/ Peek(i) \/ NotDue(i) \/ Due(i)
    PROVE  BaseInv'
<1> USE OwnState DEF BaseInv
<1>1. ASSUME Tick(i) \/ Due(i) PROVE BaseInv'
  <2>1. PICK e : /\ job' = [job EXCEPT ![i] = e]
                 /\ \/ e = [NoJob EXCEPT !.pc = "peeking", !.pair = seat[i]]
                    \/ e = [NoJob EXCEPT !.pc = "acquiring", !.pair = file[i]] /\ file[i] # NoPair
    BY <1>1 DEF Tick, Due
  <2>2. e \in Jobs /\ WellFormed(e)
    <3>1. NoJob \in Jobs
      BY NoJobType
    <3> QED BY <2>1, <3>1 DEF Jobs, Steps, WellFormed, Works, NoJob
  <2>3. job' \in [Instances -> Jobs] /\ JobsWellFormed'
    BY <2>1, <2>2, JobReplaced
  <2> QED BY <1>1, <2>3 DEF Tick, Due, TypeOK, SerialsIssued
<1>2. CASE PeekAnswered(i)
  <2> DEFINE adopted == Adopted(SharedWith(job[i].pair), file[i], job[i].pair)
             e == [job[i] EXCEPT !.pc = "adopting", !.pair = adopted]
  <2>1. adopted \in Pairs
    BY NoJobType DEF Adopted, SharedWith
  <2>2. e \in Jobs /\ job' = [job EXCEPT ![i] = e]
    BY <1>2, <2>1 DEF PeekAnswered, Jobs, Steps
  <2>3. WellFormed(e)
    BY <1>2, <2>2 DEF PeekAnswered, At, WellFormed, Works, Jobs
  <2> HIDE DEF e
  <2>4. job' \in [Instances -> Jobs] /\ JobsWellFormed'
    BY <2>2, <2>3, JobReplaced
  <2>5. file' \in [Instances -> Pairs]
    BY <1>2, <2>1 DEF PeekAnswered, TypeOK
  <2> QED BY <1>2, <2>4, <2>5 DEF PeekAnswered, TypeOK, SerialsIssued
<1>3. ASSUME AdoptSeat(i) \/ PeekLost(i) PROVE BaseInv'
  <2>1. WellFormed([job[i] EXCEPT !.pc = "deciding"])
    BY <1>3 DEF AdoptSeat, PeekLost, At, WellFormed, Works, Jobs
  <2>2. job' \in [Instances -> Jobs] /\ JobsWellFormed'
    BY <1>3, <2>1, JobGoes DEF AdoptSeat, PeekLost, Steps
  <2>3. seat' \in [Instances -> Pairs]
    BY <1>3 DEF AdoptSeat, PeekLost, TypeOK
  <2> QED BY <1>3, <2>2, <2>3 DEF AdoptSeat, PeekLost, TypeOK, SerialsIssued
<1>4. CASE NotDue(i)
  BY <1>4, JobEnds DEF NotDue, TypeOK, SerialsIssued
<1> QED BY <1>1, <1>2, <1>3, <1>4 DEF Peek

LEMMA AcquireBase ==
    ASSUME BaseInv, NEW i \in Instances, Acquire(i)
    PROVE  BaseInv'
<1> USE OwnState DEF BaseInv
<1>1. CASE TakeOver(i)
  <2>1. cache # NoPair /\ file' \in [Instances -> Pairs]
    BY <1>1, NewerOrder DEF TakeOver, TypeOK
  <2>2. /\ seat' \in [Instances -> Pairs]
        /\ job' \in [Instances -> Jobs] /\ JobsWellFormed'
    <3>1. CASE Returns(i, cache)
      BY <2>1, <3>1, ReturnsBase
    <3>2. CASE job' = [job EXCEPT ![i].pair = cache, ![i].attempts = @ + 1] /\ UNCHANGED seat
      <4> DEFINE e == [job[i] EXCEPT !.pair = cache, !.attempts = @ + 1]
      <4>1. job[i].attempts + 1 \in 0..MaxAttempts
        BY <1>1, BoundsAssumption DEF TakeOver, Trying
      <4>2. e \in Jobs /\ job' = [job EXCEPT ![i] = e]
        BY <3>2, <4>1 DEF Jobs
      <4>3. WellFormed(e)
        BY <1>1, <2>1, <4>2 DEF TakeOver, Trying, At, WellFormed, Works, Jobs
      <4> HIDE DEF e
      <4> QED BY <3>2, <4>2, <4>3, JobReplaced DEF TypeOK
    <3> QED BY <1>1, <3>1, <3>2 DEF TakeOver
  <2> QED BY <1>1, <2>1, <2>2 DEF TakeOver, TypeOK, SerialsIssued
<1>2. CASE Look(i)
  <2>1. WellFormed([job[i] EXCEPT !.pc = "looked"])
    BY <1>2 DEF Look, Trying, At, WellFormed, Works, Jobs
  <2>2. job' \in [Instances -> Jobs] /\ JobsWellFormed'
    BY <1>2, <2>1, JobGoes DEF Look, Steps
  <2> QED BY <1>2, <2>2 DEF Look, TypeOK, SerialsIssued
<1>3. CASE TakeLock(i)
  <2> DEFINE e == [job[i] EXCEPT !.pc = "calling", !.leased = TRUE]
  <2>1. e \in Jobs /\ job' = [job EXCEPT ![i] = e]
    BY <1>3 DEF TakeLock, Jobs, Steps
  <2>2. WellFormed(e)
    BY <1>3, <2>1 DEF TakeLock, MayLock, Trying, At, WellFormed, Works, Jobs
  <2> HIDE DEF e
  <2>3. job' \in [Instances -> Jobs] /\ JobsWellFormed'
    BY <2>1, <2>2, JobReplaced
  <2> QED BY <1>3, <2>3 DEF TakeLock, TypeOK, SerialsIssued
<1>4. CASE FindLocked(i)
  <2> DEFINE e == [job[i] EXCEPT !.pc = "acquiring", !.attempts = @ + 1]
  <2>1. job[i].attempts + 1 \in 0..MaxAttempts
    BY <1>4, BoundsAssumption DEF FindLocked, MayLock, Trying, At, WellFormed
  <2>2. e \in Jobs /\ job' = [job EXCEPT ![i] = e]
    BY <1>4, <2>1 DEF FindLocked, Jobs, Steps
  <2>3. WellFormed(e)
    BY <1>4, <2>2 DEF FindLocked, MayLock, Trying, At, WellFormed, Works, Jobs
  <2> HIDE DEF e
  <2>4. job' \in [Instances -> Jobs] /\ JobsWellFormed'
    BY <2>2, <2>3, JobReplaced
  <2> QED BY <1>4, <2>4 DEF FindLocked, TypeOK, SerialsIssued
<1>5. CASE LockCallLost(i) \/ GiveUp(i)
  <2>1. WellFormed([job[i] EXCEPT !.pc = "calling"])
    BY <1>5 DEF LockCallLost, GiveUp, Trying, At, WellFormed, Works, Jobs
  <2>2. job' \in [Instances -> Jobs] /\ JobsWellFormed'
    BY <1>5, <2>1, JobGoes, JobEnds DEF LockCallLost, GiveUp, Steps
  <2>3. lock' \in Instances \cup {Nobody}
    BY <1>5 DEF LockCallLost, GiveUp, TypeOK
  <2> QED BY <1>5, <2>2, <2>3 DEF LockCallLost, GiveUp, TypeOK, SerialsIssued
<1> QED BY <1>1, <1>2, <1>3, <1>4, <1>5 DEF Acquire

\* A failure leaves the lock's holder with a release to make, anybody else with nothing.
LEMMA FailsBase ==
    ASSUME BaseInv, NEW i \in Instances, At(i, "calling") \/ At(i, "rotated"), Fails(i)
    PROVE  job' \in [Instances -> Jobs] /\ JobsWellFormed'
<1>1. CASE job[i].leased
  <2>1. WellFormed([job[i] EXCEPT !.pc = "failing"])
    BY <1>1, OwnState DEF At, WellFormed, Works, Jobs
  <2> QED BY <1>1, <2>1, JobGoes DEF Fails, Steps
<1>2. CASE ~job[i].leased
  BY <1>2, JobEnds DEF Fails
<1> QED BY <1>1, <1>2

LEMMA RefreshBase ==
    ASSUME BaseInv, NEW i \in Instances, Refresh(i)
    PROVE  BaseInv'
<1> USE OwnState DEF BaseInv
<1>1. CASE Refused(i)
  <2>1. job' \in [Instances -> Jobs] /\ JobsWellFormed'
    BY <1>1, FailsBase DEF Refused
  <2> QED BY <1>1, <2>1 DEF Refused, TypeOK, SerialsIssued
<1>2. CASE Rotate(i)
  <2> DEFINE g == job[i].pair.grant
             p == [job[i].pair EXCEPT !.serial = issued + 1]
             e == [job[i] EXCEPT !.pc = "rotated", !.pair = p]
  <2>1. job[i].pair # NoPair /\ g \in Grants /\ issued \in Nat /\ issued + 1 \in Serials
    BY <1>2, BoundsAssumption DEF Rotate, At, WellFormed, Works, TypeOK, Serials
  <2>2. p \in Pairs /\ p # NoPair
    BY <2>1, BoundsAssumption DEF Pairs, NoPair, Serials
  <2>3. e \in Jobs /\ job' = [job EXCEPT ![i] = e]
    BY <1>2, <2>2 DEF Rotate, Jobs, Steps
  <2>4. WellFormed(e)
    BY <1>2, <2>2, <2>3 DEF Rotate, At, WellFormed, Works, Jobs
  <2> HIDE DEF e
  <2>5. job' \in [Instances -> Jobs] /\ JobsWellFormed'
    BY <2>3, <2>4, JobReplaced
  <2> HIDE DEF p, g
  <2>6. issued' \in Serials /\ live' \in [Grants -> 0..MaxSerial] /\ excused' \subseteq Grants
    BY <1>2, <2>1, BoundsAssumption DEF Rotate, TypeOK, Serials, g
  <2>7. SerialsIssued'
    BY <1>2, <2>1 DEF Rotate, TypeOK, Serials, SerialsIssued
  <2> QED BY <1>2, <2>5, <2>6, <2>7 DEF Rotate, TypeOK
<1>3. CASE AnswerLost(i)
  <2>1. job' \in [Instances -> Jobs] /\ JobsWellFormed'
    BY <1>3, FailsBase DEF AnswerLost
  <2>2. job[i].pair.grant \in Grants
    BY <1>3 DEF AnswerLost, At, Works
  <2> QED BY <1>3, <2>1, <2>2 DEF AnswerLost, TypeOK, SerialsIssued
<1>4. CASE Save(i)
  <2>1. job[i].pair # NoPair
    BY <1>4 DEF Save, At, WellFormed, Works
  <2>2. /\ seat' \in [Instances -> Pairs]
        /\ job' \in [Instances -> Jobs] /\ JobsWellFormed'
    <3>1. CASE job[i].leased
      <4>1. WellFormed([job[i] EXCEPT !.pc = "releasing"])
        BY <1>4, <2>1, <3>1 DEF Save, At, WellFormed, Works, Jobs
      <4> QED BY <1>4, <3>1, <4>1, JobGoes DEF Save, TypeOK, Steps
    <3>2. CASE ~job[i].leased
      BY <1>4, <2>1, <3>2, ReturnsBase DEF Save
    <3> QED BY <3>1, <3>2
  <2>3. file' \in [Instances -> Pairs]
    BY <1>4 DEF Save, TypeOK
  <2> QED BY <1>4, <2>2, <2>3 DEF Save, TypeOK, SerialsIssued
<1>5. CASE Identify(i)
  <2>1. job' \in [Instances -> Jobs] /\ JobsWellFormed'
    BY <1>5, JobEnds DEF Identify
  <2>2. file' \in [Instances -> Pairs] /\ seat' \in [Instances -> Pairs]
    BY <1>5 DEF Identify, TypeOK
  <2> QED BY <1>5, <2>1, <2>2 DEF Identify, TypeOK, SerialsIssued
<1> QED BY <1>1, <1>2, <1>3, <1>4, <1>5 DEF Refresh

LEMMA ReleaseBase ==
    ASSUME BaseInv, NEW i \in Instances, Release(i)
    PROVE  BaseInv'
<1> USE OwnState DEF BaseInv
<1>1. ASSUME HandOver(i) \/ StoreHandOver(i) \/ HandOverLost(i) PROVE BaseInv'
  <2>1. job[i].pair # NoPair /\ job[i].pair.grant \in Grants
    BY <1>1 DEF HandOver, StoreHandOver, HandOverLost, At, WellFormed, Works
  <2>2. \/ Returns(i, job[i].pair)
        \/ At(i, "releasing") /\ Goes(i, "caching") /\ UNCHANGED seat
    BY <1>1 DEF HandOver, StoreHandOver, HandOverLost
  <2>3. At(i, "releasing") => WellFormed([job[i] EXCEPT !.pc = "caching"])
    BY DEF At, WellFormed, Works, Jobs
  <2>4. /\ seat' \in [Instances -> Pairs]
        /\ job' \in [Instances -> Jobs] /\ JobsWellFormed'
    <3>1. CASE Returns(i, job[i].pair)
      BY <2>1, <3>1, ReturnsBase
    <3>2. CASE At(i, "releasing") /\ Goes(i, "caching") /\ UNCHANGED seat
      BY <2>3, <3>2, JobGoes DEF TypeOK, Steps
    <3> QED BY <2>2, <3>1, <3>2
  <2>5. lock' \in Instances \cup {Nobody} /\ cache' \in Pairs /\ excused' \subseteq Grants
    BY <1>1, <2>1 DEF HandOver, StoreHandOver, HandOverLost, TypeOK
  <2>6. UNCHANGED << backend, file, reload, live, issued >>
    BY <1>1 DEF HandOver, StoreHandOver, HandOverLost
  <2> QED BY <2>4, <2>5, <2>6 DEF TypeOK, SerialsIssued
<1>2. CASE ReleaseFailed(i)
  <2>1. job' \in [Instances -> Jobs] /\ JobsWellFormed'
    BY <1>2, JobEnds DEF ReleaseFailed
  <2>2. lock' \in Instances \cup {Nobody}
    BY <1>2 DEF ReleaseFailed, TypeOK
  <2> QED BY <1>2, <2>1, <2>2 DEF ReleaseFailed, TypeOK, SerialsIssued
<1> QED BY <1>1, <1>2 DEF Release

LEMMA OperatorBase ==
    ASSUME BaseInv, NEW i \in Instances, Login(i) \/ Remove(i) \/ Reconcile(i) \/ Restart(i)
    PROVE  BaseInv'
<1> USE OwnState DEF BaseInv
<1>1. CASE Login(i)
  <2>1. PICK g \in Grants :
          /\ issued < MaxSerial /\ issued' = issued + 1
          /\ live' = [live EXCEPT ![g] = issued + 1]
          /\ file' = [file EXCEPT ![i] = [grant |-> g, serial |-> issued + 1]]
    BY <1>1 DEF Login
  <2>2. issued \in Nat /\ issued + 1 \in Serials
    BY <2>1, BoundsAssumption DEF TypeOK, Serials
  <2>3. [grant |-> g, serial |-> issued + 1] \in Pairs
    BY <2>2 DEF Pairs
  <2>4. file' \in [Instances -> Pairs] /\ issued' \in Serials /\ live' \in [Grants -> 0..MaxSerial]
    BY <2>1, <2>2, <2>3 DEF TypeOK, Serials
  <2>5. SerialsIssued'
    BY <2>1, <2>2 DEF SerialsIssued, TypeOK
  <2>6. reload' \in [Instances -> BOOLEAN]
    BY <1>1 DEF Login, TypeOK
  <2> QED BY <1>1, <2>4, <2>5, <2>6 DEF Login, TypeOK, JobsWellFormed
<1>2. CASE Remove(i)
  BY <1>2, NoJobType DEF Remove, TypeOK, JobsWellFormed, SerialsIssued
<1>3. CASE Reconcile(i)
  BY <1>3 DEF Reconcile, TypeOK, JobsWellFormed, SerialsIssued
<1>4. CASE Restart(i)
  <2>1. job' \in [Instances -> Jobs] /\ JobsWellFormed'
    BY <1>4, JobEnds DEF Restart
  <2>2. excused' \subseteq Grants
    BY <1>4 DEF Restart, TypeOK, Works
  <2>3. seat' \in [Instances -> Pairs] /\ reload' \in [Instances -> BOOLEAN]
    BY <1>4 DEF Restart, TypeOK
  <2> QED BY <1>4, <2>1, <2>2, <2>3 DEF Restart, TypeOK, SerialsIssued
<1> QED BY <1>1, <1>2, <1>3, <1>4

LEMMA LeaseBase ==
    ASSUME BaseInv, LeaseExpires
    PROVE  BaseInv'
<1>1. lock \in Instances
  BY DEF LeaseExpires, BaseInv, TypeOK
<1>2. excused' \subseteq Grants
  BY <1>1, OwnState DEF LeaseExpires, BaseInv, TypeOK, Works
<1> QED BY <1>2 DEF LeaseExpires, BaseInv, TypeOK, JobsWellFormed, SerialsIssued

LEMMA BaseStep == BaseInv /\ [Next]_vars => BaseInv'
<1> SUFFICES ASSUME BaseInv, [Next]_vars PROVE BaseInv'
  OBVIOUS
<1>1. ASSUME NEW i \in Instances, Tick(i) \/ Peek(i) \/ NotDue(i) \/ Due(i) PROVE BaseInv'
  BY <1>1, PeekBase
<1>2. ASSUME NEW i \in Instances, Acquire(i) PROVE BaseInv'
  BY <1>2, AcquireBase
<1>3. ASSUME NEW i \in Instances, Refresh(i) PROVE BaseInv'
  BY <1>3, RefreshBase
<1>4. ASSUME NEW i \in Instances, Release(i) PROVE BaseInv'
  BY <1>4, ReleaseBase
<1>5. ASSUME NEW i \in Instances, Login(i) \/ Remove(i) \/ Reconcile(i) \/ Restart(i) PROVE BaseInv'
  BY <1>5, OperatorBase
<1>6. CASE LeaseExpires
  BY <1>6, LeaseBase
<1>7. CASE UNCHANGED vars
  BY <1>7 DEF vars, BaseInv, TypeOK, JobsWellFormed, SerialsIssued
<1> QED BY <1>1, <1>2, <1>3, <1>4, <1>5, <1>6, <1>7 DEF Next, Job

LEMMA BaseInit == Init => BaseInv
<1> SUFFICES ASSUME Init PROVE BaseInv
  OBVIOUS
<1>1. [grant |-> 1, serial |-> 1] \in Pairs /\ 1 \in Grants /\ 1 \in Serials
  BY BoundsAssumption DEF Pairs, Grants, Serials
<1>2. WellFormed(NoJob)
  BY DEF WellFormed, Works, NoJob
<1>3. TypeOK
  BY <1>1, NoJobType, BoundsAssumption DEF Init, TypeOK
<1> QED BY <1>2, <1>3 DEF Init, BaseInv, JobsWellFormed, SerialsIssued

LEMMA BaseHolds == RefreshSpec => []BaseInv
BY BaseInit, BaseStep, PTL DEF RefreshSpec

\* Whatever calls are lost, leases run out and processes die, under either service:
\* a job that presents, saves or hands over a pair has one, and attempts stay
\* within MAX_ATTEMPTS (refreshAccountToken).
THEOREM RefreshTypeCorrect == RefreshSpec => []TypeOK
<1>1. BaseInv => TypeOK
  BY DEF BaseInv
<1> QED BY <1>1, BaseHolds, PTL

-----------------------------------------------------------------------------
(* The worker: a pair that could be refreshed with is sound.               *)

\* Pairs i can refresh with now.
Known(i) == {file[i], cache} \cup IF Works(job[i]) THEN {job[i].pair} ELSE {}

LEMMA KnownSound ==
    ASSUME BaseInv, Worker, NEW i \in Instances, NEW p \in Known(i)
    PROVE  p \in Pairs /\ Sound(p, live, excused, cache, job)
BY OwnState DEF Worker, PairsSound, Known

\* A pair stays sound while upstream and the service stand still and no rotated
\* pair is dropped without an excuse.
LEMMA SoundStays ==
    ASSUME NEW p, Sound(p, live, excused, cache, job),
           UNCHANGED << cache, live >>, excused \subseteq excused',
           \A g : g \notin excused' /\ Carried(job, g) => Carried(job', g)
    PROVE  Sound(p, live', excused', cache', job')
BY DEF Sound

\* A step of instance i that neither rotates nor hands over.
LEMMA QuietStep ==
    ASSUME BaseInv, BaseInv', Worker, NEW i \in Instances,
           UNCHANGED << cache, live >>, excused \subseteq excused',
           \A j \in Instances \ {i} : job'[j] = job[j] /\ file'[j] = file[j],
           \* i takes up no pair it did not know,
           file'[i] \in Known(i) \cup {NoPair},
           Works(job'[i]) => job'[i].pair \in Known(i),
           job'[i].pc \notin {"looked", "caching"},
           \* starts no call under the lock,
           Flies(job'[i]) => Flies(job[i]) /\ job'[i].pair = job[i].pair,
           \* drops no rotated pair without an excuse,
           Carries(job[i]) /\ job[i].pair.grant \notin excused' =>
               Carries(job'[i]) /\ job'[i].pair = job[i].pair,
           \* and leaves the lock with a holder that uses it.
           \A j \in Instances : Flies(job'[j]) =>
               /\ lock' = j => lock = j
               /\ lock = j /\ job'[j].pair.grant \notin excused' => lock' = j
    PROVE  Worker'
<1>1. OneStepService'
  BY DEF Worker, OneStepService
<1>2. \A j \in Instances : Flies(job'[j]) => Flies(job[j]) /\ job'[j].pair = job[j].pair
  OBVIOUS
<1>3. HolderIsLive'
  BY <1>2 DEF Worker, HolderIsLive
<1>4. HolderIsAhead'
  BY <1>2 DEF Worker, HolderIsAhead
<1>5. ASSUME NEW g, g \notin excused', Carried(job, g) PROVE Carried(job', g)
  <2>1. PICK j \in Instances : Carries(job[j]) /\ job[j].pair.grant = g
    BY <1>5 DEF Carried
  <2>2. Carries(job'[j]) /\ job'[j].pair.grant = g
    BY <1>5, <2>1
  <2> QED BY <2>2 DEF Carried
<1>6. \A p : Sound(p, live, excused, cache, job) => Sound(p, live', excused', cache', job')
  BY <1>5, SoundStays
<1>7. ASSUME NEW j \in Instances
      PROVE  /\ Sound(file'[j], live', excused', cache', job')
             /\ Works(job'[j]) => Sound(job'[j].pair, live', excused', cache', job')
  <2>1. CASE j = i
    <3>1. \A p \in Known(i) : Sound(p, live', excused', cache', job')
      BY <1>6, KnownSound
    <3>2. Sound(NoPair, live', excused', cache', job')
      BY DEF Sound
    <3> QED BY <2>1, <3>1, <3>2
  <2>2. CASE j # i
    BY <1>6, <2>2 DEF Worker, PairsSound
  <2> QED BY <2>1, <2>2
<1>8. PairsSound'
  BY <1>6, <1>7 DEF Worker, PairsSound
<1> QED BY <1>1, <1>3, <1>4, <1>8 DEF Worker

\* A quiet step that leaves the lock and the excuses alone, of an instance that
\* is not in a refresh under the lock, or gives it up before the rotation.
LEMMA LockFreeStep ==
    ASSUME BaseInv, BaseInv', Worker, NEW i \in Instances,
           UNCHANGED << cache, live, lock, excused >>,
           \A j \in Instances \ {i} : job'[j] = job[j] /\ file'[j] = file[j],
           file'[i] \in Known(i) \cup {NoPair},
           Works(job'[i]) => job'[i].pair \in Known(i),
           job'[i].pc \notin {"looked", "caching"},
           ~Flies(job'[i]), ~Carries(job[i])
    PROVE  Worker'
BY QuietStep

\* Returning leaves the pair behind, with the job or without it.
LEMMA ReturnsJob ==
    ASSUME BaseInv, NEW i \in Instances, NEW p, Returns(i, p)
    PROVE  /\ \A j \in Instances \ {i} : job'[j] = job[j]
           /\ job'[i].pc \in {"idle", "identifying"}
           /\ Works(job'[i]) => job'[i].pair = p
           /\ ~Flies(job'[i])
<1>1. job \in [Instances -> Jobs]
  BY DEF BaseInv, TypeOK
<1>2. CASE Ends(i)
  BY <1>1, <1>2 DEF Ends, NoJob, Works, Flies
<1>3. CASE job' = [job EXCEPT ![i].pc = "identifying", ![i].pair = p]
  <2>1. job'[i].pc = "identifying" /\ job'[i].pair = p
    BY <1>1, <1>3 DEF Jobs
  <2> QED BY <1>1, <1>3, <2>1 DEF Flies
<1> QED BY <1>2, <1>3 DEF Returns

\* A failure ends the flight.
LEMMA FailsJob ==
    ASSUME BaseInv, NEW i \in Instances, Fails(i)
    PROVE  /\ \A j \in Instances \ {i} : job'[j] = job[j]
           /\ job'[i].pc \in {"idle", "failing"}
           /\ Works(job'[i]) => job'[i].pair = job[i].pair
           /\ ~Flies(job'[i])
<1>1. job \in [Instances -> Jobs]
  BY DEF BaseInv, TypeOK
<1>2. CASE Ends(i)
  BY <1>1, <1>2 DEF Ends, NoJob, Works, Flies
<1>3. CASE Goes(i, "failing")
  <2>1. job'[i].pc = "failing" /\ job'[i].pair = job[i].pair
    BY <1>1, <1>3 DEF Goes, Jobs
  <2> QED BY <1>1, <1>3, <2>1 DEF Goes, Flies
<1> QED BY <1>2, <1>3 DEF Fails

LEMMA PeekWorker ==
    ASSUME BaseInv, BaseInv', Worker, NEW i \in Instances, Tick(i) \/ Peek(i) \/ NotDue(i) \/ Due(i)
    PROVE  Worker'
<1>0. job \in [Instances -> Jobs] /\ file \in [Instances -> Pairs]
  BY DEF BaseInv, TypeOK
<1>1. job[i].pc \in {"idle", "peeking", "adopting", "deciding"}
  BY DEF Tick, Peek, PeekAnswered, AdoptSeat, PeekLost, NotDue, Due, At
<1>2. ~Carries(job[i])
  BY <1>1 DEF Carries
<1>3. UNCHANGED << cache, live, lock, excused >>
  BY DEF Tick, Peek, PeekAnswered, AdoptSeat, PeekLost, NotDue, Due
<1>4. \A j \in Instances \ {i} : job'[j] = job[j] /\ file'[j] = file[j]
  BY <1>0 DEF Tick, Peek, PeekAnswered, AdoptSeat, PeekLost, NotDue, Due, Goes, Ends
<1>5. file'[i] \in Known(i) \cup {NoPair}
  <2>1. CASE PeekAnswered(i)
    <3> DEFINE adopted == Adopted(SharedWith(job[i].pair), file[i], job[i].pair)
    <3>1. adopted \in {file[i], cache, NoPair}
      BY DEF Adopted, SharedWith
    <3>2. file'[i] = IF adopted # NoPair THEN adopted ELSE file[i]
      BY <1>0, <2>1 DEF PeekAnswered
    <3> QED BY <3>1, <3>2 DEF Known
  <2>2. CASE ~PeekAnswered(i)
    BY <2>2 DEF Tick, Peek, AdoptSeat, PeekLost, NotDue, Due, Known
  <2> QED BY <2>1, <2>2
<1>6. job'[i].pc \in {"peeking", "adopting", "deciding", "idle", "acquiring"}
      /\ (job'[i].pc = "acquiring" => job'[i].pair = file[i])
  <2>1. CASE Tick(i) \/ Due(i)
    BY <1>0, <2>1 DEF Tick, Due, NoJob
  <2>2. CASE PeekAnswered(i)
    <3>1. job'[i].pc = "adopting"
      BY <1>0, <2>2 DEF PeekAnswered, Jobs
    <3> QED BY <3>1
  <2>3. CASE AdoptSeat(i) \/ PeekLost(i)
    <3>1. job'[i].pc = "deciding"
      BY <1>0, <2>3 DEF AdoptSeat, PeekLost, Goes, Jobs
    <3> QED BY <3>1
  <2>4. CASE NotDue(i)
    BY <1>0, <2>4 DEF NotDue, Ends, NoJob
  <2> QED BY <2>1, <2>2, <2>3, <2>4 DEF Peek
<1>7. Works(job'[i]) => job'[i].pair \in Known(i)
  BY <1>6 DEF Works, Known
<1>8. ~Flies(job'[i])
  BY <1>6 DEF Flies
<1> QED BY <1>2, <1>3, <1>4, <1>5, <1>6, <1>7, <1>8, LockFreeStep

LEMMA TakeOverWorker ==
    ASSUME BaseInv, BaseInv', Worker, NEW i \in Instances, TakeOver(i) \/ FindLocked(i) \/ GiveUp(i)
    PROVE  Worker'
<1>0. job \in [Instances -> Jobs] /\ file \in [Instances -> Pairs] /\ OneStepService
  BY DEF BaseInv, TypeOK, Worker
<1>1. job[i].pc = "acquiring" /\ job[i].leased = FALSE
  BY <1>0, OwnState DEF TakeOver, FindLocked, GiveUp, MayLock, Trying, At, OneStepService, WellFormed
<1>2. ~Carries(job[i]) /\ job[i].pair \in Known(i) /\ file[i] \in Known(i) /\ cache \in Known(i)
  BY <1>1 DEF Carries, Known, Works
<1>3. UNCHANGED << cache, live, lock, excused >>
  BY DEF TakeOver, FindLocked, GiveUp
<1>4. CASE TakeOver(i) /\ Returns(i, cache)
  <2>1. \A j \in Instances \ {i} : file'[j] = file[j]
    BY <1>0, <1>4 DEF TakeOver
  <2>2. file'[i] = cache
    BY <1>0, <1>4 DEF TakeOver
  <2> QED BY <1>2, <1>3, <1>4, <2>1, <2>2, ReturnsJob, LockFreeStep
<1>5. CASE TakeOver(i) /\ job' = [job EXCEPT ![i].pair = cache, ![i].attempts = @ + 1]
  <2>1. \A j \in Instances \ {i} : job'[j] = job[j] /\ file'[j] = file[j]
    BY <1>0, <1>5 DEF TakeOver
  <2>2. file'[i] = cache /\ job'[i].pair = cache /\ job'[i].pc = "acquiring"
    BY <1>0, <1>1, <1>5 DEF TakeOver, Jobs
  <2>3. ~Flies(job'[i])
    BY <2>2 DEF Flies
  <2> QED BY <1>2, <1>3, <2>1, <2>2, <2>3, LockFreeStep
<1>6. CASE FindLocked(i) \/ GiveUp(i)
  <2>1. \A j \in Instances \ {i} : job'[j] = job[j] /\ file'[j] = file[j]
    BY <1>0, <1>6 DEF FindLocked, GiveUp, Goes
  <2>2. /\ file'[i] = file[i] /\ job'[i].pair = job[i].pair
        /\ job'[i].pc \in {"acquiring", "calling"} /\ job'[i].leased = FALSE
    BY <1>0, <1>1, <1>6 DEF FindLocked, GiveUp, Goes, Jobs
  <2>3. ~Flies(job'[i])
    BY <2>2 DEF Flies
  <2> QED BY <1>2, <1>3, <2>1, <2>2, <2>3, LockFreeStep
<1> QED BY <1>4, <1>5, <1>6 DEF TakeOver

\* The lost answer may have given i the lock, but i does not refresh as its holder.
LEMMA LockCallLostWorker ==
    ASSUME BaseInv, BaseInv', Worker, NEW i \in Instances, LockCallLost(i)
    PROVE  Worker'
<1>0. job \in [Instances -> Jobs] /\ file \in [Instances -> Pairs] /\ OneStepService
      /\ Nobody \notin Instances
  BY InstancesAssumption DEF BaseInv, TypeOK, Worker
<1>1. job[i].pc = "acquiring" /\ job[i].leased = FALSE
  BY <1>0, OwnState DEF LockCallLost, Trying, At, OneStepService, WellFormed
<1>2. ~Carries(job[i]) /\ job[i].pair \in Known(i) /\ file[i] \in Known(i)
  BY <1>1 DEF Carries, Known, Works
<1>3. UNCHANGED << cache, live, excused, file >>
  BY DEF LockCallLost
<1>4. \A j \in Instances \ {i} : job'[j] = job[j]
  BY <1>0 DEF LockCallLost, Goes, Ends
<1>5. /\ job'[i].pc \in {"idle", "calling"} /\ job'[i].leased = FALSE
      /\ Works(job'[i]) => job'[i].pair = job[i].pair
  BY <1>0, <1>1 DEF LockCallLost, Goes, Ends, NoJob, Jobs, Works
<1>6. ~Flies(job'[i])
  BY <1>5 DEF Flies
<1>7. \A j \in Instances : j # i => (lock' = j <=> lock = j)
  BY <1>0 DEF LockCallLost
<1> QED BY <1>2, <1>3, <1>4, <1>5, <1>6, <1>7, QuietStep

LEMMA FailureWorker ==
    ASSUME BaseInv, BaseInv', Worker, NEW i \in Instances, Refused(i) \/ AnswerLost(i)
    PROVE  Worker'
<1>0. job \in [Instances -> Jobs]
  BY DEF BaseInv, TypeOK
<1>1. UNCHANGED << cache, live, lock, file >> /\ Fails(i)
  BY DEF Refused, AnswerLost
<1>2. /\ excused \subseteq excused'
      /\ Carries(job[i]) => job[i].pair.grant \in excused'
  BY DEF Refused, AnswerLost, At, Carries
<1>3. file[i] \in Known(i) /\ job[i].pair \in Known(i)
  BY DEF Refused, AnswerLost, At, Works, Known
<1> QED BY <1>0, <1>1, <1>2, <1>3, FailsJob, QuietStep

\* saveAccount: under the lock the pair is still on its way to the service; a
\* refresh without the lock excused its grant when it rotated.
LEMMA SaveWorker ==
    ASSUME BaseInv, BaseInv', Worker, NEW i \in Instances, Save(i)
    PROVE  Worker'
<1>0. job \in [Instances -> Jobs] /\ file \in [Instances -> Pairs]
  BY DEF BaseInv, TypeOK
<1>1. UNCHANGED << cache, live, lock, excused >>
  BY DEF Save
<1>2. job[i].pair \in Known(i) /\ file'[i] = job[i].pair
      /\ \A j \in Instances \ {i} : file'[j] = file[j]
  BY <1>0 DEF Save, At, Works, Known
<1>3. CASE job[i].leased
  <2>1. /\ job'[i].pc = "releasing" /\ job'[i].pair = job[i].pair /\ job'[i].leased
        /\ \A j \in Instances \ {i} : job'[j] = job[j]
    BY <1>0, <1>3 DEF Save, Goes, Jobs
  <2>2. Flies(job[i]) /\ Carries(job'[i])
    BY <1>3, <2>1 DEF Save, At, Flies, Carries
  <2> QED BY <1>1, <1>2, <2>1, <2>2, QuietStep
<1>4. CASE ~job[i].leased
  <2>1. ~Carries(job[i]) /\ Returns(i, job[i].pair)
    BY <1>4 DEF Save, Carries
  <2>2. \A j \in Instances \ {i} : job'[j] = job[j] /\ file'[j] = file[j]
    BY <1>2, <2>1, ReturnsJob
  <2>3. /\ Works(job'[i]) => job'[i].pair \in Known(i)
        /\ job'[i].pc \notin {"looked", "caching"} /\ ~Flies(job'[i])
    BY <1>2, <2>1, ReturnsJob
  <2> QED BY <1>1, <1>2, <2>1, <2>2, <2>3, LockFreeStep
<1> QED BY <1>3, <1>4

LEMMA IdentifyWorker ==
    ASSUME BaseInv, BaseInv', Worker, NEW i \in Instances, Identify(i)
    PROVE  Worker'
<1>0. job \in [Instances -> Jobs] /\ file \in [Instances -> Pairs]
  BY DEF BaseInv, TypeOK
<1>1. UNCHANGED << cache, live, lock, excused >>
  BY DEF Identify
<1>2. file'[i] \in Known(i) /\ \A j \in Instances \ {i} : file'[j] = file[j]
  BY <1>0 DEF Identify, At, Works, Known
<1>3. ~Carries(job[i])
  BY DEF Identify, At, Carries
<1>4. job'[i] = NoJob /\ \A j \in Instances \ {i} : job'[j] = job[j]
  BY <1>0 DEF Identify, Ends
<1>5. ~Flies(NoJob) /\ ~Works(NoJob) /\ NoJob.pc \notin {"looked", "caching"}
  BY DEF NoJob, Flies, Works
<1> QED BY <1>1, <1>2, <1>3, <1>4, <1>5, LockFreeStep

\* A hand-over that does not reach the service, or is refused there because the
\* lease had run out: either way the grant is excused by now.
LEMMA HandOverLostWorker ==
    ASSUME BaseInv, BaseInv', Worker, NEW i \in Instances,
           HandOverLost(i) \/ (HandOver(i) /\ ~MayRelease(i))
    PROVE  Worker'
<1>0. job[i].pc = "releasing" /\ Carries(job[i]) /\ Flies(job[i])
  BY OwnState DEF HandOverLost, HandOver, At, WellFormed, Carries, Flies
<1>1. UNCHANGED << cache, live, lock, file >> /\ Returns(i, job[i].pair) /\ excused \subseteq excused'
  BY DEF HandOverLost, HandOver
<1>2. job[i].pair.grant \in excused'
  <2>1. CASE HandOverLost(i)
    BY <2>1 DEF HandOverLost
  <2>2. CASE HandOver(i) /\ ~MayRelease(i)
    BY <1>0, <1>1, <2>2 DEF Worker, HolderIsLive, MayRelease
  <2> QED BY <2>1, <2>2
<1>3. file[i] \in Known(i) /\ job[i].pair \in Known(i)
  BY <1>0 DEF Works, Known
<1> QED BY <1>0, <1>1, <1>2, <1>3, ReturnsJob, QuietStep

LEMMA ReleaseFailedWorker ==
    ASSUME BaseInv, BaseInv', Worker, NEW i \in Instances, ReleaseFailed(i)
    PROVE  Worker'
<1>0. job \in [Instances -> Jobs] /\ Nobody \notin Instances
  BY InstancesAssumption DEF BaseInv, TypeOK
<1>1. UNCHANGED << cache, live, excused, file >>
  BY DEF ReleaseFailed
<1>2. ~Carries(job[i]) /\ file[i] \in Known(i)
  BY DEF ReleaseFailed, At, Carries, Known
<1>3. job'[i] = NoJob /\ \A j \in Instances \ {i} : job'[j] = job[j]
  BY <1>0 DEF ReleaseFailed, Ends
<1>4. ~Flies(NoJob) /\ ~Works(NoJob) /\ NoJob.pc \notin {"looked", "caching"}
  BY DEF NoJob, Flies, Works
<1>5. \A j \in Instances : j # i => (lock' = j <=> lock = j)
  BY <1>0 DEF ReleaseFailed, MayRelease
<1> QED BY <1>1, <1>2, <1>3, <1>4, <1>5, QuietStep

LEMMA RestartWorker ==
    ASSUME BaseInv, BaseInv', Worker, NEW i \in Instances, Restart(i)
    PROVE  Worker'
<1>0. job \in [Instances -> Jobs]
  BY DEF BaseInv, TypeOK
<1>1. UNCHANGED << cache, live, lock, file >> /\ excused \subseteq excused'
  BY DEF Restart
<1>2. Carries(job[i]) => job[i].pair.grant \in excused'
  BY DEF Restart, Carries
<1>3. job'[i] = NoJob /\ \A j \in Instances \ {i} : job'[j] = job[j]
  BY <1>0 DEF Restart, Ends
<1>4. ~Flies(NoJob) /\ ~Works(NoJob) /\ NoJob.pc \notin {"looked", "caching"}
  BY DEF NoJob, Flies, Works
<1>5. file[i] \in Known(i)
  BY DEF Known
<1> QED BY <1>1, <1>2, <1>3, <1>4, <1>5, QuietStep

\* Removing and reconciling touch no job and bring in no pair.
LEMMA RemoveWorker ==
    ASSUME BaseInv, BaseInv', Worker, NEW i \in Instances, Remove(i) \/ Reconcile(i)
    PROVE  Worker'
<1>0. file \in [Instances -> Pairs]
  BY DEF BaseInv, TypeOK
<1>1. UNCHANGED << cache, live, lock, excused, job >>
  BY DEF Remove, Reconcile
<1>2. file'[i] \in {file[i], NoPair} /\ \A j \in Instances \ {i} : file'[j] = file[j]
  BY <1>0 DEF Remove, Reconcile
<1>3. file[i] \in Known(i) /\ (Works(job[i]) => job[i].pair \in Known(i))
  BY DEF Known
<1>4. job[i].pc \notin {"looked", "caching"}
  BY DEF Worker, OneStepService
<1> QED BY <1>1, <1>2, <1>3, <1>4, QuietStep

\* The lease runs out: whoever was still using it is excused.
LEMMA LeaseWorker ==
    ASSUME BaseInv, BaseInv', Worker, LeaseExpires
    PROVE  Worker'
<1>0. lock \in Instances /\ lock' = Nobody /\ Nobody \notin Instances
  BY InstancesAssumption DEF LeaseExpires, BaseInv, TypeOK
<1>1. UNCHANGED << cache, live, file, job >> /\ excused \subseteq excused'
  BY DEF LeaseExpires
<1>2. Flies(job[lock]) => job[lock].pair.grant \in excused'
  BY DEF LeaseExpires, Flies
<1>3. file[lock] \in Known(lock) /\ (Works(job[lock]) => job[lock].pair \in Known(lock))
  BY DEF Known
<1>4. job[lock].pc \notin {"looked", "caching"}
  BY <1>0 DEF Worker, OneStepService
<1>5. \A j \in Instances : Flies(job'[j]) =>
        /\ lock' = j => lock = j
        /\ lock = j /\ job'[j].pair.grant \notin excused' => lock' = j
  BY <1>0, <1>1, <1>2
<1> QED BY <1>0, <1>1, <1>3, <1>4, <1>5, QuietStep

\* The lock is given to a caller the service has nothing newer for.  Nobody holds
\* it, so nobody carries a rotated pair of an unexcused grant: what is left of a
\* sound pair is that it is live.
LEMMA TakeLockWorker ==
    ASSUME BaseInv, BaseInv', Worker, backend = "worker", NEW i \in Instances, TakeLock(i)
    PROVE  Worker'
<1> DEFINE g == job[i].pair.grant
<1>0. job \in [Instances -> Jobs] /\ Nobody \notin Instances
  BY InstancesAssumption DEF BaseInv, TypeOK
<1>1. UNCHANGED << cache, live, excused, file >> /\ lock = Nobody /\ lock' = i
  BY DEF TakeLock
<1>2. job[i].pc = "acquiring" /\ ~Newer(cache, job[i].pair)
  BY DEF TakeLock, MayLock, Trying, At, Worker, OneStepService
<1>3. /\ job'[i].pc = "calling" /\ job'[i].pair = job[i].pair
      /\ \A j \in Instances \ {i} : job'[j] = job[j]
  BY <1>0 DEF TakeLock, Jobs
<1>4. \A j \in Instances : Carries(job'[j]) <=> Carries(job[j]) /\ j # i
  BY <1>2, <1>3 DEF Carries
<1>5. \A j \in Instances : Flies(job[j]) => job[j].pair.grant \in excused
  BY <1>0, <1>1 DEF Worker, HolderIsLive
<1>6. \A h : h \notin excused => ~Carried(job, h)
  BY <1>5 DEF Carried, Carries, Flies
<1>7. OneStepService'
  BY <1>3 DEF Worker, OneStepService
<1>8. Sound(job[i].pair, live, excused, cache, job) /\ job[i].pair # NoPair
  BY <1>2, OwnState DEF Worker, PairsSound, Works, WellFormed
<1>9. g \notin excused => live[g] = job[i].pair.serial
  BY <1>2, <1>6, <1>8 DEF Sound
<1>10. HolderIsLive'
  <2> SUFFICES ASSUME NEW j \in Instances, Flies(job'[j]), job'[j].pair.grant \notin excused'
               PROVE  lock' = j /\ live'[job'[j].pair.grant] = job'[j].pair.serial
    BY DEF HolderIsLive
  <2>1. j = i
    BY <1>1, <1>3, <1>5
  <2> QED BY <1>1, <1>3, <1>9, <2>1
<1>11. HolderIsAhead'
  BY <1>1, <1>2, <1>3 DEF HolderIsAhead
<1>12. \A p : Sound(p, live, excused, cache, job) => Sound(p, live', excused', cache', job')
  BY <1>1, <1>6, SoundStays
<1>13. PairsSound'
  <2>1. ASSUME NEW j \in Instances
        PROVE  Works(job'[j]) => Sound(job'[j].pair, live', excused', cache', job')
    BY <1>2, <1>3, <1>8, <1>12 DEF Worker, PairsSound, Works
  <2> QED BY <1>1, <1>12, <2>1 DEF Worker, PairsSound
<1> QED BY <1>7, <1>10, <1>11, <1>13 DEF Worker

\* Upstream issues the next pair.  Every other pair of the grant is dead from now
\* on; under the lock the caller carries the new one, without it the grant is
\* excused.
LEMMA RotateWorker ==
    ASSUME BaseInv, BaseInv', Worker, NEW i \in Instances, Rotate(i)
    PROVE  Worker'
<1> DEFINE g == job[i].pair.grant
<1>0. job \in [Instances -> Jobs] /\ live \in [Grants -> 0..MaxSerial] /\ issued \in Nat
  BY BoundsAssumption DEF BaseInv, TypeOK, Serials
<1>1. job[i].pc = "calling" /\ g \in Grants /\ job[i].pair \in Pairs /\ live[g] = job[i].pair.serial
  BY OwnState DEF Rotate, At, Works
<1>2. UNCHANGED << cache, lock, file >> /\ live' = [live EXCEPT ![g] = issued + 1]
  BY DEF Rotate
<1>3. /\ excused \subseteq excused'
      /\ g \notin excused' => job[i].leased
      /\ \A h : h # g => (h \in excused' <=> h \in excused)
  BY DEF Rotate
<1>4. /\ job'[i].pc = "rotated" /\ job'[i].leased = job[i].leased
      /\ job'[i].pair.grant = g /\ job'[i].pair.serial = issued + 1
      /\ \A j \in Instances \ {i} : job'[j] = job[j]
  BY <1>0, <1>1 DEF Rotate, Jobs, Pairs, NoPair
<1>5. job[i].leased => Flies(job[i])
  BY <1>1 DEF Flies
<1>6. Flies(job'[i]) <=> job[i].leased
  BY <1>4 DEF Flies
<1> HIDE DEF g
<1>7. live'[g] = issued + 1 /\ \A h \in Grants : h # g => live'[h] = live[h]
  BY <1>0, <1>1, <1>2
<1>8. \A h \in Grants : live[h] \in Nat /\ live[h] <= live'[h]
  BY <1>0, <1>7, BoundsAssumption DEF BaseInv, SerialsIssued
<1>9. OneStepService'
  BY <1>4 DEF Worker, OneStepService
<1>10. HolderIsLive'
  <2> SUFFICES ASSUME NEW j \in Instances, Flies(job'[j]), job'[j].pair.grant \notin excused'
               PROVE  lock' = j /\ live'[job'[j].pair.grant] = job'[j].pair.serial
    BY DEF HolderIsLive
  <2>1. CASE j = i
    BY <1>2, <1>3, <1>4, <1>5, <1>6, <1>7, <2>1 DEF Worker, HolderIsLive, g
  <2>2. CASE j # i
    <3>1. job'[j] = job[j] /\ lock = j /\ live[job[j].pair.grant] = job[j].pair.serial
          /\ job[j].pair.grant \in Grants
      BY <1>3, <1>4, <2>2, OwnState DEF Worker, HolderIsLive, Flies, Works
    <3>2. job[j].pair.grant # g
      \* A rotation of this grant either is another holder's or excuses it.
      <4> SUFFICES ASSUME job[j].pair.grant = g PROVE FALSE
        OBVIOUS
      <4>1. job[i].leased /\ g \notin excused
        BY <1>3, <3>1
      <4>2. lock = i
        BY <1>5, <4>1 DEF Worker, HolderIsLive, g
      <4> QED BY <2>2, <3>1, <4>2
    <3> QED BY <1>2, <1>7, <3>1, <3>2
  <2> QED BY <2>1, <2>2
<1>11. HolderIsAhead'
  <2> SUFFICES ASSUME NEW j \in Instances, Flies(job'[j]), lock = j
               PROVE  ~Newer(cache, job'[j].pair)
    BY <1>2 DEF HolderIsAhead
  <2>1. CASE j = i
    <3>1. ~Newer(cache, job[i].pair)
      BY <1>5, <1>6, <2>1 DEF Worker, HolderIsAhead
    <3>2. job[i].pair.serial <= issued /\ job[i].pair.serial \in Nat /\ cache.serial \in Nat /\ cache.grant \in Nat
          /\ g \in Nat
      BY <1>0, <1>1, OwnState, PairFields DEF BaseInv, SerialsIssued, g
    <3> QED BY <1>0, <1>4, <2>1, <3>1, <3>2 DEF Newer, g
  <2>2. CASE j # i
    BY <1>4, <2>2 DEF Worker, HolderIsAhead
  <2> QED BY <2>1, <2>2
<1>12. \A h : Carried(job, h) => Carried(job', h)
  BY <1>1, <1>4 DEF Carried, Carries
<1>13. g \notin excused' => Carried(job', g)
  BY <1>3, <1>4 DEF Carried, Carries
<1>14. ASSUME NEW p \in Pairs, Sound(p, live, excused, cache, job)
       PROVE  Sound(p, live', excused', cache', job')
  <2> SUFFICES ASSUME p # NoPair
               PROVE  /\ p.serial <= live'[p.grant]
                      /\ p.grant \notin excused' =>
                           p.serial = live'[p.grant] \/ Newer(cache', p) \/ Carried(job', p.grant)
    BY DEF Sound
  <2>1. p.grant \in Grants /\ p.serial \in Nat
    BY PairFields
  <2>2. p.serial <= live'[p.grant]
    BY <1>0, <1>7, <1>8, <1>14, <2>1 DEF Sound
  <2>3. CASE p.grant = g
    BY <1>13, <2>2, <2>3
  <2>4. CASE p.grant # g
    BY <1>2, <1>3, <1>7, <1>12, <1>14, <2>1, <2>2, <2>4 DEF Sound
  <2> QED BY <2>3, <2>4
<1>15. Sound(job'[i].pair, live', excused', cache', job')
  <2>1. job'[i].pair.serial <= live'[job'[i].pair.grant]
    BY <1>0, <1>4, <1>7
  <2> QED BY <1>4, <1>7, <2>1 DEF Sound
<1>16. PairsSound'
  <2>1. cache \in Pairs /\ \A j \in Instances : file[j] \in Pairs /\ job[j].pair \in Pairs
    BY OwnState
  <2>2. ASSUME NEW j \in Instances, Works(job'[j])
        PROVE  Sound(job'[j].pair, live', excused', cache', job')
    BY <1>4, <1>14, <1>15, <2>1, <2>2 DEF Worker, PairsSound
  <2> QED BY <1>2, <1>14, <2>1, <2>2 DEF Worker, PairsSound
<1> QED BY <1>9, <1>10, <1>11, <1>16 DEF Worker

\* A login issues the first pair of its grant: nobody holds an older one.
LEMMA LoginWorker ==
    ASSUME BaseInv, BaseInv', Worker, NEW i \in Instances, Login(i)
    PROVE  Worker'
<1>0. live \in [Grants -> 0..MaxSerial] /\ file \in [Instances -> Pairs] /\ issued \in Nat
  BY BoundsAssumption DEF BaseInv, TypeOK, Serials
<1>1. PICK g \in Grants :
        /\ live[g] = 0
        /\ live' = [live EXCEPT ![g] = issued + 1]
        /\ file' = [file EXCEPT ![i] = [grant |-> g, serial |-> issued + 1]]
  BY DEF Login
<1>2. UNCHANGED << cache, lock, excused, job >>
  BY DEF Login
<1>3. live'[g] = issued + 1 /\ \A h \in Grants : h # g => live'[h] = live[h]
  BY <1>0, <1>1
<1>4. ASSUME NEW p \in Pairs, p # NoPair, p.serial <= live[p.grant]
      PROVE  p.grant \in Grants /\ p.grant # g
  BY <1>1, <1>4, PairFields, BoundsAssumption DEF Serials
<1>5. ASSUME NEW p \in Pairs, Sound(p, live, excused, cache, job)
      PROVE  Sound(p, live', excused', cache', job')
  BY <1>2, <1>3, <1>4, <1>5 DEF Sound
<1>6. Sound(file'[i], live', excused', cache', job')
  <2>1. file'[i].grant = g /\ file'[i].serial = issued + 1
    BY <1>0, <1>1
  <2> QED BY <1>0, <1>3, <2>1 DEF Sound
<1>7. PairsSound'
  <2>1. cache \in Pairs /\ \A j \in Instances : file[j] \in Pairs /\ job[j].pair \in Pairs
    BY OwnState
  <2>2. \A j \in Instances : j # i => file'[j] = file[j]
    BY <1>0, <1>1
  <2> QED BY <1>2, <1>5, <1>6, <2>1, <2>2 DEF Worker, PairsSound
<1>8. HolderIsLive'
  <2> SUFFICES ASSUME NEW j \in Instances, Flies(job[j]), job[j].pair.grant \notin excused
               PROVE  lock = j /\ live'[job[j].pair.grant] = job[j].pair.serial
    BY <1>2 DEF HolderIsLive
  <2>1. lock = j /\ live[job[j].pair.grant] = job[j].pair.serial
    BY DEF Worker, HolderIsLive
  <2>2. job[j].pair \in Pairs /\ job[j].pair # NoPair /\ job[j].pair.serial <= live[job[j].pair.grant]
    BY OwnState DEF Worker, PairsSound, Sound, WellFormed, Flies, Works
  <2> QED BY <1>3, <1>4, <2>1, <2>2
<1>9. OneStepService' /\ HolderIsAhead'
  BY <1>2 DEF Worker, OneStepService, HolderIsAhead
<1> QED BY <1>7, <1>8, <1>9 DEF Worker

\* The service takes the holder's pair: from now on every other pair of its grant
\* is older than what the service hands out.
LEMMA HandOverWorker ==
    ASSUME BaseInv, BaseInv', Worker, backend = "worker", NEW i \in Instances,
           HandOver(i), MayRelease(i)
    PROVE  Worker' /\ ~Newer(cache, cache')
<1> DEFINE p0 == job[i].pair
<1>0. job \in [Instances -> Jobs] /\ Nobody \notin Instances
  BY InstancesAssumption DEF BaseInv, TypeOK
<1>1. job[i].pc = "releasing" /\ Flies(job[i]) /\ lock = i
  BY OwnState DEF HandOver, MayRelease, At, WellFormed, Flies
<1>2. /\ cache' = p0 /\ lock' = Nobody /\ Returns(i, p0)
      /\ UNCHANGED << live, excused, file >>
  BY DEF HandOver
<1>3. /\ \A j \in Instances \ {i} : job'[j] = job[j]
      /\ job'[i].pc \in {"idle", "identifying"}
      /\ Works(job'[i]) => job'[i].pair = p0
      /\ ~Flies(job'[i])
  BY <1>2, ReturnsJob
<1>4. /\ p0 \in Pairs /\ p0 # NoPair /\ cache \in Pairs /\ ~Newer(cache, p0)
      /\ Sound(p0, live, excused, cache, job)
  BY <1>1, OwnState DEF Worker, HolderIsAhead, PairsSound, WellFormed, Works
<1>5. p0.grant \notin excused => live[p0.grant] = p0.serial
  BY <1>1 DEF Worker, HolderIsLive
<1>6. \A j \in Instances : j # i /\ Flies(job[j]) => job[j].pair.grant \in excused
  BY <1>1 DEF Worker, HolderIsLive
<1>7. \A h : h \notin excused /\ Carried(job, h) => h = p0.grant
  BY <1>6 DEF Carried, Carries, Flies
<1>8. OneStepService'
  BY <1>3 DEF Worker, OneStepService
<1>9. HolderIsLive'
  BY <1>2, <1>3, <1>6 DEF HolderIsLive
<1>10. HolderIsAhead'
  BY <1>0, <1>2 DEF HolderIsAhead
<1>11. ASSUME NEW p \in Pairs, Sound(p, live, excused, cache, job)
       PROVE  Sound(p, live', excused', cache', job')
  <2> SUFFICES ASSUME p # NoPair, p.grant \notin excused, p.serial # live[p.grant]
               PROVE  Newer(p0, p)
    BY <1>2, <1>11 DEF Sound
  <2>1. CASE p.grant = p0.grant
    <3>1. p.serial <= p0.serial /\ p.serial # p0.serial
      BY <1>5, <1>11, <2>1 DEF Sound
    <3> QED BY <1>4, <2>1, <3>1, PairFields DEF Newer
  <2>2. CASE p.grant # p0.grant
    <3>1. Newer(cache, p)
      BY <1>7, <1>11, <2>2 DEF Sound
    <3> QED BY <1>4, <3>1, PairFields DEF Newer
  <2> QED BY <2>1, <2>2
<1>12. PairsSound'
  <2>1. \A j \in Instances : file[j] \in Pairs /\ job[j].pair \in Pairs
    BY OwnState
  <2>2. ASSUME NEW j \in Instances, Works(job'[j])
        PROVE  Sound(job'[j].pair, live', excused', cache', job')
    BY <1>3, <1>4, <1>11, <2>1, <2>2 DEF Worker, PairsSound
  <2>3. Sound(p0, live', excused', cache', job')
    BY <1>4, <1>11
  <2> QED BY <1>2, <1>11, <2>1, <2>2, <2>3 DEF Worker, PairsSound
<1> QED BY <1>2, <1>4, <1>8, <1>9, <1>10, <1>12 DEF Worker

\* Every step keeps the worker's invariant, and none takes its pair back.
LEMMA WorkerStep ==
    ASSUME BaseInv, BaseInv', Worker, backend = "worker", [Next]_vars
    PROVE  Worker' /\ ~Newer(cache, cache')
<1>0. cache \in Pairs /\ ~Newer(cache, cache)
  BY NewerOrder DEF BaseInv, TypeOK
<1>1. ASSUME NEW i \in Instances, Tick(i) \/ Peek(i) \/ NotDue(i) \/ Due(i)
      PROVE  Worker' /\ UNCHANGED cache
  <2>1. UNCHANGED cache
    BY <1>1 DEF Tick, Peek, PeekAnswered, AdoptSeat, PeekLost, NotDue, Due
  <2> QED BY <1>1, <2>1, PeekWorker
<1>2. ASSUME NEW i \in Instances, Acquire(i) PROVE Worker' /\ UNCHANGED cache
  <2>1. UNCHANGED cache
    BY <1>2 DEF Acquire, TakeOver, Look, TakeLock, FindLocked, LockCallLost, GiveUp
  <2>2. ~Look(i)
    BY DEF Look
  <2> QED BY <1>2, <2>1, <2>2, TakeOverWorker, TakeLockWorker, LockCallLostWorker DEF Acquire
<1>3. ASSUME NEW i \in Instances, Refresh(i) PROVE Worker' /\ UNCHANGED cache
  <2>1. UNCHANGED cache
    BY <1>3 DEF Refresh, Refused, Rotate, AnswerLost, Save, Identify
  <2> QED BY <1>3, <2>1, FailureWorker, RotateWorker, SaveWorker, IdentifyWorker DEF Refresh
<1>4. ASSUME NEW i \in Instances, Release(i) PROVE Worker' /\ ~Newer(cache, cache')
  <2>1. ~StoreHandOver(i)
    BY DEF StoreHandOver, At, Worker, OneStepService
  <2>2. CASE HandOver(i) /\ MayRelease(i)
    BY <2>2, HandOverWorker
  <2>3. CASE HandOverLost(i) \/ (HandOver(i) /\ ~MayRelease(i))
    <3>1. cache' = cache
      BY <2>3 DEF HandOverLost, HandOver
    <3> QED BY <1>0, <2>3, <3>1, HandOverLostWorker
  <2>4. CASE ReleaseFailed(i)
    <3>1. cache' = cache
      BY <2>4 DEF ReleaseFailed
    <3> QED BY <1>0, <2>4, <3>1, ReleaseFailedWorker
  <2> QED BY <1>4, <2>1, <2>2, <2>3, <2>4 DEF Release
<1>5. ASSUME NEW i \in Instances, Login(i) \/ Remove(i) \/ Reconcile(i) \/ Restart(i)
      PROVE  Worker' /\ UNCHANGED cache
  <2>1. UNCHANGED cache
    BY <1>5 DEF Login, Remove, Reconcile, Restart
  <2> QED BY <1>5, <2>1, LoginWorker, RemoveWorker, RestartWorker
<1>6. CASE LeaseExpires
  <2>1. cache' = cache
    BY <1>6 DEF LeaseExpires
  <2> QED BY <1>0, <1>6, <2>1, LeaseWorker
<1>7. CASE UNCHANGED vars
  BY <1>0, <1>7 DEF vars, Worker, OneStepService, HolderIsLive, HolderIsAhead, PairsSound
<1> QED BY <1>0, <1>1, <1>2, <1>3, <1>4, <1>5, <1>6, <1>7 DEF Next, Job

LEMMA BackendFixed == [Next]_vars => UNCHANGED backend
<1> SUFFICES ASSUME [Next]_vars PROVE UNCHANGED backend
  OBVIOUS
<1>1. ASSUME NEW i \in Instances, Tick(i) \/ Peek(i) \/ NotDue(i) \/ Due(i) PROVE UNCHANGED backend
  BY <1>1 DEF Tick, Peek, PeekAnswered, AdoptSeat, PeekLost, NotDue, Due
<1>2. ASSUME NEW i \in Instances, Acquire(i) PROVE UNCHANGED backend
  BY <1>2 DEF Acquire, TakeOver, Look, TakeLock, FindLocked, LockCallLost, GiveUp
<1>3. ASSUME NEW i \in Instances, Refresh(i) PROVE UNCHANGED backend
  BY <1>3 DEF Refresh, Refused, Rotate, AnswerLost, Save, Identify
<1>4. ASSUME NEW i \in Instances, Release(i) PROVE UNCHANGED backend
  BY <1>4 DEF Release, HandOver, StoreHandOver, HandOverLost, ReleaseFailed
<1>5. ASSUME NEW i \in Instances, Login(i) \/ Remove(i) \/ Reconcile(i) \/ Restart(i)
      PROVE  UNCHANGED backend
  BY <1>5 DEF Login, Remove, Reconcile, Restart
<1> QED BY <1>1, <1>2, <1>3, <1>4, <1>5 DEF Next, Job, LeaseExpires, vars

LEMMA WorkerInit == Init => WorkerInv
<1> SUFFICES ASSUME Init PROVE Worker
  BY DEF WorkerInv
<1>1. NoJob.pc = "idle" /\ ~Flies(NoJob) /\ ~Works(NoJob)
  BY DEF NoJob, Flies, Works
<1>2. OneStepService /\ HolderIsLive /\ HolderIsAhead
  BY <1>1 DEF Init, OneStepService, HolderIsLive, HolderIsAhead
<1>3. 1 \in Grants
  BY BoundsAssumption DEF Grants
<1>4. PairsSound
  BY <1>1, <1>3 DEF Init, PairsSound, Sound
<1> QED BY <1>2, <1>4 DEF Worker

LEMMA WorkerInvStep == BaseInv /\ BaseInv' /\ WorkerInv /\ [Next]_vars => WorkerInv'
BY WorkerStep, BackendFixed DEF WorkerInv

LEMMA WorkerHolds == RefreshSpec => [](BaseInv /\ WorkerInv)
BY BaseInit, BaseStep, WorkerInit, WorkerInvStep, PTL DEF RefreshSpec

\* A refresh made under the worker's lock presents the live token of its grant,
\* for any number of instances, refreshes, logins and failures: the one exception
\* is a grant whose handover was broken (refreshAccountToken, cloudflare/refresh-lock).
THEOREM WorkerRefreshesAreLive == RefreshSpec => []WorkerRefreshIsLive
<1>1. WorkerInv => WorkerRefreshIsLive
  BY DEF WorkerInv, Worker, HolderIsLive, WorkerRefreshIsLive, LockedRefreshIsLive, Flies, At
<1> QED BY <1>1, WorkerHolds, PTL

\* What the worker hands out is never replaced by an older pair: whoever may write
\* it was given the lock with nothing newer in store, and still holds it (release).
THEOREM WorkerOnlyAdvances == RefreshSpec => CacheOnlyAdvances
<1> DEFINE Advances == backend = "worker" => ~Newer(cache, cache')
<1>1. BaseInv /\ BaseInv' /\ WorkerInv /\ [Next]_vars => [Advances]_vars
  BY WorkerStep DEF WorkerInv
<1> QED BY <1>1, WorkerHolds, PTL DEF RefreshSpec, CacheOnlyAdvances

-----------------------------------------------------------------------------
(* The tick's takeover, for either service.                                *)

\* Only an instance's own steps move its job.
LEMMA OwnJob ==
    ASSUME BaseInv, NEW i \in Instances, NEW j \in Instances \ {i},
           Tick(j) \/ Job(j) \/ Login(j) \/ Remove(j) \/ Reconcile(j) \/ Restart(j)
    PROVE  job'[i] = job[i]
<1>0. job \in [Instances -> Jobs]
  BY DEF BaseInv, TypeOK
<1>1. CASE Tick(j) \/ Peek(j) \/ NotDue(j) \/ Due(j)
  BY <1>0, <1>1 DEF Tick, Peek, PeekAnswered, AdoptSeat, PeekLost, NotDue, Due, Goes, Ends
<1>2. CASE Acquire(j)
  BY <1>0, <1>2 DEF Acquire, TakeOver, Look, TakeLock, FindLocked, LockCallLost, GiveUp,
                    Returns, Goes, Ends
<1>3. CASE Refresh(j)
  BY <1>0, <1>3 DEF Refresh, Refused, Rotate, AnswerLost, Save, Identify, Fails, Returns, Goes, Ends
<1>4. CASE Release(j)
  BY <1>0, <1>4 DEF Release, HandOver, StoreHandOver, HandOverLost, ReleaseFailed, Returns, Goes, Ends
<1>5. CASE Login(j) \/ Remove(j) \/ Reconcile(j) \/ Restart(j)
  BY <1>0, <1>5 DEF Login, Remove, Reconcile, Restart, Ends
<1> QED BY <1>1, <1>2, <1>3, <1>4, <1>5 DEF Job

\* A tick gets from the peek to the adoption, and from there to the decision, only
\* by the answer and by the adoption itself.
LEMMA TickMoves ==
    ASSUME BaseInv, [Next]_vars, NEW i \in Instances
    PROVE  /\ At(i, "peeking") /\ job'[i].pc = "adopting" => PeekAnswered(i)
           /\ At(i, "adopting") /\ job'[i].pc = "deciding" => AdoptSeat(i)
<1> SUFFICES ASSUME \/ At(i, "peeking") /\ job'[i].pc = "adopting"
                    \/ At(i, "adopting") /\ job'[i].pc = "deciding"
             PROVE  \/ At(i, "peeking") /\ PeekAnswered(i)
                    \/ At(i, "adopting") /\ AdoptSeat(i)
  BY DEF At, PeekAnswered, AdoptSeat
<1>0. job \in [Instances -> Jobs] /\ job'[i].pc # job[i].pc /\ job' # job
  BY DEF BaseInv, TypeOK, At
<1>1. Tick(i) \/ Job(i) \/ Login(i) \/ Remove(i) \/ Reconcile(i) \/ Restart(i)
  BY <1>0, OwnJob DEF Next, LeaseExpires, vars
<1>2. ~Tick(i) /\ ~NotDue(i) /\ ~Due(i) /\ ~Acquire(i) /\ ~Refresh(i) /\ ~Release(i)
  <2>1. ~Acquire(i)
    BY DEF At, Acquire, TakeOver, Look, TakeLock, FindLocked, LockCallLost, GiveUp, MayLock, Trying
  <2>2. job[i].pc \notin {"idle", "deciding", "calling", "rotated", "identifying", "releasing",
                          "caching", "failing"}
    BY DEF At
  <2>3. ~Refresh(i)
    BY <2>2 DEF At, Refresh, Refused, Rotate, AnswerLost, Save, Identify
  <2>4. ~Release(i)
    BY <2>2 DEF At, Release, HandOver, StoreHandOver, HandOverLost, ReleaseFailed
  <2>5. ~Tick(i)
    BY <2>2 DEF At, Tick
  <2>6. ~NotDue(i) /\ ~Due(i)
    BY DEF At, NotDue, Due
  <2> QED BY <2>1, <2>3, <2>4, <2>5, <2>6
<1>3. ~Login(i) /\ ~Remove(i) /\ ~Reconcile(i) /\ ~Restart(i)
  BY <1>0 DEF Login, Remove, Reconcile, Restart, Ends, NoJob, At
<1>4. PeekLost(i) => job'[i].pc = "deciding" /\ At(i, "peeking")
  BY <1>0 DEF PeekLost, Goes, At, Jobs
<1> QED BY <1>1, <1>2, <1>3, <1>4 DEF Job, Peek, At, PeekAnswered, AdoptSeat

\* The takeover moves the file and the seat of an instance forward or not at all.
Forward(i) ==
    /\ At(i, "peeking") /\ job'[i].pc = "adopting" =>
          ~Newer(file[i], file'[i]) /\ (file[i] = NoPair <=> file'[i] = NoPair)
    /\ At(i, "adopting") /\ job'[i].pc = "deciding" =>
          ~Newer(seat[i], seat'[i]) /\ (seat[i] = NoPair <=> seat'[i] = NoPair)

LEMMA TakeoverStep ==
    ASSUME BaseInv, [Next]_vars, NEW i \in Instances
    PROVE  Forward(i)
<1>0. /\ file \in [Instances -> Pairs] /\ seat \in [Instances -> Pairs]
      /\ file[i] \in Pairs /\ seat[i] \in Pairs /\ job[i].pair \in Pairs /\ cache \in Pairs
  BY OwnState DEF BaseInv, TypeOK
<1>1. ASSUME PeekAnswered(i)
      PROVE  ~Newer(file[i], file'[i]) /\ (file[i] = NoPair <=> file'[i] = NoPair)
  <2> DEFINE adopted == Adopted(SharedWith(job[i].pair), file[i], job[i].pair)
  <2>1. file'[i] = IF adopted # NoPair THEN adopted ELSE file[i]
    BY <1>0, <1>1 DEF PeekAnswered
  <2>2. \/ adopted = NoPair \/ adopted = file[i]
        \/ adopted = cache /\ cache # NoPair /\ file[i] # NoPair /\ Newer(cache, file[i])
    BY DEF Adopted, SharedWith
  <2> HIDE DEF adopted
  <2> QED BY <1>0, <2>1, <2>2, NewerOrder
<1>2. ASSUME AdoptSeat(i)
      PROVE  ~Newer(seat[i], seat'[i]) /\ (seat[i] = NoPair <=> seat'[i] = NoPair)
  <2>1. seat'[i] = IF Replaces(seat[i], job[i].pair) THEN job[i].pair ELSE seat[i]
    BY <1>0, <1>2 DEF AdoptSeat
  <2>2. Replaces(seat[i], job[i].pair) => seat[i] # NoPair /\ Newer(job[i].pair, seat[i])
    BY DEF Replaces
  <2> QED BY <1>0, <2>1, <2>2, NewerOrder
<1> QED BY <1>1, <1>2, TickMoves DEF Forward

\* An answer to the peek, however late, takes no file and no seat back and revives
\* neither (adoptSharedCredentials, adoptPeerCredentials).
THEOREM TakeoverAdvances == RefreshSpec => TakeoverOnlyAdvances
<1> DEFINE AllForward == \A i \in Instances : Forward(i)
<1>1. BaseInv /\ [Next]_vars => [AllForward]_vars
  BY TakeoverStep
<1> QED BY <1>1, BaseHolds, PTL DEF RefreshSpec, TakeoverOnlyAdvances, Forward
=============================================================================
