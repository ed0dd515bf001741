-------------------------- MODULE TokenFamily_proof ---------------------------
(***************************************************************************)
(* Instances that share the worker keep a token family: TokenRefresh       *)
(* implements TokenFamily, for every set of instances and every number of  *)
(* logins, refreshes, attempts and failures.                               *)
(*                                                                         *)
(* A rotation, a hand-over, a login and every failure that takes a rotated *)
(* pair away is a step of the family; every other step, of which most are  *)
(* about an instance's own file, seat and job, leaves it alone.  What the  *)
(* family promises of a hand-over rests on WorkerInv: a grant that nothing *)
(* broke is carried by the holder of the lock alone, with the live pair.   *)
(***************************************************************************)
EXTENDS TokenRefresh_proof

\* The job brings the service a pair of grant g.
Brings(e, g) == Carries(e) /\ e.pair.grant = g

-----------------------------------------------------------------------------
(* Lemmas about what is under way.                                         *)

LEMMA UnderWayIsBrought ==
    \A g : g \in UnderWay <=> /\ g \in Grants /\ g \notin excused
                              /\ \E i \in Instances : Brings(job[i], g)
BY DEF UnderWay, Brings, Carries

\* Nobody but the lock's holder brings a pair of a grant that nothing broke.
LEMMA HolderAlone ==
    ASSUME Worker, NEW i \in Instances, Flies(job[i]), job[i].pair.grant \notin excused,
           NEW j \in Instances, NEW g, g \notin excused, Brings(job[j], g)
    PROVE  j = i
<1>1. Flies(job[j]) /\ job[j].pair.grant \notin excused
  BY DEF Brings, Carries, Flies
<1> QED BY <1>1 DEF Worker, HolderIsLive

\* A step that breaks the grants in G and moves no pair of another grant.
LEMMA UnderWayStays ==
    ASSUME NEW G, excused' = excused \cup G,
           \A i \in Instances : \A g \in Grants \ excused' :
               Brings(job[i], g) <=> Brings(job'[i], g)
    PROVE  UnderWay' = UnderWay \ G
<1> SUFFICES ASSUME NEW g PROVE g \in UnderWay' <=> g \in UnderWay /\ g \notin G
  OBVIOUS
<1>1. g \in UnderWay' <=> /\ g \in Grants /\ g \notin excused'
                          /\ \E i \in Instances : Brings(job'[i], g)
  BY DEF UnderWay, Brings, Carries
<1> QED BY <1>1, UnderWayIsBrought

\* A step that leaves upstream, the service and all rotated pairs where they are.
LEMMA FamilyQuiet ==
    ASSUME UNCHANGED << cache, live, issued, excused >>,
           \A i \in Instances : \A g \in Grants \ excused :
               Brings(job[i], g) <=> Brings(job'[i], g)
    PROVE  UNCHANGED Family!familyVars
<1>1. UnderWay' = UnderWay \ {}
  BY UnderWayStays
<1> QED BY <1>1 DEF Family!familyVars

\* A step that breaks the grant g, and takes at most its pairs away.
LEMMA FamilyBreaks ==
    ASSUME NEW g \in Grants, UNCHANGED << cache, live, issued >>, excused' = excused \cup {g},
           \A i \in Instances : \A h \in Grants \ excused' :
               Brings(job[i], h) <=> Brings(job'[i], h)
    PROVE  Family!Next
<1>1. UnderWay' = UnderWay \ {g}
  BY UnderWayStays
<1>2. Family!Break(g)
  BY <1>1 DEF Family!Break
<1> QED BY <1>2 DEF Family!Next, Family!Grants, Grants

-----------------------------------------------------------------------------
(* Steps of an instance that the family does not see.                      *)

\* A step of instance i alone whose job brings nothing, before or after.
LEMMA BringsNothing ==
    ASSUME NEW i \in Instances, UNCHANGED << cache, live, issued, excused >>,
           \A j \in Instances \ {i} : job'[j] = job[j],
           ~Carries(job[i]), ~Carries(job'[i])
    PROVE  UNCHANGED Family!familyVars
<1>1. \A j \in Instances : \A g : Brings(job[j], g) <=> Brings(job'[j], g)
  BY DEF Brings
<1> QED BY <1>1, FamilyQuiet

LEMMA FamilyPeek ==
    ASSUME BaseInv, NEW i \in Instances, Tick(i) \/ Peek(i) \/ NotDue(i) \/ Due(i)
    PROVE  UNCHANGED Family!familyVars
<1>0. job \in [Instances -> Jobs] /\ job[i] \in Jobs
  BY DEF BaseInv, TypeOK
<1>1. ~Carries(job[i])
  BY DEF Tick, Peek, PeekAnswered, AdoptSeat, PeekLost, NotDue, Due, At, Carries
<1>2. UNCHANGED << cache, live, issued, excused >>
  BY DEF Tick, Peek, PeekAnswered, AdoptSeat, PeekLost, NotDue, Due
<1>3. \A j \in Instances \ {i} : job'[j] = job[j]
  BY <1>0 DEF Tick, Peek, PeekAnswered, AdoptSeat, PeekLost, NotDue, Due, Goes, Ends
<1>4. job'[i].pc \in {"idle", "peeking", "adopting", "deciding", "acquiring"}
  <2>1. CASE Tick(i) \/ Due(i)
    BY <1>0, <2>1 DEF Tick, Due, NoJob
  <2>2. CASE PeekAnswered(i)
    <3> DEFINE e == [job[i] EXCEPT !.pc = "adopting",
                                   !.pair = Adopted(SharedWith(job[i].pair), file[i], job[i].pair)]
    <3>1. job'[i] = e
      BY <1>0, <2>2 DEF PeekAnswered
    <3>2. e.pc = "adopting"
      BY <1>0 DEF Jobs
    <3> QED BY <3>1, <3>2
  <2>3. CASE AdoptSeat(i) \/ PeekLost(i) \/ NotDue(i)
    BY <1>0, <2>3 DEF AdoptSeat, PeekLost, NotDue, Goes, Ends, NoJob, Jobs
  <2> QED BY <2>1, <2>2, <2>3 DEF Peek
<1>5. ~Carries(job'[i])
  BY <1>4 DEF Carries
<1> QED BY <1>1, <1>2, <1>3, <1>5, BringsNothing

LEMMA FamilyAcquire ==
    ASSUME BaseInv, NEW i \in Instances, Acquire(i)
    PROVE  UNCHANGED Family!familyVars
<1>0. job \in [Instances -> Jobs] /\ job[i] \in Jobs
  BY DEF BaseInv, TypeOK
<1>1. job[i].pc \in {"acquiring", "looked"}
  BY DEF Acquire, TakeOver, Look, TakeLock, FindLocked, LockCallLost, GiveUp, MayLock, Trying, At
<1>2. UNCHANGED << cache, live, issued, excused >>
  BY DEF Acquire, TakeOver, Look, TakeLock, FindLocked, LockCallLost, GiveUp
<1>3. /\ \A j \in Instances \ {i} : job'[j] = job[j]
      /\ job'[i].pc \in {"idle", "acquiring", "looked", "calling", "identifying"}
  <2>1. CASE TakeOver(i)
    <3>1. CASE Returns(i, cache)
      BY <3>1, ReturnsJob
    <3>2. CASE job' = [job EXCEPT ![i].pair = cache, ![i].attempts = @ + 1]
      BY <1>0, <1>1, <3>2 DEF Jobs
    <3> QED BY <2>1, <3>1, <3>2 DEF TakeOver
  <2>2. CASE Look(i) \/ LockCallLost(i) \/ GiveUp(i)
    BY <1>0, <2>2 DEF Look, LockCallLost, GiveUp, Goes, Ends, NoJob, Jobs
  <2>3. CASE TakeLock(i) \/ FindLocked(i)
    BY <1>0, <2>3 DEF TakeLock, FindLocked, Jobs
  <2> QED BY <2>1, <2>2, <2>3 DEF Acquire
<1>4. ~Carries(job[i]) /\ ~Carries(job'[i])
  BY <1>1, <1>3 DEF Carries
<1> QED BY <1>2, <1>3, <1>4, BringsNothing

\* Saving a rotated pair brings it one step further; a refusal and the profile's
\* answer bring none.
LEMMA FamilyRefreshQuiet ==
    ASSUME BaseInv, NEW i \in Instances, Refused(i) \/ Save(i) \/ Identify(i)
    PROVE  UNCHANGED Family!familyVars
<1>0. job \in [Instances -> Jobs] /\ job[i] \in Jobs
  BY DEF BaseInv, TypeOK
<1>1. UNCHANGED << cache, live, issued, excused >>
  BY DEF Refused, Save, Identify
<1>2. CASE Refused(i)
  <2>1. \A j \in Instances \ {i} : job'[j] = job[j]
    BY <1>2, FailsJob DEF Refused
  <2>2. ~Carries(job[i]) /\ ~Carries(job'[i])
    BY <1>2, FailsJob DEF Refused, At, Carries
  <2> QED BY <1>1, <2>1, <2>2, BringsNothing
<1>3. CASE Save(i) /\ job[i].leased
  <2>1. /\ \A j \in Instances \ {i} : job'[j] = job[j]
        /\ job'[i].pc = "releasing" /\ job'[i].leased /\ job'[i].pair = job[i].pair
    BY <1>0, <1>3 DEF Save, Goes, Jobs
  <2>2. Carries(job[i]) /\ Carries(job'[i])
    BY <1>3, <2>1 DEF Save, At, Carries
  <2>3. \A j \in Instances : \A g : Brings(job[j], g) <=> Brings(job'[j], g)
    BY <2>1, <2>2 DEF Brings
  <2> QED BY <1>1, <2>3, FamilyQuiet
<1>4. CASE Save(i) /\ ~job[i].leased
  <2>1. Returns(i, job[i].pair)
    BY <1>4 DEF Save
  <2>2. ~Carries(job[i]) /\ ~Carries(job'[i])
    BY <1>4, <2>1, ReturnsJob DEF Carries
  <2> QED BY <1>1, <2>1, <2>2, ReturnsJob, BringsNothing
<1>5. CASE Identify(i)
  <2>1. \A j \in Instances \ {i} : job'[j] = job[j]
    BY <1>0, <1>5 DEF Identify, Ends
  <2>2. ~Carries(job[i]) /\ ~Carries(job'[i])
    BY <1>0, <1>5 DEF Identify, At, Ends, NoJob, Carries
  <2> QED BY <1>1, <2>1, <2>2, BringsNothing
<1> QED BY <1>2, <1>3, <1>4, <1>5

\* A release that frees the lock without a pair, and what happens to the files and
\* the seats, is none of the family's business.
LEMMA FamilyOperatorQuiet ==
    ASSUME BaseInv, NEW i \in Instances, ReleaseFailed(i) \/ Remove(i) \/ Reconcile(i)
    PROVE  UNCHANGED Family!familyVars
<1>0. job \in [Instances -> Jobs]
  BY DEF BaseInv, TypeOK
<1>1. CASE ReleaseFailed(i)
  <2>1. \A j \in Instances \ {i} : job'[j] = job[j]
    BY <1>0, <1>1 DEF ReleaseFailed, Ends
  <2>2. ~Carries(job[i]) /\ ~Carries(job'[i])
    BY <1>0, <1>1 DEF ReleaseFailed, At, Ends, NoJob, Carries
  <2> QED BY <1>1, <2>1, <2>2, BringsNothing DEF ReleaseFailed
<1>2. CASE Remove(i) \/ Reconcile(i)
  BY <1>2, FamilyQuiet DEF Remove, Reconcile
<1> QED BY <1>1, <1>2

-----------------------------------------------------------------------------
(* Steps that break a grant.                                               *)

\* A step of instance i alone that breaks the grant of its job.
LEMMA BreaksOwn ==
    ASSUME BaseInv, NEW i \in Instances, Works(job[i]), UNCHANGED << cache, live, issued >>,
           excused' = excused \cup {job[i].pair.grant},
           \A j \in Instances \ {i} : job'[j] = job[j],
           ~Carries(job'[i]) \/ job'[i] = job[i]
    PROVE  Family!Next
<1> DEFINE g == job[i].pair.grant
<1>1. g \in Grants
  BY OwnState
<1>2. \A j \in Instances : \A h \in Grants \ excused' : Brings(job[j], h) <=> Brings(job'[j], h)
  BY DEF Brings
<1> QED BY <1>1, <1>2, FamilyBreaks

LEMMA FamilyLosesAnswer ==
    ASSUME BaseInv, NEW i \in Instances, AnswerLost(i) \/ HandOverLost(i)
    PROVE  Family!Next
<1>1. Works(job[i]) /\ UNCHANGED << cache, live, issued >> /\ excused' = excused \cup {job[i].pair.grant}
  BY DEF AnswerLost, HandOverLost, At, Works
<1>2. (\A j \in Instances \ {i} : job'[j] = job[j]) /\ ~Flies(job'[i])
  BY FailsJob, ReturnsJob DEF AnswerLost, HandOverLost
<1> QED BY <1>1, <1>2, BreaksOwn DEF Carries, Flies

LEMMA FamilyRestart ==
    ASSUME BaseInv, NEW i \in Instances, Restart(i)
    PROVE  Family!Next \/ UNCHANGED Family!familyVars
<1>0. job \in [Instances -> Jobs]
  BY DEF BaseInv, TypeOK
<1>1. (\A j \in Instances \ {i} : job'[j] = job[j]) /\ ~Carries(job'[i])
  BY <1>0 DEF Restart, Ends, NoJob, Carries
<1>2. CASE job[i].pc \in {"rotated", "releasing"}
  BY <1>1, <1>2, BreaksOwn DEF Restart, Works
<1>3. CASE job[i].pc \notin {"rotated", "releasing"}
  BY <1>1, <1>3, BringsNothing DEF Restart, Carries
<1> QED BY <1>2, <1>3

LEMMA FamilyLease ==
    ASSUME BaseInv, LeaseExpires
    PROVE  Family!Next \/ UNCHANGED Family!familyVars
<1>1. lock \in Instances
  BY DEF LeaseExpires, BaseInv, TypeOK
<1>2. CASE Flies(job[lock])
  BY <1>1, <1>2, BreaksOwn DEF LeaseExpires, Flies, Works
<1>3. CASE ~Flies(job[lock])
  BY <1>1, <1>3, FamilyQuiet DEF LeaseExpires, Flies
<1> QED BY <1>2, <1>3

-----------------------------------------------------------------------------
(* Logins, rotations and hand-overs.                                       *)

LEMMA FamilyLogin ==
    ASSUME NEW i \in Instances, Login(i)
    PROVE  Family!Next
<1>1. PICK g \in Grants : /\ live[g] = 0 /\ issued < MaxSerial /\ issued' = issued + 1
                          /\ live' = [live EXCEPT ![g] = issued + 1]
  BY DEF Login
<1>2. UNCHANGED << cache, excused, job >>
  BY DEF Login
<1>3. UnderWay' = UnderWay
  BY <1>2 DEF UnderWay
<1>4. Family!Login(g)
  BY <1>1, <1>2, <1>3 DEF Family!Login, Family!Issues
<1> QED BY <1>4 DEF Family!Next, Family!Grants, Grants

\* A rotation is in turn when the lock protects it: then nothing else is under way.
LEMMA FamilyRotate ==
    ASSUME BaseInv, Worker, NEW i \in Instances, Rotate(i)
    PROVE  Family!Next
<1> DEFINE g == job[i].pair.grant
<1>0. job \in [Instances -> Jobs]
  BY DEF BaseInv, TypeOK
<1>1. /\ job[i].pc = "calling" /\ g \in Grants /\ job[i].pair \in Pairs
      /\ job[i].pair.serial \in Serials
  BY OwnState DEF Rotate, At, Works
<1>2. live[g] # 0
  BY <1>1 DEF Rotate, Serials
<1>3. Family!Issues(g) /\ UNCHANGED cache
  BY DEF Rotate, Family!Issues
<1>4. /\ \A j \in Instances \ {i} : job'[j] = job[j]
      /\ job'[i].pc = "rotated" /\ job'[i].leased = job[i].leased
      /\ job'[i].pair.grant = g
  BY <1>0, <1>1 DEF Rotate, Jobs, Pairs, NoPair
<1>5. ~Carries(job[i])
  BY <1>1 DEF Carries
<1> HIDE DEF g
<1>6. CASE job[i].leased /\ g \notin excused
  <2>1. Flies(job[i])
    BY <1>1, <1>6 DEF Flies
  <2>2. UnderWay = {}
    BY <1>5, <1>6, <2>1, HolderAlone, UnderWayIsBrought DEF Brings, g
  <2>3. excused' = excused
    BY <1>6 DEF Rotate
  <2>4. \A h : h \in UnderWay' <=> h = g
    <3>1. \A h : h \in UnderWay' <=> /\ h \in Grants /\ h \notin excused
                                    /\ \E j \in Instances : Brings(job'[j], h)
      BY <2>3 DEF UnderWay, Brings, Carries
    <3>2. Carries(job'[i])
      BY <1>4, <1>6 DEF Carries
    <3>3. \A h : Brings(job'[i], h) <=> h = g
      BY <1>4, <3>2 DEF Brings
    <3>4. \A h \in Grants \ excused : \A j \in Instances \ {i} : ~Brings(job'[j], h)
      BY <1>4, <2>2, UnderWayIsBrought
    <3> QED BY <1>1, <1>6, <3>1, <3>3, <3>4
  <2>5. Family!RefreshInTurn(g)
    BY <1>2, <1>3, <1>6, <2>2, <2>3, <2>4 DEF Family!RefreshInTurn
  <2> QED BY <1>1, <2>5 DEF Family!Next, Family!Grants, Grants
<1>7. CASE ~(job[i].leased /\ g \notin excused)
  <2>1. excused' = excused \cup {g}
    BY <1>7 DEF Rotate, g
  <2>2. \A j \in Instances : \A h \in Grants \ excused' : Brings(job[j], h) <=> Brings(job'[j], h)
    BY <1>4, <1>5, <2>1 DEF Brings
  <2>3. UnderWay' = UnderWay \ {g}
    BY <2>1, <2>2, UnderWayStays
  <2>4. Family!RefreshOutOfTurn(g)
    BY <1>2, <1>3, <2>1, <2>3 DEF Family!RefreshOutOfTurn
  <2> QED BY <1>1, <2>4 DEF Family!Next, Family!Grants, Grants
<1> QED BY <1>6, <1>7

\* A hand-over shares the live pair of its grant, or one of a broken grant; one by
\* an instance that lost the lock shares nothing.
LEMMA FamilyHandOver ==
    ASSUME BaseInv, Worker, backend = "worker", NEW i \in Instances, HandOver(i)
    PROVE  Family!Next \/ UNCHANGED Family!familyVars
<1> DEFINE p == job[i].pair
           g == job[i].pair.grant
<1>1. /\ job[i].pc = "releasing" /\ job[i].leased /\ Carries(job[i]) /\ Flies(job[i])
      /\ p \in Pairs /\ g \in Grants /\ p.serial \in Serials
  BY OwnState DEF HandOver, At, WellFormed, Carries, Flies, Works
<1>2. Returns(i, p) /\ UNCHANGED << live, issued, excused >>
  BY DEF HandOver
<1>3. (\A j \in Instances \ {i} : job'[j] = job[j]) /\ ~Carries(job'[i])
  BY <1>2, ReturnsJob DEF Carries, Flies
<1>4. ASSUME MayRelease(i) PROVE cache' = p /\ ~Family!Newer(cache, p)
  BY <1>1, <1>4 DEF HandOver, MayRelease, Worker, HolderIsAhead, Newer, Family!Newer
<1>5. CASE g \notin excused
  <2>1. lock = i /\ live[g] = p.serial
    BY <1>1, <1>5 DEF Worker, HolderIsLive
  <2>2. g \in UnderWay
    BY <1>1, <1>5, UnderWayIsBrought DEF Brings
  <2>3. UnderWay' = {}
    <3>1. \A h \in Grants \ excused : \A j \in Instances : ~Brings(job'[j], h)
      BY <1>1, <1>3, <1>5, HolderAlone DEF Brings
    <3> QED BY <1>2, <3>1 DEF UnderWay, Brings, Carries
  <2>4. p = [grant |-> g, serial |-> live[g]]
    BY <1>1, <2>1 DEF Pairs, NoPair
  <2>5. Family!HandOver(g)
    BY <1>2, <1>4, <2>1, <2>2, <2>3, <2>4 DEF MayRelease, Family!HandOver, Family!Shares
  <2> QED BY <1>1, <2>5 DEF Family!Next, Family!Grants, Grants
<1>6. CASE g \in excused
  <2>1. \A j \in Instances : \A h \in Grants \ excused : Brings(job[j], h) <=> Brings(job'[j], h)
    BY <1>3, <1>6 DEF Brings
  <2>2. CASE MayRelease(i)
    <3>1. UnderWay' = UnderWay
      <4>1. UnderWay' = UnderWay \ {}
        BY <1>2, <2>1, UnderWayStays
      <4> QED BY <4>1
    <3>2. p.serial \in 1..live[g]
      <4>1. p.serial <= live[g] /\ p # NoPair
        BY <1>1 DEF Worker, PairsSound, Sound, Works, WellFormed, NoPair, Serials
      <4>2. live[g] \in Nat
        BY <1>1, BoundsAssumption DEF BaseInv, TypeOK
      <4> QED BY <1>1, <4>1, <4>2, BoundsAssumption DEF Serials
    <3>3. p = [grant |-> g, serial |-> p.serial]
      BY <1>1 DEF Pairs, NoPair
    <3>4. Family!Shares([grant |-> g, serial |-> p.serial])
      BY <1>4, <2>2, <3>3 DEF Family!Shares
    <3> HIDE DEF p, g
    <3>5. Family!HandOverOfBroken(g)
      BY <1>2, <1>6, <3>1, <3>2, <3>4 DEF Family!HandOverOfBroken
    <3> QED BY <1>1, <3>5 DEF Family!Next, Family!Grants, Grants
  <2>3. CASE ~MayRelease(i)
    BY <1>2, <2>1, <2>3, FamilyQuiet DEF HandOver
  <2> QED BY <2>2, <2>3
<1> QED BY <1>5, <1>6

-----------------------------------------------------------------------------
(* TokenRefresh implements TokenFamily.                                    *)

LEMMA FamilyStep ==
    ASSUME BaseInv, Worker, backend = "worker", [Next]_vars
    PROVE  [Family!Next]_(Family!familyVars)
<1>1. ASSUME NEW i \in Instances, Tick(i) \/ Peek(i) \/ NotDue(i) \/ Due(i)
      PROVE  UNCHANGED Family!familyVars
  BY <1>1, FamilyPeek
<1>2. ASSUME NEW i \in Instances, Acquire(i) PROVE UNCHANGED Family!familyVars
  BY <1>2, FamilyAcquire
<1>3. ASSUME NEW i \in Instances, Refresh(i) PROVE Family!Next \/ UNCHANGED Family!familyVars
  BY <1>3, FamilyRefreshQuiet, FamilyRotate, FamilyLosesAnswer DEF Refresh
<1>4. ASSUME NEW i \in Instances, Release(i) PROVE Family!Next \/ UNCHANGED Family!familyVars
  <2>1. ~StoreHandOver(i)
    BY DEF StoreHandOver, At, Worker, OneStepService
  <2> QED BY <1>4, <2>1, FamilyHandOver, FamilyLosesAnswer, FamilyOperatorQuiet DEF Release
<1>5. ASSUME NEW i \in Instances, Login(i) \/ Remove(i) \/ Reconcile(i) \/ Restart(i)
      PROVE  Family!Next \/ UNCHANGED Family!familyVars
  BY <1>5, FamilyLogin, FamilyOperatorQuiet, FamilyRestart
<1>6. CASE LeaseExpires
  BY <1>6, FamilyLease
<1>7. CASE UNCHANGED vars
  BY <1>7, FamilyQuiet DEF vars
<1> QED BY <1>1, <1>2, <1>3, <1>4, <1>5, <1>6, <1>7 DEF Next, Job

LEMMA FamilyInit == Init => Family!Init
<1> SUFFICES ASSUME Init PROVE Family!Init
  OBVIOUS
<1>1. UnderWay = {}
  BY DEF Init, UnderWay, NoJob
<1> QED BY <1>1 DEF Init, Family!Init, NoPair, Family!NoPair, Grants, Family!Grants

\* Instances that share the worker keep a token family: of the refreshes under the
\* lock each is handed over before the next is made, what is handed over is the
\* live pair of its grant, and nothing older replaces it; only a lost call, an
\* expired lease, a death or a refresh without the lock takes a grant out
\* (refreshAccountToken, cloudflare/refresh-lock).
THEOREM WorkerKeepsAFamily == RefreshSpec /\ backend = "worker" => ImplementsFamily
<1>1. RefreshSpec /\ backend = "worker" => [](backend = "worker")
  <2>1. backend = "worker" /\ [Next]_vars => (backend = "worker")'
    BY BackendFixed
  <2> QED BY <2>1, PTL DEF RefreshSpec
<1>2. BaseInv /\ WorkerInv /\ backend = "worker" /\ [Next]_vars => [Family!Next]_(Family!familyVars)
  BY FamilyStep DEF WorkerInv
<1> QED BY <1>1, <1>2, FamilyInit, WorkerHolds, PTL DEF RefreshSpec, ImplementsFamily, Family!FamilySpec

\* What the worker shares is the live pair of its grant, but for the time its
\* successor is on the way: an instance that takes it over can refresh with it
\* (refreshAccountToken, cloudflare/refresh-lock).
THEOREM WorkerSharesLivePairs == RefreshSpec => []WorkerSharesTheLivePair
<1>1. ASSUME BaseInv, Worker, cache # NoPair, cache.grant \notin excused, cache.grant \notin UnderWay
      PROVE  cache.serial = live[cache.grant]
  <2>1. cache \in Pairs /\ cache.grant \in Grants
    BY <1>1, PairFields DEF BaseInv, TypeOK
  <2>2. ~Carried(job, cache.grant)
    BY <1>1, <2>1, UnderWayIsBrought DEF Carried, Brings
  <2> QED BY <1>1, <2>1, <2>2, NewerOrder DEF Worker, PairsSound, Sound
<1>2. BaseInv /\ WorkerInv => WorkerSharesTheLivePair
  BY <1>1 DEF WorkerInv, WorkerSharesTheLivePair, Family!SharedIsLive, NoPair, Family!NoPair
<1> QED BY <1>2, WorkerHolds, PTL
=============================================================================
