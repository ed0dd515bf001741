---------------------------- MODULE Gateway_proof ----------------------------
(***************************************************************************)
(* What the proxy keeps of the queue's guarantees when slots are given     *)
(* back early, legs come in by the front door and the process drains and   *)
(* restarts: every step of the handler is a step of the queue, none of the *)
(* queue's, or a restart from nothing.  The queue's inductive invariant    *)
(* then holds of the whole, and what the drain relies on follows from it,  *)
(* and so do the order of the waiters and the semaphore.  That a halt      *)
(* bounds what still goes out is carried by HaltInv: as long as it stands, *)
(* whoever is queued was queued when it began.                             *)
(***************************************************************************)
EXTENDS Gateway, RequestQueueOrder_proof

USE DEF Status, NotStalled, Ages, Dequeue

\* A request that resumes has a leg, so its leg is one of the requests.
ResumesByALeg ==
    /\ resume \in [Requests -> Resuming]
    /\ \A r \in Requests : resume[r] # "no" => LegOf[r] \in Requests

GatewayInv == Inv /\ ResumesByALeg

LEMMA LegsAreRequests == \A r \in Requests : LegOf[r] = NoLeg \/ LegOf[r] \in Requests
  BY LegsAssumption

LEMMA AcquireIsAQueueStep ==
    ASSUME NEW r \in Requests, Acquire(r)
    PROVE  QueueNext
  BY DEF Acquire, QueueNext

LEMMA ReleaseIsAQueueStep ==
    ASSUME NEW r \in Requests, ReleaseQueueSlot(r)
    PROVE  [QueueNext]_queueVars
  BY DEF ReleaseQueueSlot, QueueNext

\* Every step of the handler but the restart is a step of the queue or leaves it alone.
LEMMA HandlerStepsAreQueueSteps ==
    ASSUME ResumesByALeg, [GatewayNext]_gatewayVars, ~Restart
    PROVE  [QueueNext]_queueVars
<1>1. ASSUME NEW r \in Requests, Handles(r) PROVE [QueueNext]_queueVars
  <2>1. CASE Arrive(r)
    BY <2>1, AcquireIsAQueueStep DEF Arrive
  <2>2. CASE Finish(r)
    BY <2>2, ReleaseIsAQueueStep DEF Finish
  <2>3. CASE BreakOff(r)
    BY <2>3, ReleaseIsAQueueStep DEF BreakOff, SlotBeforeLeg
  <2>4. CASE SendLeg(r)
    <3>1. LegOf[r] \in Requests
      BY <2>4 DEF SendLeg, ResumesByALeg
    <3> QED
      BY <2>4, <3>1, AcquireIsAQueueStep DEF SendLeg
  <2>5. CASE NextChoice(r)
    BY <2>5 DEF NextChoice
  <2>6. CASE FinishResumed(r) \/ AbandonLeg(r)
    BY <2>6, ReleaseIsAQueueStep DEF FinishResumed, AbandonLeg, ResumeEnds
  <2>7. CASE Expire(r)
    BY <2>7 DEF Expire, QueueNext
  <2>8. CASE ReadRefusal(r)
    BY <2>8 DEF ReadRefusal, QueueNext
  <2> QED
    BY <1>1, <2>1, <2>2, <2>3, <2>4, <2>5, <2>6, <2>7, <2>8 DEF Handles
<1>2. CASE HaltCleared
  BY <1>2 DEF HaltCleared
<1>3. CASE Shutdown
  BY <1>3 DEF Shutdown
<1>4. CASE Exit
  BY <1>4 DEF Exit
<1>5. CASE TimePasses
  BY <1>5 DEF TimePasses, QueueNext
<1>6. CASE UNCHANGED gatewayVars
  BY <1>6 DEF gatewayVars
<1> QED
  BY <1>1, <1>2, <1>3, <1>4, <1>5, <1>6 DEF GatewayNext

\* A restarted process has the queue's initial state.
LEMMA RestartStartsOver == Restart => QueueInit'
  BY DEF Restart, QueueInit

LEMMA ResumesInductive ==
    ASSUME ResumesByALeg, [GatewayNext]_gatewayVars
    PROVE  ResumesByALeg'
<1>1. ASSUME NEW r \in Requests, Handles(r) PROVE ResumesByALeg'
  <2>1. CASE UNCHANGED resume
    BY <2>1 DEF ResumesByALeg
  <2>2. CASE BreakOff(r) \/ SendLeg(r) \/ NextChoice(r) \/ FinishResumed(r) \/ AbandonLeg(r)
    <3>1. CASE LegOf[r] \in Requests
      BY <2>2, <3>1 DEF ResumesByALeg, Resuming, BreakOff, SendLeg, NextChoice, FinishResumed,
                        AbandonLeg, ResumeEnds
    <3>2. CASE LegOf[r] \notin Requests
      <4>1. LegOf[r] = NoLeg /\ resume[r] = "no"
        BY <3>2, LegsAreRequests DEF ResumesByALeg
      <4> QED
        BY <2>2, <4>1 DEF BreakOff, SendLeg, NextChoice, FinishResumed, AbandonLeg, LegOver
    <3> QED
      BY <3>1, <3>2
  <2> QED
    BY <1>1, <2>1, <2>2 DEF Handles, Arrive, Finish, Expire, ReadRefusal, ownVars
<1>2. CASE Restart
  BY <1>2 DEF Restart, ResumesByALeg, Resuming
<1>3. CASE HaltCleared \/ Shutdown \/ Exit \/ TimePasses \/ UNCHANGED gatewayVars
  BY <1>3 DEF HaltCleared, Shutdown, Exit, TimePasses, gatewayVars, ownVars, ResumesByALeg
<1> QED
  BY <1>1, <1>2, <1>3 DEF GatewayNext

LEMMA GatewayStep == GatewayInv /\ [GatewayNext]_gatewayVars => GatewayInv'
<1> SUFFICES ASSUME GatewayInv, [GatewayNext]_gatewayVars PROVE GatewayInv'
  OBVIOUS
<1>1. ResumesByALeg'
  BY ResumesInductive DEF GatewayInv
<1>2. CASE Restart
  <2>1. QueueInit'
    BY <1>2, RestartStartsOver
  <2>2. QueueInit' => Inv'
    BY InitInv, PTL
  <2> QED
    BY <1>1, <2>1, <2>2 DEF GatewayInv
<1>3. CASE ~Restart
  BY <1>1, <1>3, HandlerStepsAreQueueSteps, StepInv DEF GatewayInv
<1> QED
  BY <1>2, <1>3

LEMMA GatewayInvHolds == GatewaySpec => []GatewayInv
<1>1. GatewayInit => GatewayInv
  BY InitInv DEF GatewayInit, GatewayInv, ResumesByALeg, Resuming
<1> QED
  BY <1>1, GatewayStep, PTL DEF GatewaySpec

\* A slot counted is a slot held, in total and for every consumer, however often
\* streams break off and give their slot back before they end (releaseQueueSlot).
THEOREM EarlyReleaseLeaksNothing == GatewaySpec => []SlotAccounting
<1>1. GatewayInv => SlotAccounting
  BY DEF GatewayInv, Inv
<1> QED BY <1>1, GatewayInvHolds, PTL

\* With no slot taken nobody waits for one: an idle queue is an empty one.
LEMMA NoSlotTakenNobodyQueued ==
    ASSUME Inv, active = 0
    PROVE  \A r \in Requests : status[r] \notin {"queued", "held"}
<1>1. IsFiniteSet(Held) /\ Held = {}
  <2>1. IsFiniteSet(Held)
    BY RequestsAssumption, FS_Subset DEF Held
  <2>2. Cardinality(Held) = 0
    BY DEF Inv, SlotAccounting
  <2> QED
    BY <2>1, <2>2, FS_EmptySet
<1>2. \A c \in Consumers : activeByConsumer[c] = 0
  <2> SUFFICES ASSUME NEW c \in Consumers PROVE activeByConsumer[c] = 0
    OBVIOUS
  <2>1. HeldBy(c) = {}
    BY <1>1 DEF HeldBy
  <2> QED
    BY <2>1, FS_EmptySet DEF Inv, SlotAccounting
<1>3. \A r \in Requests : ConsumerFree(r)
  BY <1>2, ConsumersAssumption, LimitsAssumption DEF ConsumerFree, UnderCap
<1>4. DOMAIN queue = {}
  <2>1. active < MaxConcurrent
    BY SlotsAssumption, LimitsAssumption
  <2>2. \A i \in DOMAIN queue : queue[i] \in Requests
    BY DEF Inv, TypeOK
  <2> QED
    BY <2>1, <2>2, <1>3 DEF Inv, WorkConserving
<1>5. ToSet(queue) = {}
  BY <1>4 DEF ToSet
<1> QED
  BY <1>1, <1>5 DEF Inv, QueueExact, Held

\* The drain may count slots only (waitForIdle): when it ends before its grace,
\* nobody holds a slot and nobody waits for one.
THEOREM DrainLeavesNobodyQueued == GatewaySpec => ExitLeavesNobodyQueued
<1>1. GatewayInv /\ [GatewayNext]_gatewayVars =>
        [phase = "draining" /\ phase' = "exited" /\ ~GraceOver =>
           \A r \in Requests : status[r] \notin {"queued", "held"}]_gatewayVars
  <2> SUFFICES ASSUME GatewayInv, [GatewayNext]_gatewayVars,
                      phase = "draining", phase' = "exited", ~GraceOver
               PROVE  \A r \in Requests : status[r] \notin {"queued", "held"}
    OBVIOUS
  <2>1. Exit
    BY DEF GatewayNext, gatewayVars, ownVars, Handles, Arrive, Finish, BreakOff, SendLeg, NextChoice,
           FinishResumed, AbandonLeg, ResumeEnds, Expire, ReadRefusal, HaltCleared, Shutdown,
           Restart, TimePasses
  <2>2. active = 0
    BY <2>1 DEF Exit, Idle
  <2> QED
    BY <2>2, NoSlotTakenNobodyQueued DEF GatewayInv
<1> QED
  BY <1>1, GatewayInvHolds, PTL DEF GatewaySpec, ExitLeavesNobodyQueued

-----------------------------------------------------------------------------
(* The handler's own state, and the halt.                                  *)

\* Who is in the queue is a request.
LEMMA QueuedAreRequests ==
    ASSUME Inv
    PROVE  ToSet(queue) \subseteq Requests
BY DEF Inv, QueueExact

LEMMA RecordedType ==
    ASSUME Inv, GatewayTypeOK, NEW billed \in BOOLEAN, Recorded(billed)
    PROVE  haltedFor' \in {NotHalted} \cup 0..HaltCooldown /\ waitingAtHalt' \subseteq Requests
BY QueuedAreRequests, GatewayTimesAssumption DEF Recorded, GatewayTypeOK

\* Only a resume that has a try left sends another leg.
LEMMA OneMoreTry ==
    ASSUME GatewayTypeOK, NEW r \in Requests, MayTry(r)
    PROVE  tried[r] + 1 \in 0..MaxLegs
BY GatewayTimesAssumption DEF GatewayTypeOK, MayTry

LEMMA GatewayTypeStep ==
    ASSUME Inv, GatewayTypeOK, [GatewayNext]_gatewayVars
    PROVE  GatewayTypeOK'
<1> USE DEF GatewayTypeOK
<1>1. ASSUME NEW r \in Requests, Handles(r) PROVE GatewayTypeOK'
  <2>1. CASE Arrive(r) \/ Expire(r) \/ ReadRefusal(r)
    BY <2>1 DEF Arrive, Expire, ReadRefusal, ownVars
  <2>2. CASE Finish(r)
    <3>1. PICK billed \in BOOLEAN : Recorded(billed)
      BY <2>2 DEF Finish
    <3> QED BY <2>2, <3>1, RecordedType DEF Finish
  <2>3. CASE BreakOff(r)
    <3>1. tried' \in [Requests -> 0..MaxLegs] /\ resume' \in [Requests -> Resuming]
      BY <2>3, OneMoreTry DEF BreakOff, Resuming
    <3> QED BY <2>3, <3>1 DEF BreakOff
  <2>4. CASE SendLeg(r)
    <3>1. resume' \in [Requests -> Resuming]
      BY <2>4 DEF SendLeg, Resuming
    <3> QED BY <2>4, <3>1 DEF SendLeg
  <2>5. CASE NextChoice(r)
    <3>1. tried' \in [Requests -> 0..MaxLegs] /\ resume' \in [Requests -> Resuming]
      BY <2>5, OneMoreTry DEF NextChoice, Resuming
    <3> QED BY <2>5, <3>1 DEF NextChoice
  <2>6. CASE FinishResumed(r) \/ AbandonLeg(r)
    <3>1. PICK billed \in BOOLEAN : Recorded(billed)
      BY <2>6 DEF FinishResumed, AbandonLeg, ResumeEnds
    <3>2. tried' \in [Requests -> 0..MaxLegs] /\ resume' \in [Requests -> Resuming]
      BY <2>6, GatewayTimesAssumption DEF FinishResumed, AbandonLeg, ResumeEnds, Resuming
    <3> QED BY <2>6, <3>1, <3>2, RecordedType DEF FinishResumed, AbandonLeg, ResumeEnds
  <2> QED BY <1>1, <2>1, <2>2, <2>3, <2>4, <2>5, <2>6 DEF Handles
<1>2. CASE HaltCleared
  BY <1>2 DEF HaltCleared
<1>3. CASE Shutdown \/ Exit
  BY <1>3, GatewayTimesAssumption DEF Shutdown, Exit
<1>4. CASE Restart
  BY <1>4, GatewayTimesAssumption DEF Restart, Resuming
<1>5. CASE TimePasses
  <2>1. haltedFor' \in {NotHalted} \cup 0..HaltCooldown
    BY <1>5, GatewayTimesAssumption DEF TimePasses, Halted, NotHalted
  <2>2. drainedFor' \in 0..Grace
    BY <1>5, GatewayTimesAssumption DEF TimePasses, Later
  <2> QED BY <1>5, <2>1, <2>2 DEF TimePasses
<1>6. CASE UNCHANGED gatewayVars
  BY <1>6 DEF gatewayVars, ownVars
<1> QED BY <1>1, <1>2, <1>3, <1>4, <1>5, <1>6 DEF GatewayNext

\* A resume never sends more than MAX_CONTINUATION_DEPTH legs, and a halt is over
\* by its cool-down (the handler's locals, OverageGuard).
THEOREM GatewayTypeCorrect == GatewaySpec => []GatewayTypeOK
<1>1. GatewayInit => GatewayTypeOK
  BY GatewayTimesAssumption DEF GatewayInit, GatewayTypeOK, Resuming
<1>2. GatewayInv => Inv
  BY DEF GatewayInv
<1> QED BY <1>1, <1>2, GatewayTypeStep, GatewayInvHolds, PTL DEF GatewaySpec

\* While the proxy is halted nobody joins the queue.
HaltInv == Halted => ToSet(queue) \subseteq waitingAtHalt

\* What a queue step that is no arrival does: it takes waiters out of the queue, and
\* who gets a slot was one of them.
OnlyDrains ==
    /\ ToSet(queue') \subseteq ToSet(queue)
    /\ \A r \in Requests : Gained(r) => r \in ToSet(queue)

LEMMA ReleaseOnlyDrains ==
    ASSUME Inv, NEW r \in Requests, Release(r)
    PROVE  OnlyDrains
<1>1. CASE ReleaseToNobody(r)
  BY <1>1 DEF ReleaseToNobody, OnlyDrains, Gained, Inv, TypeOK, ToSet
<1>2. CASE ReleaseToWaiter(r)
  <2>1. PICK i \in DOMAIN queue :
          /\ status' = [status EXCEPT ![r] = "idle", ![queue[i]] = "held"]
          /\ queue' = RemoveAt(queue, i)
    BY <1>2 DEF ReleaseToWaiter, Admissible
  <2>2. ToSet(queue') = ToSet(queue) \ {queue[i]}
    BY <2>1, RemoveAtExact DEF Inv, TypeOK, QueueExact
  <2>3. queue[i] \in ToSet(queue)
    BY <2>1 DEF ToSet
  <2> QED BY <2>1, <2>2, <2>3 DEF OnlyDrains, Gained, Inv, TypeOK
<1> QED BY <1>1, <1>2 DEF Release

LEMMA TimeoutOnlyDrains ==
    ASSUME Inv, NEW r \in Requests, TimeoutFires(r)
    PROVE  OnlyDrains
<1>1. PICK i \in DOMAIN queue : queue' = RemoveAt(queue, i)
  BY DEF TimeoutFires
<1>2. ToSet(queue') = ToSet(queue) \ {queue[i]}
  BY <1>1, RemoveAtExact DEF Inv, TypeOK, QueueExact
<1>3. status' = [status EXCEPT ![r] = "timeout"]
  BY DEF TimeoutFires
<1> QED BY <1>2, <1>3 DEF OnlyDrains, Gained, Inv, TypeOK

LEMMA StandingOnlyDrains ==
    ASSUME UNCHANGED << queue, status >>
    PROVE  OnlyDrains
BY DEF OnlyDrains, Gained, ToSet

\* A halted proxy gives slots to those who waited, and to nobody else.
Bounded == \A r \in Requests : Gained(r) /\ haltedFor' # NotHalted => r \in waitingAtHalt'

LEMMA HaltStep ==
    ASSUME Inv, HaltInv, [GatewayNext]_gatewayVars
    PROVE  HaltInv' /\ Bounded
\* Either the step ends or leaves it without a halt, or it only drains a queue
\* of those who were waiting when the halt began, this one's halt included.
<1>1. ASSUME ~Halted' PROVE HaltInv' /\ Bounded
  BY <1>1 DEF HaltInv, Bounded, Halted
<1>2. ASSUME OnlyDrains, Halted' => ToSet(queue) \subseteq waitingAtHalt'
      PROVE  HaltInv' /\ Bounded
  BY <1>2 DEF OnlyDrains, HaltInv, Bounded, Halted, ToSet
<1>3. ASSUME OnlyDrains, UNCHANGED << haltedFor, waitingAtHalt >>
      PROVE  HaltInv' /\ Bounded
  BY <1>2, <1>3 DEF HaltInv, Halted
<1>4. ASSUME OnlyDrains, NEW billed \in BOOLEAN, Recorded(billed)
      PROVE  HaltInv' /\ Bounded
  BY <1>2, <1>4 DEF Recorded, HaltInv, Halted
<1>5. ASSUME NEW r \in Requests, ReleaseQueueSlot(r) PROVE OnlyDrains
  BY <1>5, ReleaseOnlyDrains, StandingOnlyDrains DEF ReleaseQueueSlot, queueVars
<1>6. ASSUME NEW r \in Requests, Handles(r) PROVE HaltInv' /\ Bounded
  <2>1. CASE Arrive(r)
    BY <1>1, <2>1 DEF Arrive, FrontDoorOpen, Halted, ownVars
  <2>2. CASE Finish(r)
    BY <1>4, <1>5, <2>2 DEF Finish
  <2>3. CASE BreakOff(r)
    BY <1>3, <1>5, <2>3 DEF BreakOff, SlotBeforeLeg
  <2>4. CASE SendLeg(r)
    <3>1. CASE FrontDoorOpen
      BY <1>1, <2>4, <3>1 DEF SendLeg, FrontDoorOpen, Halted
    <3>2. CASE ~FrontDoorOpen
      BY <1>3, <2>4, <3>2, StandingOnlyDrains DEF SendLeg, queueVars
    <3> QED BY <3>1, <3>2
  <2>5. CASE NextChoice(r)
    BY <1>3, <2>5, StandingOnlyDrains DEF NextChoice, queueVars
  <2>6. CASE FinishResumed(r) \/ AbandonLeg(r)
    BY <1>4, <1>5, <2>6 DEF FinishResumed, AbandonLeg, ResumeEnds
  <2>7. CASE Expire(r)
    BY <1>3, <2>7, TimeoutOnlyDrains DEF Expire, ownVars
  <2>8. CASE ReadRefusal(r)
    <3>1. OnlyDrains
      BY <2>8 DEF ReadRefusal, Answered, OnlyDrains, Gained, Inv, TypeOK, ToSet
    <3> QED BY <1>3, <2>8, <3>1 DEF ReadRefusal, ownVars
  <2> QED BY <1>6, <2>1, <2>2, <2>3, <2>4, <2>5, <2>6, <2>7, <2>8 DEF Handles
<1>7. CASE HaltCleared \/ Restart
  BY <1>1, <1>7 DEF HaltCleared, Restart, Halted
<1>8. CASE Shutdown \/ Exit \/ UNCHANGED gatewayVars
  BY <1>3, <1>8, StandingOnlyDrains DEF Shutdown, Exit, gatewayVars, queueVars, ownVars
<1>9. CASE TimePasses
  <2>1. OnlyDrains /\ UNCHANGED waitingAtHalt
    BY <1>9, StandingOnlyDrains DEF TimePasses, Tick
  <2>2. Halted' => Halted
    BY <1>9 DEF TimePasses, Halted
  <2> QED BY <1>2, <2>1, <2>2 DEF HaltInv
<1> QED BY <1>6, <1>7, <1>8, <1>9 DEF GatewayNext

\* From the halt until it is cleared only those who were waiting when it began go
\* upstream, whoever arrives, retries or resumes by a leg (OverageGuard.admit).
THEOREM HaltBounds == GatewaySpec => HaltBoundsBleed
<1>1. GatewayInit => HaltInv
  BY DEF GatewayInit, HaltInv, Halted
<1>2. GatewayInv /\ HaltInv /\ [GatewayNext]_gatewayVars => HaltInv' /\ [Bounded]_gatewayVars
  BY HaltStep DEF GatewayInv
<1> QED BY <1>1, <1>2, GatewayInvHolds, PTL DEF GatewaySpec, HaltBoundsBleed, Bounded

-----------------------------------------------------------------------------
(* The queue behind the handler.                                           *)

\* Early releases, legs, drains and restarts overtake nobody who could be served.
THEOREM NobodyOvertakesBehindTheHandler == GatewaySpec => NoOvertaking
<1>1. GatewayInv /\ [GatewayNext]_gatewayVars => [KeepsOrder]_queueVars
  <2> SUFFICES ASSUME GatewayInv, [GatewayNext]_gatewayVars PROVE KeepsOrder
    OBVIOUS
  <2>1. CASE Restart
    BY <2>1 DEF Restart, KeepsOrder, Gained
  <2>2. CASE ~Restart
    BY <2>2, HandlerStepsAreQueueSteps, OrderStep DEF GatewayInv
  <2> QED BY <2>1, <2>2
<1> QED BY <1>1, GatewayInvHolds, PTL DEF GatewaySpec, NoOvertaking, KeepsOrder

\* The proxy keeps using its queue as a semaphore with caps: every step but the
\* restart, which begins with nobody, is one of the semaphore's or none.
THEOREM HandlerUsesASemaphore ==
    GatewaySpec => /\ Slots!SemaphoreInit
                   /\ [][~Restart => [Slots!SemaphoreNext]_(Slots!semaphoreVars)]_gatewayVars
<1>1. GatewayInit => Slots!SemaphoreInit
  BY DEF GatewayInit, QueueInit, Slots!SemaphoreInit, Held
<1>2. GatewayInv /\ [GatewayNext]_gatewayVars =>
        [~Restart => [Slots!SemaphoreNext]_(Slots!semaphoreVars)]_gatewayVars
  BY HandlerStepsAreQueueSteps, SemaphoreStep DEF GatewayInv
<1> QED BY <1>1, <1>2, GatewayInvHolds, PTL DEF GatewaySpec

-----------------------------------------------------------------------------
(* Somebody can always go on.                                              *)

\* Whoever resumes has no slot and no place in the queue: it gave the slot back
\* before its leg was sent.
ResumersHoldNothing ==
    \A r \in Requests : resume[r] # "no" => status[r] \notin {"queued", "held"}

\* A leg that is due may be sent, and one that was turned away is not out.
LegsReady ==
    \A r \in Requests :
        /\ resume[r] = "due" => status[LegOf[r]] = "idle"
        /\ resume[r] \in {"due", "failed"} => ~InHand(LegOf[r])

Waiting == {r \in Requests : resume[r] = "waiting"}

\* Waiting for a leg does not go round in a circle, with two requests or with more.
NoWaitCycle == \A W \in SUBSET Waiting : W # {} => \E r \in W : LegOf[r] \notin W

ResumeInv == ResumersHoldNothing /\ LegsReady /\ NoWaitCycle

\* An acquire moves its own request only.
LEMMA AcquireMoves ==
    ASSUME Inv, NEW q \in Requests, Acquire(q)
    PROVE  \A p \in Requests \ {q} : status'[p] = status[p]
<1>1. status \in [Requests -> Status]
  BY DEF Inv, TypeOK
<1> QED BY <1>1 DEF Acquire, AcquireAdmit, AcquireEnqueue, AcquireReject

\* A release, a timeout and an answer put nobody in the queue, and give a slot
\* only to who was in it.
LEMMA OthersMove ==
    ASSUME Inv, NEW q \in Requests, ReleaseQueueSlot(q) \/ TimeoutFires(q) \/ Answered(q)
    PROVE  \A p \in Requests :
             /\ status'[p] \in {"queued", "held"} => status[p] \in {"queued", "held"}
             /\ status[p] = "idle" => status'[p] = "idle"
<1>1. status \in [Requests -> Status]
  BY DEF Inv, TypeOK
<1>2. \A i \in DOMAIN queue : queue[i] \in Requests /\ status[queue[i]] = "queued"
  BY DEF Inv, QueueExact, ToSet
<1>3. CASE ReleaseQueueSlot(q)
  <2>1. \/ status' = status
        \/ status' = [status EXCEPT ![q] = "idle"]
        \/ \E n \in Requests : status[n] = "queued" /\ status' = [status EXCEPT ![q] = "idle", ![n] = "held"]
    BY <1>2, <1>3 DEF ReleaseQueueSlot, Release, ReleaseToNobody, ReleaseToWaiter, Admissible, queueVars
  <2> QED BY <1>1, <2>1
<1>4. CASE TimeoutFires(q)
  BY <1>1, <1>2, <1>4 DEF TimeoutFires
<1>5. CASE Answered(q)
  BY <1>1, <1>5 DEF Answered
<1> QED BY <1>3, <1>4, <1>5

\* A leg is one request's, and no client is a leg.
LEMMA LegsAreOwn ==
    ASSUME NEW r \in Requests, NEW q \in Requests, LegOf[r] \in Requests
    PROVE  /\ LegOf[r] \notin Clients
           /\ LegOf[r] = LegOf[q] => r = q
BY LegsAssumption

\* A step that starts no resume and puts nobody in hand keeps the invariant.
LEMMA ResumeQuiet ==
    ASSUME ResumesByALeg, ResumeInv,
           \A r \in Requests : resume'[r] \in {resume[r], "no"},
           \A r \in Requests :
             /\ status'[r] \in {"queued", "held"} => status[r] \in {"queued", "held"}
             /\ status[r] = "idle" => status'[r] = "idle"
    PROVE  ResumeInv'
<1>1. ResumersHoldNothing'
  BY DEF ResumeInv, ResumersHoldNothing
<1>2. LegsReady'
  <2> SUFFICES ASSUME NEW r \in Requests, resume'[r] \in {"due", "failed"}
               PROVE  /\ resume'[r] = "due" => status'[LegOf[r]] = "idle"
                      /\ ~InHand(LegOf[r])'
    BY DEF LegsReady
  <2>1. resume[r] = resume'[r] /\ LegOf[r] \in Requests
    BY DEF ResumesByALeg
  <2> QED BY <2>1 DEF ResumeInv, LegsReady, InHand
<1>3. NoWaitCycle'
  <2>1. Waiting' \subseteq Waiting
    BY DEF Waiting
  <2> QED BY <2>1 DEF ResumeInv, NoWaitCycle
<1> QED BY <1>1, <1>2, <1>3 DEF ResumeInv

LEMMA ResumeStep ==
    ASSUME GatewayInv, ResumeInv, [GatewayNext]_gatewayVars
    PROVE  ResumeInv'
<1>0. Inv /\ ResumesByALeg /\ resume \in [Requests -> Resuming] /\ status \in [Requests -> Status]
  BY DEF GatewayInv, ResumesByALeg, Inv, TypeOK
<1>1. ASSUME NEW r \in Requests, Handles(r) PROVE ResumeInv'
  <2>1. CASE Arrive(r)
    <3>1. /\ r \in Clients /\ resume[r] = "no" /\ UNCHANGED resume
          /\ \A p \in Requests \ {r} : status'[p] = status[p]
      BY <1>0, <2>1, AcquireMoves DEF Arrive, ownVars
    <3>2. ResumersHoldNothing'
      BY <3>1 DEF ResumeInv, ResumersHoldNothing
    <3>3. LegsReady'
      <4> SUFFICES ASSUME NEW q \in Requests, resume[q] \in {"due", "failed"}
                   PROVE  /\ resume[q] = "due" => status'[LegOf[q]] = "idle"
                          /\ ~InHand(LegOf[q])'
        BY <3>1 DEF LegsReady
      <4>1. LegOf[q] \in Requests /\ LegOf[q] # r
        BY <1>0, <3>1, LegsAreOwn DEF ResumesByALeg
      <4> QED BY <3>1, <4>1 DEF ResumeInv, LegsReady, InHand
    <3>4. NoWaitCycle'
      BY <3>1 DEF ResumeInv, NoWaitCycle, Waiting
    <3> QED BY <3>2, <3>3, <3>4 DEF ResumeInv
  <2>2. CASE Finish(r) \/ FinishResumed(r) \/ AbandonLeg(r)
    <3>1. ReleaseQueueSlot(r) /\ \A q \in Requests : resume'[q] \in {resume[q], "no"}
      BY <1>0, <2>2 DEF Finish, FinishResumed, AbandonLeg, ResumeEnds
    <3> QED BY <1>0, <3>1, OthersMove, ResumeQuiet
  <2>3. CASE Expire(r) \/ ReadRefusal(r)
    BY <1>0, <2>3, OthersMove, ResumeQuiet DEF Expire, ReadRefusal, ownVars
  <2>4. CASE BreakOff(r)
    <3>1. /\ status[r] = "held" /\ resume[r] = "no" /\ LegOf[r] # NoLeg
          /\ ~InHand(LegOf[r]) /\ status[LegOf[r]] = "idle"
          /\ ReleaseQueueSlot(r)
          /\ resume' = [resume EXCEPT ![r] = "due"]
      BY <2>4 DEF BreakOff, SlotBeforeLeg
    <3>2. LegOf[r] \in Requests /\ LegOf[r] # r
      BY <3>1, LegsAreRequests
    <3>3. status'[r] = "idle"
      <4>1. \A i \in DOMAIN queue : queue[i] # r
        BY <1>0, <3>1 DEF Inv, QueueExact, ToSet
      <4> QED BY <1>0, <3>1, <4>1 DEF ReleaseQueueSlot, Release, ReleaseToNobody, ReleaseToWaiter, Admissible
    <3>4. \A p \in Requests :
             /\ status'[p] \in {"queued", "held"} => status[p] \in {"queued", "held"}
             /\ status[p] = "idle" => status'[p] = "idle"
      BY <1>0, <3>1, OthersMove
    <3>5. ResumersHoldNothing'
      BY <1>0, <3>1, <3>3, <3>4 DEF ResumeInv, ResumersHoldNothing
    <3>6. LegsReady'
      <4> SUFFICES ASSUME NEW q \in Requests, resume'[q] \in {"due", "failed"}
                   PROVE  status'[LegOf[q]] = "idle" \/ resume'[q] # "due"
        <5>1. ASSUME NEW q \in Requests, resume'[q] \in {"due", "failed"} PROVE ~InHand(LegOf[q])'
          <6>1. LegOf[q] \in Requests /\ ~InHand(LegOf[q])
            BY <1>0, <3>1, <3>2, <5>1 DEF ResumesByALeg, ResumeInv, LegsReady
          <6>2. LegOf[q] # r
            BY <3>1, <6>1 DEF InHand
          <6> QED BY <1>0, <3>1, <3>4, <6>1, <6>2 DEF InHand
        <5> QED BY <5>1 DEF LegsReady
      <4>1. CASE q = r
        BY <3>1, <3>2, <3>4, <4>1
      <4>2. CASE q # r
        BY <1>0, <3>1, <3>4, <4>2 DEF ResumesByALeg, ResumeInv, LegsReady
      <4> QED BY <4>1, <4>2
    <3>7. NoWaitCycle'
      <4>1. Waiting' = Waiting
        BY <1>0, <3>1 DEF Waiting
      <4> QED BY <4>1 DEF ResumeInv, NoWaitCycle
    <3> QED BY <3>5, <3>6, <3>7 DEF ResumeInv
  <2>5. CASE SendLeg(r)
    <3> DEFINE l == LegOf[r]
    <3>1. /\ resume[r] = "due" /\ l \in Requests /\ ~InHand(l)
          /\ status[r] \notin {"queued", "held"}
      BY <1>0, <2>5 DEF SendLeg, ResumesByALeg, ResumeInv, LegsReady, ResumersHoldNothing
    <3>2. l # r /\ resume[l] = "no"
      BY <3>1 DEF InHand
    <3>3. /\ \A p \in Requests \ {l} : status'[p] = status[p]
          /\ \/ resume' = [resume EXCEPT ![r] = "waiting"]
             \/ resume' = [resume EXCEPT ![r] = "failed"] /\ status' = status
      BY <1>0, <2>5, <3>1, AcquireMoves DEF SendLeg, queueVars
    <3>4. resume'[r] \in {"waiting", "failed"} /\ \A p \in Requests \ {r} : resume'[p] = resume[p]
      BY <1>0, <3>3
    <3>5. ResumersHoldNothing'
      BY <3>1, <3>2, <3>3, <3>4 DEF ResumeInv, ResumersHoldNothing
    <3>6. LegsReady'
      <4> SUFFICES ASSUME NEW q \in Requests, resume'[q] \in {"due", "failed"}
                   PROVE  /\ resume'[q] = "due" => status'[LegOf[q]] = "idle"
                          /\ ~InHand(LegOf[q])'
        BY DEF LegsReady
      <4>1. CASE q = r
        <5>1. resume'[r] = "failed" /\ status' = status
          BY <1>0, <3>3, <4>1
        <5> QED BY <3>1, <3>2, <3>4, <4>1, <5>1 DEF InHand
      <4>2. CASE q # r
        <5>1. resume[q] = resume'[q] /\ LegOf[q] \in Requests /\ LegOf[q] # l
          BY <1>0, <3>1, <3>4, <4>2, LegsAreOwn DEF ResumesByALeg
        <5>2. ~InHand(LegOf[q]) /\ LegOf[q] # r
          BY <3>1, <5>1 DEF ResumeInv, LegsReady, InHand
        <5> QED BY <3>3, <3>4, <5>1, <5>2 DEF ResumeInv, LegsReady, InHand
      <4> QED BY <4>1, <4>2
    <3>7. NoWaitCycle'
      <4> SUFFICES ASSUME NEW W \in SUBSET Waiting', W # {}
                   PROVE  \E q \in W : LegOf[q] \notin W
        BY DEF NoWaitCycle
      <4>1. CASE r \in W
        \* Its leg has only just been taken in hand: it waits for nothing.
        <5>1. l \notin Waiting'
          BY <3>2, <3>4 DEF Waiting
        <5> QED BY <4>1, <5>1
      <4>2. CASE r \notin W
        <5>1. W \subseteq Waiting
          BY <3>4, <4>2 DEF Waiting
        <5> QED BY <5>1 DEF ResumeInv, NoWaitCycle
      <4> QED BY <4>1, <4>2
    <3> QED BY <3>5, <3>6, <3>7 DEF ResumeInv
  <2>6. CASE NextChoice(r)
    <3>1. /\ resume[r] \in {"failed", "waiting"} /\ LegOf[r] \in Requests
          /\ ~InHand(LegOf[r]) /\ status[LegOf[r]] = "idle"
          /\ resume' = [resume EXCEPT ![r] = "due"] /\ status' = status
      BY <1>0, <2>6 DEF NextChoice, LegOver, ResumesByALeg, ResumeInv, LegsReady, queueVars
    <3>2. resume'[r] = "due" /\ \A p \in Requests \ {r} : resume'[p] = resume[p]
      BY <1>0, <3>1
    <3>3. ResumersHoldNothing'
      BY <3>1, <3>2 DEF ResumeInv, ResumersHoldNothing
    <3>4. LegsReady'
      BY <1>0, <3>1, <3>2 DEF ResumeInv, LegsReady, InHand, ResumesByALeg
    <3>5. NoWaitCycle'
      <4>1. Waiting' \subseteq Waiting
        BY <3>2 DEF Waiting
      <4> QED BY <4>1 DEF ResumeInv, NoWaitCycle
    <3> QED BY <3>3, <3>4, <3>5 DEF ResumeInv
  <2> QED BY <1>1, <2>1, <2>2, <2>3, <2>4, <2>5, <2>6 DEF Handles
<1>2. CASE Restart
  <2>1. \A r \in Requests : resume'[r] = "no"
    BY <1>2 DEF Restart
  <2> QED BY <2>1 DEF ResumeInv, ResumersHoldNothing, LegsReady, NoWaitCycle, Waiting
<1>3. CASE HaltCleared \/ Shutdown \/ Exit \/ TimePasses \/ UNCHANGED gatewayVars
  <2>1. UNCHANGED << resume, status >>
    BY <1>3 DEF HaltCleared, Shutdown, Exit, TimePasses, Tick, gatewayVars, ownVars, queueVars
  <2> QED BY <1>0, <2>1, ResumeQuiet
<1> QED BY <1>1, <1>2, <1>3 DEF GatewayNext

LEMMA ResumeInvHolds == GatewaySpec => [](GatewayInv /\ ResumeInv)
<1>1. GatewayInit => ResumeInv
  BY DEF GatewayInit, ResumeInv, ResumersHoldNothing, LegsReady, NoWaitCycle, Waiting
<1> QED BY <1>1, ResumeStep, GatewayInvHolds, PTL DEF GatewaySpec

\* Who waits for a slot waits for somebody who holds one.
LEMMA QueuedBehindAHolder ==
    ASSUME Inv, NEW r \in Requests, status[r] \in {"queued", "held"}
    PROVE  \E q \in Requests : status[q] = "held"
<1> SUFFICES ASSUME \A q \in Requests : status[q] # "held" PROVE FALSE
  OBVIOUS
<1>1. Held = {}
  BY DEF Held
<1>2. active = 0
  BY <1>1, FS_EmptySet DEF Inv, SlotAccounting
<1> QED BY <1>2, NoSlotTakenNobodyQueued

\* At every moment somebody's work goes on, for any number of requests, slots and
\* caps and any depth of legs: a full proxy whose streams all break off at once is
\* not stuck behind its own loopback requests (onBeforeResume, tryContinuation).
THEOREM TheProxyIsNeverStuck == GatewaySpec => []NeverStuck
<1>1. GatewayInv /\ ResumeInv => NeverStuck
  <2> SUFFICES ASSUME GatewayInv, ResumeInv, NEW r \in Requests, InHand(r)
               PROVE  \E q \in Requests : CanGo(q)
    BY DEF NeverStuck
  <2>1. ASSUME NEW p \in Requests, status[p] \in {"queued", "held"}
        PROVE  \E q \in Requests : CanGo(q)
    <3>1. PICK q \in Requests : status[q] = "held"
      BY <2>1, QueuedBehindAHolder DEF GatewayInv
    <3>2. resume[q] = "no"
      BY <3>1 DEF ResumeInv, ResumersHoldNothing
    <3> QED BY <3>1, <3>2 DEF CanGo
  <2>2. ASSUME NEW p \in Requests, resume[p] \in {"due", "failed"}
        PROVE  CanGo(p)
    BY <2>2 DEF CanGo, LegOver, ResumeInv, LegsReady
  <2>3. CASE Waiting # {}
    <3>1. PICK p \in Waiting : LegOf[p] \notin Waiting
      BY <2>3 DEF ResumeInv, NoWaitCycle
    <3>2. p \in Requests /\ resume[p] = "waiting" /\ LegOf[p] \in Requests
      BY <3>1 DEF Waiting, GatewayInv, ResumesByALeg
    <3>3. CASE ~InHand(LegOf[p])
      BY <3>2, <3>3 DEF CanGo, LegOver
    <3>4. CASE InHand(LegOf[p])
      <4>1. status[LegOf[p]] \in {"queued", "held"} \/ resume[LegOf[p]] \in {"due", "failed"}
        BY <3>1, <3>2, <3>4 DEF InHand, Waiting, GatewayInv, ResumesByALeg, Resuming
      <4> QED BY <2>1, <2>2, <3>2, <4>1
    <3> QED BY <3>3, <3>4
  <2>4. CASE Waiting = {}
    <3>1. status[r] \in {"queued", "held"} \/ resume[r] \in {"due", "failed"}
      BY <2>4 DEF InHand, Waiting, GatewayInv, ResumesByALeg, Resuming
    <3> QED BY <2>1, <2>2, <3>1
  <2> QED BY <2>3, <2>4
<1> QED BY <1>1, ResumeInvHolds, PTL
=============================================================================
