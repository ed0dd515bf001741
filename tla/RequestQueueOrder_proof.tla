------------------------ MODULE RequestQueueOrder_proof ------------------------
(***************************************************************************)
(* The order in which the request queue serves, what it says while it      *)
(* stalls, and that it implements SlotSemaphore, for every set of requests *)
(* and consumers, every limit and every timeout.                           *)
(*                                                                         *)
(* All of it rests on the inductive invariant Inv of RequestQueue_proof.   *)
(* The stall stamp is inductive next to it; the announcements need to know *)
(* that the flag stands for as long as one was counted (EpisodeInv).       *)
(***************************************************************************)
EXTENDS RequestQueue_proof

USE DEF Status, NotStalled, Ages, Dequeue

\* An announcement that counts is one the flag remembers, and the count ends with
\* the queue.
EpisodeInv ==
    /\ announcements <= 1
    /\ announcements = 1 => slowWaitAnnounced
    /\ queue = << >> => announcements = 0

-----------------------------------------------------------------------------
(* Lemmas about the operators of the model.                                *)

\* updateStall sets the stamp exactly under its condition, whatever it was before.
LEMMA StallAfterExact ==
    ASSUME NEW was \in Ages \cup {NotStalled}, NEW act, NEW q
    PROVE  /\ StallAfter(was, act, q) # NotStalled <=> act >= MaxConcurrent /\ q # << >>
           /\ StallAfter(was, act, q) \in {NotStalled, 0, was}
           /\ was # NotStalled => StallAfter(was, act, q) \in {NotStalled, was}
BY TimesAssumption DEF StallAfter

\* Admitting somebody makes room for nobody.
LEMMA AddSlotGivesNoRoom ==
    ASSUME NEW counts \in [Consumers -> Nat], NEW c \in Consumers \cup {NoConsumer}, NEW d,
           ~UnderCap(counts, c)
    PROVE  ~UnderCap(AddSlot(counts, d), c)
<1>1. c \in Consumers /\ PerConsumerCap > 0 /\ ~(counts[c] < PerConsumerCap)
  BY DEF UnderCap
<1>2. AddSlot(counts, d)[c] = counts[c] + IF c = d THEN 1 ELSE 0
  BY <1>1 DEF AddSlot
<1>3. ~(AddSlot(counts, d)[c] < PerConsumerCap)
  BY <1>1, <1>2, LimitsAssumption
<1> QED BY <1>1, <1>3, ConsumersAssumption DEF UnderCap

\* A queue entry is a request that waits, and is not a holder.
LEMMA EntryWaits ==
    ASSUME Inv, NEW i \in DOMAIN queue
    PROVE  /\ queue[i] \in Requests /\ status[queue[i]] = "queued"
           /\ ConsumerOf[queue[i]] \in Consumers \cup {NoConsumer}
<1>1. queue[i] \in ToSet(queue)
  BY DEF ToSet
<1> QED BY <1>1, ConsumersAssumption DEF Inv, QueueExact

-----------------------------------------------------------------------------
(* The stall stamp and the announcements.                                  *)

LEMMA StallStep ==
    ASSUME Inv, StallStampExact, [QueueNext]_queueVars
    PROVE  StallStampExact'
<1> USE DEF StallStampExact
<1>0. stalledFor \in Ages \cup {NotStalled} /\ NotStalled \in Ages \cup {NotStalled}
  BY DEF Inv, TypeOK
<1>1. ASSUME NEW r \in Requests, AcquireAdmit(r) PROVE StallStampExact'
  BY <1>0, <1>1, StallAfterExact DEF AcquireAdmit
<1>2. ASSUME NEW r \in Requests, AcquireEnqueue(r) PROVE StallStampExact'
  BY <1>0, <1>2, StallAfterExact DEF AcquireEnqueue
<1>3. ASSUME NEW r \in Requests, AcquireReject(r) \/ Answered(r) PROVE StallStampExact'
  BY <1>3 DEF AcquireReject, Answered
<1>4. ASSUME NEW r \in Requests, TimeoutFires(r) PROVE StallStampExact'
  BY <1>0, <1>4, StallAfterExact DEF TimeoutFires
<1>5. ASSUME NEW r \in Requests, ReleaseToNobody(r) PROVE StallStampExact'
  BY <1>0, <1>5, StallAfterExact DEF ReleaseToNobody
<1>6. ASSUME NEW r \in Requests, ReleaseToWaiter(r) PROVE StallStampExact'
  <2>1. stalledFor' = StallAfter(NotStalled, active', queue')
    BY <1>6 DEF ReleaseToWaiter
  <2> QED BY <1>0, <2>1, StallAfterExact
<1>7. CASE Tick
  <2>1. \A age \in Ages : Older(age) # NotStalled
    BY TimesAssumption DEF Older
  <2> QED BY <1>0, <1>7, <2>1 DEF Tick
<1>8. CASE UNCHANGED queueVars
  BY <1>8 DEF queueVars
<1> QED BY <1>1, <1>2, <1>3, <1>4, <1>5, <1>6, <1>7, <1>8 DEF QueueNext, Release

LEMMA EpisodeStep ==
    ASSUME Inv, EpisodeInv, [QueueNext]_queueVars
    PROVE  EpisodeInv'
<1> USE DEF EpisodeInv
<1>0. announcements \in {0, 1} /\ slowWaitAnnounced \in BOOLEAN
  BY DEF Inv, TypeOK
<1>1. ASSUME NEW r \in Requests, AcquireEnqueue(r) PROVE EpisodeInv'
  <2>1. queue' # << >>
    BY <1>1 DEF AcquireEnqueue, Inv, TypeOK
  <2> QED BY <1>1, <2>1 DEF AcquireEnqueue
<1>2. ASSUME NEW r \in Requests, TimeoutFires(r) PROVE EpisodeInv'
  BY <1>0, <1>2 DEF TimeoutFires
<1>3. ASSUME NEW r \in Requests, ReleaseToNobody(r) PROVE EpisodeInv'
  BY <1>0, <1>3 DEF ReleaseToNobody
<1>4. ASSUME NEW r \in Requests, ReleaseToWaiter(r) PROVE EpisodeInv'
  <2>1. PICK next :
          /\ slowWaitAnnounced' = ((slowWaitAnnounced \/ Announces(next)) /\ queue' # << >>)
          /\ announcements' =
               IF queue' = << >> THEN 0 ELSE announcements + IF Announces(next) THEN 1 ELSE 0
    BY <1>4 DEF ReleaseToWaiter
  <2>2. Announces(next) => announcements = 0
    BY <1>0 DEF Announces
  <2>3. /\ announcements' \in {0, 1}
        /\ announcements' = 1 => queue' # << >> /\ (announcements = 1 \/ Announces(next))
        /\ queue' = << >> => announcements' = 0
    <3>1. 0 + 1 = 1 /\ 0 + 0 = 0 /\ 1 + 0 = 1 /\ 0 # 1
      OBVIOUS
    <3> QED BY <1>0, <2>1, <2>2, <3>1
  <2>4. announcements' = 1 => slowWaitAnnounced'
    BY <2>1, <2>3
  <2> QED BY <2>3, <2>4
<1>5. ASSUME NEW r \in Requests, AcquireAdmit(r) \/ AcquireReject(r) \/ Answered(r)
      PROVE  EpisodeInv'
  BY <1>5 DEF AcquireAdmit, AcquireReject, Answered
<1>6. CASE Tick
  BY <1>6 DEF Tick
<1>7. CASE UNCHANGED queueVars
  BY <1>7 DEF queueVars
<1> QED BY <1>1, <1>2, <1>3, <1>4, <1>5, <1>6, <1>7 DEF QueueNext, Release

\* The stall stamp stands exactly while the slots are taken and somebody waits
\* (updateStall is called wherever either changes).
THEOREM StallStampIsExact == QueueSpec => []StallStampExact
<1>1. QueueInit => StallStampExact
  BY DEF QueueInit, StallStampExact
<1> QED BY <1>1, InvHolds, StallStep, PTL DEF QueueSpec

\* A slow wait is announced at most once before the queue is empty again (release).
THEOREM AnnouncedAtMostOnce == QueueSpec => []AnnouncedOncePerEpisode
<1>1. QueueInit => EpisodeInv
  BY DEF QueueInit, EpisodeInv
<1>2. EpisodeInv => AnnouncedOncePerEpisode
  BY DEF EpisodeInv, AnnouncedOncePerEpisode
<1> QED BY <1>1, <1>2, InvHolds, EpisodeStep, PTL DEF QueueSpec

-----------------------------------------------------------------------------
(* The order of service.                                                   *)

\* What one step owes to those in front of a request that takes a slot.
KeepsOrder ==
    \A r \in Requests : Gained(r) =>
      \A q \in Requests : (q # r /\ AheadOf(q, r)) => ~UnderCap(activeByConsumer', ConsumerOf[q])

\* A newcomer passes only waiters their caps hold back: with a slot free there are
\* no others (WorkConserving).
LEMMA AdmitKeepsOrder ==
    ASSUME Inv, NEW r0 \in Requests, AcquireAdmit(r0)
    PROVE  KeepsOrder
<1> SUFFICES ASSUME NEW r \in Requests, Gained(r), NEW q \in Requests, q # r, AheadOf(q, r)
             PROVE  ~UnderCap(activeByConsumer', ConsumerOf[q])
  BY DEF KeepsOrder
<1>1. PICK i \in DOMAIN queue : queue[i] = q
  BY DEF AheadOf
<1>2. active < MaxConcurrent
  BY DEF AcquireAdmit, MayAdmit
<1>3. ~UnderCap(activeByConsumer, ConsumerOf[q])
  BY <1>1, <1>2 DEF Inv, WorkConserving, ConsumerFree
<1>4. activeByConsumer' = AddSlot(activeByConsumer, ConsumerOf[r0]) /\ activeByConsumer \in [Consumers -> Nat]
  BY DEF AcquireAdmit, Inv, TypeOK
<1>5. ConsumerOf[q] \in Consumers \cup {NoConsumer}
  BY ConsumersAssumption
<1> QED BY <1>3, <1>4, <1>5, AddSlotGivesNoRoom

\* A release passes over only waiters their caps hold back: it takes the first it may.
LEMMA ReleaseKeepsOrder ==
    ASSUME Inv, NEW r0 \in Requests, ReleaseToWaiter(r0)
    PROVE  KeepsOrder
<1> DEFINE counts == DropSlot(activeByConsumer, ConsumerOf[r0])
<1>1. PICK i \in Admissible(counts) :
        /\ FirstOf(i, Admissible(counts))
        /\ status' = [status EXCEPT ![r0] = "idle", ![queue[i]] = "held"]
        /\ activeByConsumer' = AddSlot(counts, ConsumerOf[queue[i]])
  BY DEF ReleaseToWaiter
<1>2. counts \in [Consumers -> Nat]
  BY DEF DropSlot, Inv, TypeOK
<1> HIDE DEF counts
<1> SUFFICES ASSUME NEW r \in Requests, Gained(r), NEW q \in Requests, q # r, AheadOf(q, r)
             PROVE  ~UnderCap(activeByConsumer', ConsumerOf[q])
  BY DEF KeepsOrder
<1>3. r = queue[i]
  BY <1>1 DEF Gained, Inv, TypeOK
<1>4. PICK k \in DOMAIN queue : queue[k] = q /\ \A j \in 1..k : queue[j] # r
  BY DEF AheadOf
<1>5. i \in DOMAIN queue /\ i \in Nat /\ k \in Nat /\ i >= 1
  BY DEF Admissible, Inv, TypeOK
<1>6. ~(i <= k)
  BY <1>3, <1>4, <1>5
<1>7. ~UnderCap(counts, ConsumerOf[q])
  BY <1>1, <1>4, <1>6 DEF FirstOf, Admissible
<1>8. ConsumerOf[q] \in Consumers \cup {NoConsumer}
  BY ConsumersAssumption
<1> QED BY <1>1, <1>2, <1>7, <1>8, AddSlotGivesNoRoom

LEMMA OrderStep ==
    ASSUME Inv, [QueueNext]_queueVars
    PROVE  KeepsOrder
<1>1. ASSUME NEW r \in Requests, AcquireAdmit(r) PROVE KeepsOrder
  BY <1>1, AdmitKeepsOrder
<1>2. ASSUME NEW r \in Requests, ReleaseToWaiter(r) PROVE KeepsOrder
  BY <1>2, ReleaseKeepsOrder
<1>3. ASSUME \A r \in Requests : status'[r] = "held" => status[r] = "held"
      PROVE  KeepsOrder
  BY <1>3 DEF KeepsOrder, Gained
<1>4. ASSUME NEW r \in Requests,
             AcquireEnqueue(r) \/ AcquireReject(r) \/ TimeoutFires(r) \/ ReleaseToNobody(r) \/ Answered(r)
      PROVE  KeepsOrder
  <2>1. \E st \in {"queued", "full", "timeout", "idle"} : status' = [status EXCEPT ![r] = st]
    BY <1>4 DEF AcquireEnqueue, AcquireReject, TimeoutFires, ReleaseToNobody, Answered
  <2> QED BY <1>3, <2>1 DEF Inv, TypeOK
<1>5. CASE Tick \/ UNCHANGED queueVars
  BY <1>3, <1>5 DEF Tick, queueVars
<1> QED BY <1>1, <1>2, <1>4, <1>5 DEF QueueNext, Release

\* What one step may do to a stamp that stands.
KeepsStamp ==
    stalledFor > 0 =>
      IF \E r \in Requests : status[r] = "held" /\ status'[r] = "idle"
      THEN stalledFor' \in {NotStalled, 0}
      ELSE stalledFor' \in {NotStalled, stalledFor, Older(stalledFor)}

LEMMA StampStep ==
    ASSUME Inv, [QueueNext]_queueVars
    PROVE  KeepsStamp
<1> DEFINE Releases == \E r \in Requests : status[r] = "held" /\ status'[r] = "idle"
<1> SUFFICES ASSUME stalledFor > 0
             PROVE  IF Releases THEN stalledFor' \in {NotStalled, 0}
                    ELSE stalledFor' \in {NotStalled, stalledFor, Older(stalledFor)}
  BY DEF KeepsStamp
<1>0. stalledFor \in Ages \cup {NotStalled} /\ stalledFor # NotStalled
  BY DEF Inv, TypeOK
<1>1. ASSUME NEW r \in Requests, ReleaseToNobody(r) \/ ReleaseToWaiter(r)
      PROVE  Releases /\ stalledFor' \in {NotStalled, 0}
  <2>1. status[r] = "held"
    BY <1>1 DEF ReleaseToNobody, ReleaseToWaiter
  <2>2. status'[r] = "idle"
    <3>1. CASE ReleaseToNobody(r)
      BY <3>1 DEF ReleaseToNobody, Inv, TypeOK
    <3>2. CASE ReleaseToWaiter(r)
      <4>1. PICK i \in DOMAIN queue : status' = [status EXCEPT ![r] = "idle", ![queue[i]] = "held"]
        BY <3>2 DEF ReleaseToWaiter, Admissible
      <4> QED BY <2>1, <4>1, EntryWaits DEF Inv, TypeOK
    <3> QED BY <1>1, <3>1, <3>2
  <2>3. \E act, q : stalledFor' = StallAfter(NotStalled, act, q)
    BY <1>1 DEF ReleaseToNobody, ReleaseToWaiter
  <2>4. stalledFor' \in {NotStalled, 0}
    BY <2>3, StallAfterExact
  <2> QED BY <2>1, <2>2, <2>4
<1>2. ASSUME NEW r \in Requests,
             AcquireAdmit(r) \/ AcquireEnqueue(r) \/ AcquireReject(r) \/ TimeoutFires(r) \/ Answered(r)
      PROVE  ~Releases /\ stalledFor' \in {NotStalled, stalledFor}
  <2>1. \/ stalledFor' = stalledFor
        \/ \E act, q : stalledFor' = StallAfter(stalledFor, act, q)
    BY <1>2 DEF AcquireAdmit, AcquireEnqueue, AcquireReject, TimeoutFires, Answered
  <2>2. stalledFor' \in {NotStalled, stalledFor}
    BY <1>0, <2>1, StallAfterExact
  <2>3. \/ \E st \in {"held", "queued", "full", "timeout"} : status' = [status EXCEPT ![r] = st]
        \/ status[r] # "held" /\ status' = [status EXCEPT ![r] = "idle"]
        \/ status' = status
    BY <1>2 DEF AcquireAdmit, AcquireEnqueue, AcquireReject, TimeoutFires, Answered
  <2>4. ~Releases
    BY <2>3 DEF Inv, TypeOK
  <2> QED BY <2>2, <2>4
<1>3. CASE Tick
  <2>1. ~Releases
    BY <1>3 DEF Tick
  <2>2. stalledFor' = Older(stalledFor)
    BY <1>0, <1>3 DEF Tick
  <2> QED BY <2>1, <2>2
<1>4. CASE UNCHANGED queueVars
  BY <1>4 DEF queueVars
<1> QED BY <1>1, <1>2, <1>3, <1>4 DEF QueueNext, Release

\* Whoever takes a slot overtakes only waiters whose consumer is at its cap
\* (decideConsumerAdmit, and the scan of release).
THEOREM NobodyOvertakes == QueueSpec => NoOvertaking
<1>1. Inv /\ [QueueNext]_queueVars => [KeepsOrder]_queueVars
  BY OrderStep
<1> QED BY <1>1, InvHolds, PTL DEF QueueSpec, NoOvertaking, KeepsOrder

\* Only a release restarts the stall stamp (updateStall(true), release).
THEOREM OnlyReleaseRestartsTheStamp == QueueSpec => StampRestartsOnlyOnRelease
<1>1. Inv /\ [QueueNext]_queueVars => [KeepsStamp]_queueVars
  BY StampStep
<1> QED BY <1>1, InvHolds, PTL DEF QueueSpec, StampRestartsOnlyOnRelease, KeepsStamp

-----------------------------------------------------------------------------
(* The queue implements SlotSemaphore.                                     *)

\* Asking the counters is asking the holders, as long as the counters are theirs.
LEMMA CountersDecide ==
    ASSUME NEW H \in SUBSET Requests, NEW act, NEW counts \in [Consumers -> Nat],
           Accounts(act, counts, H), NEW r \in Requests
    PROVE  Slots!MayHold(H, r) <=> act < MaxConcurrent /\ UnderCap(counts, ConsumerOf[r])
<1> DEFINE own == Cardinality({q \in H : ConsumerOf[q] = ConsumerOf[r]})
<1>1. ConsumerOf[r] # NoConsumer => counts[ConsumerOf[r]] = own
  BY ConsumersAssumption DEF Accounts
<1>2. act = Cardinality(H)
  BY DEF Accounts
<1>3. Slots!MayHold(H, r) <=>
        /\ Cardinality(H) < MaxConcurrent
        /\ ConsumerOf[r] # NoConsumer /\ PerConsumerCap > 0 => own < PerConsumerCap
  BY Zenon DEF Slots!MayHold, Slots!Cardinality, Cardinality
<1> HIDE DEF own
<1> QED BY <1>1, <1>2, <1>3 DEF UnderCap

\* The state the semaphore is seen in.
LEMMA HoldersCounted ==
    ASSUME Inv
    PROVE  /\ Held \in SUBSET Requests /\ activeByConsumer \in [Consumers -> Nat]
           /\ Accounts(active, activeByConsumer, Held)
           /\ \A r \in Requests : status[r] \notin {"held", "queued"} => Slots!Outside(r)
           /\ \A i \in DOMAIN queue : queue[i] \in Requests
<1>1. Accounts(active, activeByConsumer, Held)
  BY AccountingForm DEF Inv
<1>2. \A r \in Requests : r \in ToSet(queue) => status[r] = "queued"
  BY DEF Inv, QueueExact
<1>3. \A r \in Requests : status[r] \notin {"held", "queued"} => Slots!Outside(r)
  BY <1>2 DEF Held, Slots!Outside, Slots!ToSet, ToSet
<1> QED BY <1>1, <1>3, EntryWaits DEF Held, Inv, TypeOK

LEMMA AdmitTakes ==
    ASSUME Inv, NEW r \in Requests, AcquireAdmit(r)
    PROVE  Slots!Take(r)
<1>1. Slots!Outside(r)
  BY HoldersCounted DEF AcquireAdmit
<1>2. Slots!MayHold(Held, r)
  BY HoldersCounted, CountersDecide DEF AcquireAdmit, MayAdmit
<1>3. Slots!Servable(Held) = {}
  <2>1. ASSUME NEW i \in DOMAIN queue PROVE ~Slots!MayHold(Held, queue[i])
    <3>1. ~UnderCap(activeByConsumer, ConsumerOf[queue[i]])
      BY DEF Inv, WorkConserving, ConsumerFree, AcquireAdmit, MayAdmit
    <3> QED BY <3>1, HoldersCounted, CountersDecide
  <2> QED BY <2>1 DEF Slots!Servable
<1>4. Held' = Held \cup {r}
  BY DEF AcquireAdmit, Inv, TypeOK, Held
<1> QED BY <1>1, <1>2, <1>3, <1>4 DEF Slots!Take, AcquireAdmit

LEMMA EnqueueWaits ==
    ASSUME Inv, NEW r \in Requests, AcquireEnqueue(r)
    PROVE  Slots!Wait(r)
<1>1. Slots!Outside(r)
  BY HoldersCounted DEF AcquireEnqueue
<1>2. ~Slots!MayHold(Held, r)
  BY HoldersCounted, CountersDecide DEF AcquireEnqueue, MayAdmit
<1>3. Held' = Held
  BY DEF AcquireEnqueue, Inv, TypeOK, Held
<1> QED BY <1>1, <1>2, <1>3 DEF Slots!Wait, AcquireEnqueue

LEMMA TimeoutLeaves ==
    ASSUME Inv, NEW r \in Requests, TimeoutFires(r)
    PROVE  Slots!Leave(r)
<1>1. PICK i \in DOMAIN queue : queue[i] = r /\ queue' = RemoveAt(queue, i)
  BY DEF TimeoutFires
<1>2. Held' = Held
  BY <1>1, EntryWaits DEF TimeoutFires, Inv, TypeOK, Held
<1> QED BY <1>1, <1>2 DEF Slots!Leave, Slots!RemoveAt, RemoveAt

\* After a release the counters decide as the remaining holders do: what was
\* freed is a slot, so only the consumers' caps are left to ask about.
LEMMA ReleaseDecides ==
    ASSUME Inv, NEW r \in Requests, status[r] = "held"
    PROVE  /\ r \in Held
           /\ Slots!Servable(Held \ {r}) = Admissible(DropSlot(activeByConsumer, ConsumerOf[r]))
<1> DEFINE counts == DropSlot(activeByConsumer, ConsumerOf[r])
<1>1. /\ counts \in [Consumers -> Nat]
      /\ Accounts(active - 1, counts, Held \ {r})
  BY ReleaserCounted
<1> HIDE DEF counts
<1>2. active - 1 < MaxConcurrent
  BY LimitsAssumption DEF Inv, TypeOK, CapsRespected, SlotAccounting
<1>3. ASSUME NEW i \in DOMAIN queue
      PROVE  Slots!MayHold(Held \ {r}, queue[i]) <=> UnderCap(counts, ConsumerOf[queue[i]])
  <2>1. Held \ {r} \in SUBSET Requests /\ queue[i] \in Requests
    BY HoldersCounted
  <2> QED BY <1>1, <1>2, <2>1, CountersDecide
<1>4. Slots!Servable(Held \ {r}) = Admissible(counts)
  BY <1>3 DEF Slots!Servable, Admissible
<1>5. r \in Held
  BY DEF Held
<1> QED BY <1>4, <1>5 DEF counts

LEMMA ReleaseGivesBack ==
    ASSUME Inv, NEW r \in Requests, ReleaseToNobody(r)
    PROVE  Slots!GiveBack(r)
<1>1. status[r] = "held"
  BY DEF ReleaseToNobody
<1>2. Held' = Held \ {r}
  BY DEF ReleaseToNobody, Inv, TypeOK, Held
<1>3. Slots!Servable(Held \ {r}) = {} /\ UNCHANGED queue
  BY <1>1, ReleaseDecides DEF ReleaseToNobody
<1> QED BY <1>1, <1>2, <1>3, ReleaseDecides DEF Slots!GiveBack

LEMMA ReleasePassesOn ==
    ASSUME Inv, NEW r \in Requests, ReleaseToWaiter(r)
    PROVE  Slots!PassOn(r)
<1> DEFINE counts == DropSlot(activeByConsumer, ConsumerOf[r])
<1>1. status[r] = "held"
  BY DEF ReleaseToWaiter
<1>2. PICK i \in Admissible(counts) :
        /\ FirstOf(i, Admissible(counts))
        /\ status' = [status EXCEPT ![r] = "idle", ![queue[i]] = "held"]
        /\ queue' = RemoveAt(queue, i)
  BY DEF ReleaseToWaiter
<1>3. r \in Held /\ Slots!Servable(Held \ {r}) = Admissible(counts)
  BY <1>1, ReleaseDecides
<1> HIDE DEF counts
<1>4. i \in DOMAIN queue
  BY DEF Admissible
<1>5. queue[i] \in Requests /\ status[queue[i]] = "queued"
  BY <1>4, EntryWaits
<1>6. Held' = (Held \ {r}) \cup {queue[i]}
  BY <1>1, <1>2, <1>5 DEF Inv, TypeOK, Held
<1> QED BY <1>2, <1>3, <1>6 DEF Slots!PassOn, Slots!RemoveAt, RemoveAt, FirstOf

LEMMA SemaphoreStep ==
    ASSUME Inv, [QueueNext]_queueVars
    PROVE  [Slots!SemaphoreNext]_(Slots!semaphoreVars)
<1> USE DEF Slots!SemaphoreNext, Slots!semaphoreVars
<1>1. ASSUME NEW r \in Requests, AcquireAdmit(r) PROVE Slots!SemaphoreNext
  BY <1>1, AdmitTakes
<1>2. ASSUME NEW r \in Requests, AcquireEnqueue(r) PROVE Slots!SemaphoreNext
  BY <1>2, EnqueueWaits
<1>3. ASSUME NEW r \in Requests, TimeoutFires(r) PROVE Slots!SemaphoreNext
  BY <1>3, TimeoutLeaves
<1>4. ASSUME NEW r \in Requests, Release(r) PROVE Slots!SemaphoreNext
  BY <1>4, ReleaseGivesBack, ReleasePassesOn DEF Release
<1>5. ASSUME NEW r \in Requests, AcquireReject(r) \/ Answered(r)
      PROVE  UNCHANGED Slots!semaphoreVars
  <2>1. Held' = Held
    BY <1>5 DEF AcquireReject, Answered, Inv, TypeOK, Held
  <2> QED BY <1>5, <2>1 DEF AcquireReject, Answered
<1>6. CASE Tick \/ UNCHANGED queueVars
  <2>1. Held' = Held
    BY <1>6 DEF Tick, queueVars, Held
  <2> QED BY <1>6, <2>1 DEF Tick, queueVars
<1> QED BY <1>1, <1>2, <1>3, <1>4, <1>5, <1>6 DEF QueueNext

\* Every behaviour of the queue, seen through who holds a slot and who waits, is a
\* behaviour of the semaphore with caps (class RequestQueue).
THEOREM QueueIsASemaphore == QueueSpec => ImplementsSemaphore
<1>1. QueueInit => Slots!SemaphoreInit
  BY DEF QueueInit, Slots!SemaphoreInit, Held
<1>2. Inv /\ [QueueNext]_queueVars => [Slots!SemaphoreNext]_(Slots!semaphoreVars)
  BY SemaphoreStep
<1> QED BY <1>1, <1>2, InvHolds, PTL DEF QueueSpec, ImplementsSemaphore, Slots!SemaphoreSpec
=============================================================================
