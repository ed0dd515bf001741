---------------------------- MODULE RequestQueue ----------------------------
(***************************************************************************)
(* The bounded request queue of the proxy (src/request-queue.ts).          *)
(*                                                                         *)
(* A request asks for one of MaxConcurrent slots.  It is admitted, queued, *)
(* or refused ("full"); a queued request is admitted by the release that   *)
(* frees a slot for it, or its timer fires ("timeout").  A consumer may    *)
(* hold at most PerConsumerCap slots (0 switches that gate off), and its   *)
(* waiters do not hold up anybody else's.                                  *)
(*                                                                         *)
(* A JavaScript call runs to completion, so acquire, release and a timer   *)
(* callback are one atomic action each.  Time is kept as ages that grow    *)
(* with Tick and stop at AgeCap: the code only asks whether a wait has     *)
(* reached the timeout or the announcement threshold.                      *)
(*                                                                         *)
(* Definitions marked "variant" are faulty forms of the definition below   *)
(* them; no behaviour uses them.  They show that the properties bite.      *)
(***************************************************************************)
EXTENDS Integers, FiniteSets, SequencesExt

CONSTANTS Requests,       \* identities a client reuses for one request after another
          Consumers,      \* names a request can carry
          NoConsumer,     \* a request that names none
          ConsumerOf,     \* Requests -> Consumers \cup {NoConsumer}
          MaxConcurrent,  \* --max-concurrent
          MaxQueued,      \* --max-queued
          PerConsumerCap, \* --max-concurrent-per-consumer, 0 = off
          QueueTimeout,   \* --queue-timeout, in ticks
          AnnounceAfter,  \* SLOT_WAIT_ANNOUNCE_MS, in ticks
          AgeCap          \* bound: ages are not told apart beyond it

ASSUME RequestsAssumption == IsFiniteSet(Requests)
ASSUME ConsumersAssumption ==
    /\ NoConsumer \notin Consumers
    /\ ConsumerOf \in [Requests -> Consumers \cup {NoConsumer}]
ASSUME LimitsAssumption ==
    /\ MaxConcurrent \in Nat
    /\ MaxQueued \in Nat
    /\ PerConsumerCap \in Nat
ASSUME TimesAssumption ==
    /\ AgeCap \in Nat /\ QueueTimeout \in Nat /\ AnnounceAfter \in Nat
    /\ AnnounceAfter <= AgeCap

VARIABLES
    status,             \* where each request is: see Status
    active,             \* slots taken
    activeByConsumer,   \* slots taken by each consumer
    queue,              \* the waiting requests, oldest first
    waited,             \* age of each request's queue entry
    stalledFor,         \* age of the stalledSince stamp, or NotStalled
    slowWaitAnnounced,  \* the announcement of this episode was made
    announcements       \* history: announcements since the queue was last empty

queueVars == << status, active, activeByConsumer, queue, waited, stalledFor,
                slowWaitAnnounced, announcements >>

Status == {"idle", "queued", "held", "full", "timeout"}
NotStalled == -1
Ages == 0..AgeCap
Older(age) == IF age < AgeCap THEN age + 1 ELSE AgeCap

\* A consumer is under its cap when there is no cap, no consumer, or room.
UnderCap(counts, c) ==
    c # NoConsumer /\ PerConsumerCap > 0 => counts[c] < PerConsumerCap

AddSlot(counts, c)  == [d \in Consumers |-> counts[d] + IF d = c THEN 1 ELSE 0]
DropSlotForgotten(counts, c) == counts                                   \* variant
DropSlotOfAll(counts, c) == [d \in Consumers |-> counts[d] - 1]           \* variant
DropSlot(counts, c) ==
    [d \in Consumers |-> IF d = c /\ counts[d] > 0 THEN counts[d] - 1 ELSE counts[d]]

StallWithoutWaiters(was, act, q) ==                                      \* variant
    IF act >= MaxConcurrent THEN IF was = NotStalled THEN 0 ELSE was ELSE NotStalled
StallRefreshed(was, act, q) ==                                           \* variant
    IF act >= MaxConcurrent /\ q # << >> THEN 0 ELSE NotStalled
\* updateStall: the stamp marks when the stall began; only release clears it first.
StallAfter(was, act, q) ==
    IF act >= MaxConcurrent /\ q # << >>
    THEN IF was = NotStalled THEN 0 ELSE was
    ELSE NotStalled

QueueInit ==
    /\ status = [r \in Requests |-> "idle"]
    /\ active = 0
    /\ activeByConsumer = [c \in Consumers |-> 0]
    /\ queue = << >>
    /\ waited = [r \in Requests |-> 0]
    /\ stalledFor = NotStalled
    /\ slowWaitAnnounced = FALSE
    /\ announcements = 0

-----------------------------------------------------------------------------
(* acquire: the three outcomes of decideConsumerAdmit ?? decideAdmit.      *)

MayAdmitUncapped(r) == active < MaxConcurrent                            \* variant
MayAdmit(r) == /\ UnderCap(activeByConsumer, ConsumerOf[r])
               /\ active < MaxConcurrent

AcquireAdmit(r) ==
    /\ status[r] = "idle"
    /\ MayAdmit(r)
    /\ status' = [status EXCEPT ![r] = "held"]
    /\ active' = active + 1
    /\ activeByConsumer' = AddSlot(activeByConsumer, ConsumerOf[r])
    /\ stalledFor' = StallAfter(stalledFor, active', queue)
    /\ UNCHANGED << queue, waited, slowWaitAnnounced, announcements >>

AcquireEnqueue(r) ==
    /\ status[r] = "idle"
    /\ ~MayAdmit(r)
    /\ Len(queue) < MaxQueued
    /\ status' = [status EXCEPT ![r] = "queued"]
    /\ queue' = Append(queue, r)
    /\ waited' = [waited EXCEPT ![r] = 0]
    /\ stalledFor' = StallAfter(stalledFor, active, queue')
    /\ UNCHANGED << active, activeByConsumer, slowWaitAnnounced, announcements >>

AcquireReject(r) ==
    /\ status[r] = "idle"
    /\ ~MayAdmit(r)
    /\ Len(queue) >= MaxQueued
    /\ status' = [status EXCEPT ![r] = "full"]
    /\ UNCHANGED << active, activeByConsumer, queue, waited, stalledFor,
                    slowWaitAnnounced, announcements >>

TimerDue(r) == waited[r] >= QueueTimeout

DequeueHead(i) == Tail(queue)                                            \* variant
Dequeue(i) == RemoveAt(queue, i)

\* The entry's timer: the callback finds the entry still queued and removes it.
TimeoutFires(r) ==
    \E i \in DOMAIN queue :
        /\ queue[i] = r
        /\ TimerDue(r)
        /\ queue' = Dequeue(i)
        /\ status' = [status EXCEPT ![r] = "timeout"]
        /\ waited' = [waited EXCEPT ![r] = 0]
        /\ stalledFor' = StallAfter(stalledFor, active, queue')
        /\ announcements' = IF queue' = << >> THEN 0 ELSE announcements
        /\ UNCHANGED << active, activeByConsumer, slowWaitAnnounced >>

-----------------------------------------------------------------------------
(* release: give the slot back, then admit the first admissible waiter.    *)

AfterDrop == IF active > 0 THEN active - 1 ELSE active

AdmissibleHead(counts) ==                                                \* variant
    {i \in DOMAIN queue : i = 1 /\ UnderCap(counts, ConsumerOf[queue[i]])}
Admissible(counts) == {i \in DOMAIN queue : UnderCap(counts, ConsumerOf[queue[i]])}

NewestOf(i, S) == \A j \in S : i >= j                                    \* variant
FirstOf(i, S) == \A j \in S : i <= j

AnnounceEachWait(r) == waited[r] >= AnnounceAfter                        \* variant
Announces(r) == waited[r] >= AnnounceAfter /\ ~slowWaitAnnounced

ReleaseToNobody(r) ==
    LET counts == DropSlot(activeByConsumer, ConsumerOf[r]) IN
    /\ status[r] = "held"
    /\ Admissible(counts) = {}
    /\ status' = [status EXCEPT ![r] = "idle"]
    /\ active' = AfterDrop
    /\ activeByConsumer' = counts
    /\ slowWaitAnnounced' = (slowWaitAnnounced /\ queue # << >>)
    /\ stalledFor' = StallAfter(NotStalled, active', queue)
    /\ UNCHANGED << queue, waited, announcements >>

ReleaseToWaiter(r) ==
    LET counts == DropSlot(activeByConsumer, ConsumerOf[r]) IN
    \E i \in Admissible(counts) :
        LET next == queue[i] IN
        /\ status[r] = "held"
        /\ FirstOf(i, Admissible(counts))
        /\ status' = [status EXCEPT ![r] = "idle", ![next] = "held"]
        /\ active' = AfterDrop + 1
        /\ activeByConsumer' = AddSlot(counts, ConsumerOf[next])
        /\ queue' = Dequeue(i)
        /\ waited' = [waited EXCEPT ![next] = 0]
        /\ slowWaitAnnounced' = ((slowWaitAnnounced \/ Announces(next)) /\ queue' # << >>)
        /\ announcements' =
             IF queue' = << >> THEN 0 ELSE announcements + IF Announces(next) THEN 1 ELSE 0
        /\ stalledFor' = StallAfter(NotStalled, active', queue')

Release(r) == ReleaseToNobody(r) \/ ReleaseToWaiter(r)

-----------------------------------------------------------------------------
\* The client has its 429 or 504 and comes back with another request.
Answered(r) ==
    /\ status[r] \in {"full", "timeout"}
    /\ status' = [status EXCEPT ![r] = "idle"]
    /\ UNCHANGED << active, activeByConsumer, queue, waited, stalledFor,
                    slowWaitAnnounced, announcements >>

Tick ==
    /\ waited' = [r \in Requests |->
                    IF status[r] = "queued" THEN Older(waited[r]) ELSE waited[r]]
    /\ stalledFor' = IF stalledFor = NotStalled THEN NotStalled ELSE Older(stalledFor)
    /\ UNCHANGED << status, active, activeByConsumer, queue,
                    slowWaitAnnounced, announcements >>

QueueNext ==
    \/ Tick
    \/ \E r \in Requests :
         \/ AcquireAdmit(r) \/ AcquireEnqueue(r) \/ AcquireReject(r)
         \/ TimeoutFires(r) \/ Release(r) \/ Answered(r)

QueueSpec == QueueInit /\ [][QueueNext]_queueVars

-----------------------------------------------------------------------------
Held == {r \in Requests : status[r] = "held"}
HeldBy(c) == {r \in Held : ConsumerOf[r] = c}
ConsumerFree(r) == UnderCap(activeByConsumer, ConsumerOf[r])

\* The types of the variables (class RequestQueue, its private fields).
TypeOK ==
    /\ status \in [Requests -> Status]
    /\ active \in Nat
    /\ activeByConsumer \in [Consumers -> Nat]
    /\ queue \in Seq(Requests)
    /\ waited \in [Requests -> Ages]
    /\ stalledFor \in Ages \cup {NotStalled}
    /\ slowWaitAnnounced \in BOOLEAN
    /\ announcements \in Nat

\* Every slot counted is held by exactly one request and every holder is counted,
\* in total and for its consumer: no sequence of admissions, timeouts and releases
\* leaks a slot or hands one out twice.
SlotAccounting ==
    /\ active = Cardinality(Held)
    /\ \A c \in Consumers : activeByConsumer[c] = Cardinality(HeldBy(c))

\* The queue holds each waiting request once and nobody else.
QueueExact ==
    /\ \A i, j \in DOMAIN queue : queue[i] = queue[j] => i = j
    /\ {r \in Requests : status[r] = "queued"} = ToSet(queue)

\* The configured ceilings hold whatever the order of arrivals, releases and timers.
CapsRespected ==
    /\ Cardinality(Held) <= MaxConcurrent
    /\ PerConsumerCap > 0 =>
         \A c \in Consumers : Cardinality(HeldBy(c)) <= PerConsumerCap
    /\ Len(queue) <= MaxQueued

\* No slot idles while somebody could use it: with a slot free, every waiter is
\* held back by its own consumer's cap.  One release admits one waiter, so this
\* says that one is always enough.
WorkConserving ==
    active < MaxConcurrent => \A i \in DOMAIN queue : ~ConsumerFree(queue[i])

\* The stall stamp is set exactly while the queue is at capacity with waiters.
StallStampExact ==
    stalledFor # NotStalled <=> active >= MaxConcurrent /\ queue # << >>

\* "Said once per episode": at most one announcement until the queue drains.
AnnouncedOncePerEpisode == announcements <= 1

-----------------------------------------------------------------------------
Gained(r) == status[r] # "held" /\ status'[r] = "held"
\* q was waiting in front of r: r arrived just now, or stood behind q.
AheadOf(q, r) ==
    \E i \in DOMAIN queue :
        /\ queue[i] = q
        /\ \A j \in 1..i : queue[j] # r

\* Nobody is overtaken while admissible: when r takes a slot, on arrival or from
\* the queue, every request that was waiting in front of it is one whose consumer
\* is at its cap.
NoOvertaking ==
    [][\A r \in Requests : Gained(r) =>
         \A q \in Requests : (q # r /\ AheadOf(q, r)) => ~UnderCap(activeByConsumer', ConsumerOf[q])]_queueVars

\* The stall stamp only restarts on turnover: while it stands, arrivals and
\* timeouts leave it where it was or clear it, and a release never lets an old
\* stamp survive.
StampRestartsOnlyOnRelease ==
    [][stalledFor > 0 =>
         IF \E r \in Requests : status[r] = "held" /\ status'[r] = "idle"
         THEN stalledFor' \in {NotStalled, 0}
         ELSE stalledFor' \in {NotStalled, stalledFor, Older(stalledFor)}]_queueVars

-----------------------------------------------------------------------------
Slots == INSTANCE SlotSemaphore WITH holders <- Held, line <- queue

\* The queue is a semaphore: seen through its holders and its waiters alone, every
\* acquire, release and timer is a step of SlotSemaphore or changes nothing.  The
\* counters, checked against the limits instead of the holders, never show.
ImplementsSemaphore == Slots!SemaphoreSpec
=============================================================================
