------------------------------- MODULE Gateway -------------------------------
(***************************************************************************)
(* The life of a request in the proxy (src/proxy.ts, the server's handler) *)
(* around the queue of RequestQueue: the overage guard's halt at the front *)
(* door (src/overage-guard.ts), the slot given back early by a stream that *)
(* is resumed through the proxy's own front door (src/midstream.ts, the    *)
(* family fallback), and the drain of a shutdown (src/shutdown-drain.ts).  *)
(*                                                                         *)
(* A request that holds a slot is upstream.  When its stream dies, or a    *)
(* 429 parks its family, it gives the slot back and sends a leg: a request *)
(* of the proxy to itself, which passes the halt check and takes a slot    *)
(* like any other and whose answer the first request hands on.  A leg may  *)
(* break off too, up to MAX_CONTINUATION_DEPTH.                            *)
(*                                                                         *)
(* A client refused by the halt (503) changes nothing and is left out.     *)
(***************************************************************************)
EXTENDS RequestQueue

CONSTANTS Clients,       \* the requests that come from outside; the others are legs
          LegOf,         \* each request's leg, or NoLeg
          NoLeg,
          MaxLegs,       \* MAX_CONTINUATION_DEPTH: legs a client's request tries, one by one
          HaltCooldown,  \* cooldownMs of the guard, in ticks
          Grace          \* --shutdown-grace, in ticks

ASSUME LegsAssumption ==
    /\ Clients \subseteq Requests /\ NoLeg \notin Requests
    /\ LegOf \in [Requests -> (Requests \ Clients) \cup {NoLeg}]
    \* A leg is one request's and is asked for the same consumer (loopbackHeaders).
    /\ \A r, q \in Requests : LegOf[r] # NoLeg =>
          /\ LegOf[r] = LegOf[q] => r = q
          /\ ConsumerOf[LegOf[r]] = ConsumerOf[r]
ASSUME GatewayTimesAssumption == MaxLegs \in Nat /\ HaltCooldown \in Nat /\ Grace \in Nat
\* parsePositiveIntFlag, resolveMaxConcurrent: there is always a slot.
ASSUME SlotsAssumption == MaxConcurrent > 0

VARIABLES
    resume,      \* a request that gave its slot back for a leg: see Resuming
    tried,       \* legs it has sent
    haltedFor,   \* age of the guard's halt, or NotHalted
    waitingAtHalt, \* history: who was queued when the halt began
    phase,       \* serving, draining after a signal, or exited
    drainedFor   \* age of the drain

ownVars == << resume, tried, haltedFor, waitingAtHalt, phase, drainedFor >>
gatewayVars == << queueVars, ownVars >>

Resuming == {"no", "due", "waiting", "failed"}
NotHalted == -1
Halted == haltedFor # NotHalted

\* A client has its answer open: it waits for a slot, is upstream, or resumes.
InHand(r) == status[r] \in {"queued", "held"} \/ resume[r] # "no"

GatewayInit ==
    /\ QueueInit
    /\ resume = [r \in Requests |-> "no"]
    /\ tried = [r \in Requests |-> 0]
    /\ haltedFor = NotHalted
    /\ waitingAtHalt = {}
    /\ phase = "serving"
    /\ drainedFor = 0

Acquire(r) == AcquireAdmit(r) \/ AcquireEnqueue(r) \/ AcquireReject(r)

ReleaseAgain(r) ==                                                       \* variant
    IF status[r] = "held" THEN Release(r)
    ELSE /\ active' = AfterDrop
         /\ UNCHANGED << status, activeByConsumer, queue, waited, stalledFor,
                         slowWaitAnnounced, announcements >>
ReleaseAtTheEnd(r) == UNCHANGED queueVars                                \* variant
\* releaseQueueSlot: once, whoever calls it first.
ReleaseQueueSlot(r) ==
    IF status[r] = "held" THEN Release(r) ELSE UNCHANGED queueVars

-----------------------------------------------------------------------------
(* The overage guard.                                                      *)

\* A record whose claim is not the subscription's halts the proxy, once.
Recorded(billed) ==
    IF billed /\ ~Halted
    THEN haltedFor' = 0 /\ waitingAtHalt' = ToSet(queue)
    ELSE UNCHANGED << haltedFor, waitingAtHalt >>

\* POST /admin/resume, or the cool-down's timer.
HaltCleared ==
    /\ Halted /\ phase # "exited"
    /\ haltedFor' = NotHalted
    /\ waitingAtHalt' = {}
    /\ UNCHANGED << queueVars, resume, tried, phase, drainedFor >>

-----------------------------------------------------------------------------
(* A request.                                                              *)

FrontDoorUnguarded == phase = "serving"                                  \* variant
FrontDoorOpen == phase = "serving" /\ ~Halted

Arrive(r) ==
    /\ FrontDoorOpen
    /\ r \in Clients /\ resume[r] = "no"
    /\ Acquire(r)
    /\ UNCHANGED ownVars

\* The answer is handed on, recorded, and the slot given back (finally).
Finish(r) ==
    /\ phase # "exited"
    /\ status[r] = "held" /\ resume[r] = "no"
    /\ \E billed \in BOOLEAN : Recorded(billed)
    /\ ReleaseQueueSlot(r)
    /\ UNCHANGED << resume, tried, phase, drainedFor >>

\* A leg's own resume starts at the second choice.
MayTry(r) == tried[r] < IF r \in Clients THEN MaxLegs ELSE MaxLegs - 1

\* The slot goes before the leg does (onBeforeResume).
SlotBeforeLeg(r) == ReleaseQueueSlot(r)

\* The stream dies, or a 429 parks the family: the leg is next.
BreakOff(r) ==
    /\ phase # "exited"
    /\ status[r] = "held" /\ resume[r] = "no"
    /\ LegOf[r] # NoLeg /\ MayTry(r) /\ ~InHand(LegOf[r]) /\ status[LegOf[r]] = "idle"
    /\ SlotBeforeLeg(r)
    /\ resume' = [resume EXCEPT ![r] = "due"]
    /\ tried' = [tried EXCEPT ![r] = @ + 1]
    /\ UNCHANGED << haltedFor, waitingAtHalt, phase, drainedFor >>

\* The loopback request reaches the front door, or is turned away there: the
\* guard answers 503, a closed listener refuses the connection.
SendLeg(r) ==
    /\ phase # "exited"
    /\ resume[r] = "due"
    /\ IF FrontDoorOpen
       THEN Acquire(LegOf[r]) /\ resume' = [resume EXCEPT ![r] = "waiting"]
       ELSE UNCHANGED queueVars /\ resume' = [resume EXCEPT ![r] = "failed"]
    /\ UNCHANGED << tried, haltedFor, waitingAtHalt, phase, drainedFor >>

LegOver(r) ==
    resume[r] = "failed" \/ (resume[r] = "waiting" /\ ~InHand(LegOf[r]))

NextChoiceForever(r) ==                                                  \* variant
    /\ LegOver(r) /\ status[LegOf[r]] = "idle"
    /\ resume' = [resume EXCEPT ![r] = "due"]
    /\ tried' = [tried EXCEPT ![r] = @ + 1]
    /\ UNCHANGED << queueVars, haltedFor, waitingAtHalt, phase, drainedFor >>
\* The leg delivered nothing: the next choice, with a leg of its own.
NextChoice(r) ==
    /\ phase # "exited"
    /\ LegOver(r) /\ MayTry(r) /\ status[LegOf[r]] = "idle"
    /\ resume' = [resume EXCEPT ![r] = "due"]
    /\ tried' = [tried EXCEPT ![r] = @ + 1]
    /\ UNCHANGED << queueVars, haltedFor, waitingAtHalt, phase, drainedFor >>

\* The stream ends with what the leg gave; the first answer is recorded too.
ResumeEnds(r) ==
    /\ phase # "exited"
    /\ resume' = [resume EXCEPT ![r] = "no"]
    /\ tried' = [tried EXCEPT ![r] = 0]
    /\ \E billed \in BOOLEAN : Recorded(billed)
    /\ ReleaseQueueSlot(r)
    /\ UNCHANGED << phase, drainedFor >>

FinishResumed(r) == LegOver(r) /\ ResumeEnds(r)

\* The client leaves or the deadline aborts the leg's fetch.
AbandonLeg(r) == resume[r] = "waiting" /\ ~LegOver(r) /\ ResumeEnds(r)

Expire(r) == phase # "exited" /\ TimeoutFires(r) /\ UNCHANGED ownVars
ReadRefusal(r) == phase # "exited" /\ Answered(r) /\ UNCHANGED ownVars

-----------------------------------------------------------------------------
(* Shutdown.                                                               *)

Shutdown ==
    /\ phase = "serving"
    /\ phase' = "draining" /\ drainedFor' = 0
    /\ UNCHANGED << queueVars, resume, tried, haltedFor, waitingAtHalt >>

IdleByQueue == queue = << >>                                             \* variant
\* waitForIdle polls the slots taken.
Idle == active = 0
GraceOver == drainedFor >= Grace

Exit ==
    /\ phase = "draining"
    /\ Idle \/ GraceOver
    /\ phase' = "exited"
    /\ UNCHANGED << queueVars, resume, tried, haltedFor, waitingAtHalt, drainedFor >>

\* The next process starts from nothing: queue and halt live in memory.
Restart ==
    /\ phase = "exited"
    /\ status' = [r \in Requests |-> "idle"]
    /\ active' = 0 /\ activeByConsumer' = [c \in Consumers |-> 0]
    /\ queue' = << >> /\ waited' = [r \in Requests |-> 0]
    /\ stalledFor' = NotStalled /\ slowWaitAnnounced' = FALSE /\ announcements' = 0
    /\ resume' = [r \in Requests |-> "no"] /\ tried' = [r \in Requests |-> 0]
    /\ haltedFor' = NotHalted /\ waitingAtHalt' = {}
    /\ phase' = "serving" /\ drainedFor' = 0

Later(age, cap) == IF age < cap THEN age + 1 ELSE age
\* A halt is over by the cool-down at the latest.
TimePasses ==
    /\ phase # "exited" /\ (Halted => haltedFor < HaltCooldown)
    /\ Tick
    /\ haltedFor' = IF Halted THEN haltedFor + 1 ELSE haltedFor
    /\ drainedFor' = IF phase = "draining" THEN Later(drainedFor, Grace) ELSE drainedFor
    /\ UNCHANGED << resume, tried, waitingAtHalt, phase >>

Handles(r) ==
    \/ Arrive(r) \/ Finish(r) \/ BreakOff(r) \/ SendLeg(r) \/ NextChoice(r)
    \/ FinishResumed(r) \/ AbandonLeg(r) \/ Expire(r) \/ ReadRefusal(r)

GatewayNext ==
    \/ \E r \in Requests : Handles(r)
    \/ HaltCleared \/ Shutdown \/ Exit \/ Restart \/ TimePasses

GatewaySpec == GatewayInit /\ [][GatewayNext]_gatewayVars

\* Nobody's patience is needed: upstream answers or its deadline ends it, the
\* event loop takes the next step of a resume, and refusals are read.
Served(r) ==
    /\ WF_gatewayVars(Finish(r)) /\ WF_gatewayVars(SendLeg(r))
    /\ WF_gatewayVars(FinishResumed(r)) /\ WF_gatewayVars(ReadRefusal(r))
FairGatewaySpec == GatewaySpec /\ \A r \in Requests : Served(r)

-----------------------------------------------------------------------------
(* Properties.                                                             *)

\* The types of the handler's own state.
GatewayTypeOK ==
    /\ resume \in [Requests -> Resuming]
    /\ tried \in [Requests -> 0..MaxLegs]
    /\ haltedFor \in {NotHalted} \cup 0..HaltCooldown
    /\ waitingAtHalt \subseteq Requests
    /\ phase \in {"serving", "draining", "exited"}
    /\ drainedFor \in 0..Grace

\* A halt bounds the bleed (docs/guardrails.md:9): until it is cleared the only
\* requests that still go upstream are those that were waiting for a slot when
\* it began; no arrival, no retry and no leg of one gets past the front door.
HaltBoundsBleed ==
    [][ \A r \in Requests :
          Gained(r) /\ haltedFor' # NotHalted => r \in waitingAtHalt' ]_gatewayVars

\* An exit before the grace is up leaves nobody upstream and nobody queued: the
\* drain counts slots only, and no waiter is left when the last slot is free.
ExitLeavesNobodyQueued ==
    [][ phase = "draining" /\ phase' = "exited" /\ ~GraceOver =>
          \A r \in Requests : status[r] \notin {"queued", "held"} ]_gatewayVars

\* An exit before the grace is up severs no open answer (CHANGELOG.md:767).
ExitSeversNothing ==
    [][ phase = "draining" /\ phase' = "exited" /\ ~GraceOver =>
          \A r \in Clients : ~InHand(r) ]_gatewayVars

\* What keeps a request going is under way: upstream's answer, the leg it sends next,
\* or the end of its leg.  A place in the queue, or a leg that is out, is not.
CanGo(r) ==
    \/ status[r] = "held" /\ resume[r] = "no"
    \/ resume[r] = "due" /\ (FrontDoorOpen => status[LegOf[r]] = "idle")
    \/ LegOver(r)

\* The proxy is never stuck on itself: whenever somebody waits, for a slot or for a
\* leg, somebody's work goes on, with no queue timeout and no client to help.  A
\* resume that kept its slot would close the circle (onBeforeResume).
NeverStuck ==
    phase # "exited" /\ (\E r \in Requests : InHand(r)) => \E r \in Requests : CanGo(r)

\* The proxy never waits on itself: with no queue timeout to help, every request
\* taken in hand is let go, its legs included, unless the process exits first.
RequestsEnd == \A r \in Requests : InHand(r) ~> ~InHand(r) \/ phase = "exited"
=============================================================================
