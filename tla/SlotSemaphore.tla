---------------------------- MODULE SlotSemaphore ----------------------------
(***************************************************************************)
(* What the request queue promises: a counting semaphore with a cap per    *)
(* consumer and a bounded line, served in order of arrival among those     *)
(* the caps let through.                                                   *)
(*                                                                         *)
(* There are no counters here, no stamps, no timers and no statuses: who   *)
(* may hold a slot is a question about the set of holders.  Whoever is     *)
(* refused leaves no trace, so refusals are stuttering steps.              *)
(***************************************************************************)
EXTENDS Integers, FiniteSets, SequencesExt

CONSTANTS Requests, NoConsumer, ConsumerOf, MaxConcurrent, MaxQueued, PerConsumerCap

VARIABLES holders,   \* the requests that hold a slot
          line       \* the requests that wait for one, oldest first

semaphoreVars == << holders, line >>

\* With H holding, r may hold too.
MayHold(H, r) ==
    /\ Cardinality(H) < MaxConcurrent
    /\ ConsumerOf[r] # NoConsumer /\ PerConsumerCap > 0 =>
         Cardinality({q \in H : ConsumerOf[q] = ConsumerOf[r]}) < PerConsumerCap

\* The places in the line that could be served with H holding.
Servable(H) == {i \in DOMAIN line : MayHold(H, line[i])}

Outside(r) == r \notin holders /\ r \notin ToSet(line)

SemaphoreInit == holders = {} /\ line = << >>

\* A newcomer goes in at once only when nobody in line could.
Take(r) ==
    /\ Outside(r)
    /\ MayHold(holders, r)
    /\ Servable(holders) = {}
    /\ holders' = holders \cup {r}
    /\ UNCHANGED line

\* A newcomer lines up only when it could not go in.
Wait(r) ==
    /\ Outside(r)
    /\ ~MayHold(holders, r)
    /\ Len(line) < MaxQueued
    /\ line' = Append(line, r)
    /\ UNCHANGED holders

\* Somebody gives up waiting; the others keep their order.
Leave(r) ==
    \E i \in DOMAIN line :
        /\ line[i] = r
        /\ line' = RemoveAt(line, i)
        /\ UNCHANGED holders

\* A slot comes back with nobody to pass it to.
GiveBack(r) ==
    /\ r \in holders
    /\ Servable(holders \ {r}) = {}
    /\ holders' = holders \ {r}
    /\ UNCHANGED line

\* A slot comes back and the first who can have it gets it, in the same step.
PassOn(r) ==
    \E i \in Servable(holders \ {r}) :
        /\ r \in holders
        /\ \A j \in Servable(holders \ {r}) : i <= j
        /\ holders' = (holders \ {r}) \cup {line[i]}
        /\ line' = RemoveAt(line, i)

SemaphoreNext ==
    \E r \in Requests : Take(r) \/ Wait(r) \/ Leave(r) \/ GiveBack(r) \/ PassOn(r)

SemaphoreSpec == SemaphoreInit /\ [][SemaphoreNext]_semaphoreVars
=============================================================================
