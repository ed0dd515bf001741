-------------------------- MODULE RequestQueue_proof --------------------------
(***************************************************************************)
(* Safety of the request queue for every set of requests and consumers,    *)
(* every limit and every timeout.                                          *)
(*                                                                         *)
(* The inductive invariant is the conjunction Inv below: that one release  *)
(* is enough to fill one slot (WorkConserving) needs the counts to be the  *)
(* holders (SlotAccounting) and the queue to hold the waiters and only     *)
(* them (QueueExact).                                                      *)
(***************************************************************************)
EXTENDS RequestQueue, FiniteSetTheorems, SequenceTheorems, TLAPS

USE DEF Status, NotStalled, Ages, Dequeue

\* The counters agree with a set H of holders.
Accounts(act, counts, H) ==
    /\ act = Cardinality(H)
    /\ \A c \in Consumers : counts[c] = Cardinality({q \in H : ConsumerOf[q] = c})

Inv == TypeOK /\ QueueExact /\ SlotAccounting /\ CapsRespected /\ WorkConserving

-----------------------------------------------------------------------------
(* Lemmas about the operators of the model.                                *)

\* RemoveAt takes out one element and keeps the order of the others.
LEMMA RemoveAtElements ==
    ASSUME NEW S, NEW s \in Seq(S), NEW i \in DOMAIN s
    PROVE  /\ RemoveAt(s, i) \in Seq(S)
           /\ Len(RemoveAt(s, i)) = Len(s) - 1
           /\ \A j \in DOMAIN RemoveAt(s, i) :
                RemoveAt(s, i)[j] = IF j < i THEN s[j] ELSE s[j + 1]
<1> DEFINE front == SubSeq(s, 1, i - 1)
           back  == SubSeq(s, i + 1, Len(s))
<1>1. i \in 1..Len(s) /\ Len(s) \in Nat
  OBVIOUS
<1>2. /\ front \in Seq(S) /\ Len(front) = i - 1
      /\ \A j \in 1..(i - 1) : front[j] = s[j]
  BY <1>1, SubSeqProperties
<1>3. /\ back \in Seq(S) /\ Len(back) = Len(s) - i
      /\ \A j \in 1..(Len(s) - i) : back[j] = s[i + j]
  BY <1>1, SubSeqProperties
<1>4. RemoveAt(s, i) = front \o back
  BY DEF RemoveAt
<1> HIDE DEF front, back
<1>5. /\ RemoveAt(s, i) \in Seq(S)
      /\ Len(RemoveAt(s, i)) = Len(s) - 1
  BY <1>1, <1>2, <1>3, <1>4
<1>6. ASSUME NEW j \in 1..(Len(s) - 1)
      PROVE  RemoveAt(s, i)[j] = IF j < i THEN s[j] ELSE s[j + 1]
  <2>1. (front \o back)[j] = IF j <= Len(front) THEN front[j] ELSE back[j - Len(front)]
    BY <1>1, <1>2, <1>3
  <2>2. CASE j < i
    BY <1>1, <1>2, <1>4, <2>1, <2>2
  <2>3. CASE j >= i
    <3>1. j - (i - 1) \in 1..(Len(s) - i) /\ i + (j - (i - 1)) = j + 1
      BY <1>1, <2>3
    <3>2. RemoveAt(s, i)[j] = back[j - (i - 1)]
      BY <1>1, <1>2, <1>4, <2>1, <2>3
    <3> QED BY <1>3, <2>3, <3>1, <3>2
  <2> QED BY <1>1, <2>2, <2>3
<1> QED BY <1>5, <1>6

\* What is left of a sequence without duplicates is the rest of its elements.
LEMMA RemoveAtExact ==
    ASSUME NEW S, NEW s \in Seq(S), NEW i \in DOMAIN s,
           \A j, k \in DOMAIN s : s[j] = s[k] => j = k
    PROVE  /\ \A j, k \in DOMAIN RemoveAt(s, i) : RemoveAt(s, i)[j] = RemoveAt(s, i)[k] => j = k
           /\ ToSet(RemoveAt(s, i)) = ToSet(s) \ {s[i]}
<1> DEFINE t == RemoveAt(s, i)
<1>1. /\ t \in Seq(S) /\ Len(t) = Len(s) - 1
      /\ \A j \in DOMAIN t : t[j] = IF j < i THEN s[j] ELSE s[j + 1]
  BY RemoveAtElements
<1>2. i \in 1..Len(s) /\ Len(s) \in Nat /\ DOMAIN s = 1..Len(s) /\ DOMAIN t = 1..(Len(s) - 1)
  BY <1>1
<1> HIDE DEF t
<1>3. \A j, k \in DOMAIN t : t[j] = t[k] => j = k
  BY <1>1, <1>2
<1>4. ToSet(t) = {t[j] : j \in DOMAIN t} /\ ToSet(s) = {s[j] : j \in DOMAIN s}
  BY DEF ToSet
<1>5. ASSUME NEW e \in ToSet(s) \ {s[i]}
      PROVE  e \in ToSet(t)
  <2>1. PICK j \in 1..Len(s) : s[j] = e /\ j # i
    BY <1>2, <1>4, <1>5
  <2>2. CASE j < i
    BY <1>1, <1>2, <1>4, <2>1, <2>2
  <2>3. CASE j > i
    <3>1. j - 1 \in DOMAIN t /\ ~(j - 1 < i) /\ (j - 1) + 1 = j
      BY <1>2, <2>3
    <3>2. t[j - 1] = e
      BY <1>1, <2>1, <3>1
    <3> QED BY <1>4, <3>1, <3>2
  <2> QED BY <1>2, <2>1, <2>2, <2>3
<1>6. ASSUME NEW e \in ToSet(t)
      PROVE  e \in ToSet(s) \ {s[i]}
  <2>1. PICK j \in 1..(Len(s) - 1) : t[j] = e
    BY <1>2, <1>4
  <2>2. /\ j \in DOMAIN s /\ j + 1 \in DOMAIN s
        /\ e = IF j < i THEN s[j] ELSE s[j + 1]
    BY <1>1, <1>2, <2>1
  <2>3. CASE j < i
    BY <1>2, <1>4, <2>2, <2>3
  <2>4. CASE ~(j < i)
    BY <1>2, <1>4, <2>2, <2>4
  <2> QED BY <2>3, <2>4
<1> QED BY <1>3, <1>5, <1>6 DEF t

\* Admitting a request that holds nothing adds one to its counters.
LEMMA AddHolder ==
    ASSUME NEW H \in SUBSET Requests, NEW act, NEW counts \in [Consumers -> Nat],
           Accounts(act, counts, H), NEW r \in Requests, r \notin H
    PROVE  Accounts(act + 1, AddSlot(counts, ConsumerOf[r]), H \cup {r})
<1>1. IsFiniteSet(H)
  BY RequestsAssumption, FS_Subset
<1>2. act + 1 = Cardinality(H \cup {r})
  BY <1>1, FS_AddElement DEF Accounts
<1>3. ASSUME NEW c \in Consumers
      PROVE  AddSlot(counts, ConsumerOf[r])[c] = Cardinality({q \in H \cup {r} : ConsumerOf[q] = c})
  <2> DEFINE K == {q \in H : ConsumerOf[q] = c}
  <2>1. IsFiniteSet(K) /\ r \notin K /\ counts[c] = Cardinality(K)
    BY <1>1, FS_Subset DEF Accounts
  <2>2. CASE ConsumerOf[r] = c
    <3>1. {q \in H \cup {r} : ConsumerOf[q] = c} = K \cup {r}
      BY <2>2
    <3>2. Cardinality(K \cup {r}) = Cardinality(K) + 1
      BY <2>1, FS_AddElement
    <3> QED BY <2>1, <2>2, <3>1, <3>2 DEF AddSlot
  <2>3. CASE ConsumerOf[r] # c
    <3>1. {q \in H \cup {r} : ConsumerOf[q] = c} = K
      BY <2>3
    <3> QED BY <2>1, <2>3, <3>1 DEF AddSlot
  <2> QED BY <2>2, <2>3
<1> QED BY <1>2, <1>3 DEF Accounts

\* Releasing a holder takes one off its counters: neither guard against a
\* negative count is ever what stops it.
LEMMA DropHolder ==
    ASSUME NEW H \in SUBSET Requests, NEW act \in Nat, NEW counts \in [Consumers -> Nat],
           Accounts(act, counts, H), NEW r \in H
    PROVE  /\ act > 0
           /\ Accounts(act - 1, DropSlot(counts, ConsumerOf[r]), H \ {r})
           /\ \A c \in Consumers : DropSlot(counts, ConsumerOf[r])[c] =
                counts[c] - IF c = ConsumerOf[r] THEN 1 ELSE 0
<1>1. IsFiniteSet(H)
  BY RequestsAssumption, FS_Subset
<1>2. Cardinality(H) \in Nat /\ Cardinality(H \ {r}) \in Nat /\ Cardinality(H \ {r}) = Cardinality(H) - 1
  BY <1>1, FS_RemoveElement, FS_CardinalityType
<1>3. act > 0 /\ act - 1 = Cardinality(H \ {r})
  BY <1>2 DEF Accounts
<1>4. ASSUME NEW c \in Consumers
      PROVE  /\ DropSlot(counts, ConsumerOf[r])[c] =
                  Cardinality({q \in H \ {r} : ConsumerOf[q] = c})
             /\ DropSlot(counts, ConsumerOf[r])[c] =
                  counts[c] - IF c = ConsumerOf[r] THEN 1 ELSE 0
  <2> DEFINE K == {q \in H : ConsumerOf[q] = c}
  <2>1. IsFiniteSet(K) /\ counts[c] = Cardinality(K)
    BY <1>1, FS_Subset DEF Accounts
  <2>2. CASE ConsumerOf[r] = c
    <3>1. {q \in H \ {r} : ConsumerOf[q] = c} = K \ {r} /\ r \in K
      BY <2>2
    <3>2. /\ Cardinality(K \ {r}) = Cardinality(K) - 1
          /\ Cardinality(K \ {r}) \in Nat /\ Cardinality(K) \in Nat
      BY <2>1, <3>1, FS_RemoveElement, FS_CardinalityType
    <3>3. DropSlot(counts, ConsumerOf[r])[c] = counts[c] - 1
      BY <2>1, <2>2, <3>2 DEF DropSlot
    <3> QED BY <2>1, <2>2, <3>1, <3>2, <3>3
  <2>3. CASE ConsumerOf[r] # c
    <3>1. {q \in H \ {r} : ConsumerOf[q] = c} = K
      BY <2>3
    <3>2. DropSlot(counts, ConsumerOf[r])[c] = counts[c]
      BY <2>3 DEF DropSlot
    <3>3. counts[c] - 0 = counts[c]
      OBVIOUS
    <3> QED BY <2>1, <2>3, <3>1, <3>2, <3>3
  <2> QED BY <2>2, <2>3
<1> QED BY <1>3, <1>4 DEF Accounts

-----------------------------------------------------------------------------
(* Each action preserves the invariant.                                    *)

LEMMA StallType ==
    ASSUME NEW was \in Ages \cup {NotStalled}, NEW act, NEW q
    PROVE  StallAfter(was, act, q) \in Ages \cup {NotStalled}
BY TimesAssumption DEF StallAfter

\* SlotAccounting, HeldBy unfolded.
LEMMA AccountingForm == SlotAccounting <=> Accounts(active, activeByConsumer, Held)
BY DEF SlotAccounting, Accounts, HeldBy

LEMMA AccountingFormPrimed ==
    SlotAccounting' <=> Accounts(active', activeByConsumer', Held')
BY DEF SlotAccounting, Accounts, HeldBy, Held

\* The caps on holders, read off the counters.
LEMMA CapsFromCounters ==
    ASSUME SlotAccounting', active' <= MaxConcurrent, (Len(queue) <= MaxQueued)',
           PerConsumerCap > 0 => \A c \in Consumers : activeByConsumer'[c] <= PerConsumerCap
    PROVE  CapsRespected'
BY DEF SlotAccounting, CapsRespected

LEMMA InitInv == QueueInit => Inv
<1> SUFFICES ASSUME QueueInit PROVE Inv
  OBVIOUS
<1>1. TypeOK
  <2>1. queue \in Seq(Requests)
    BY DEF QueueInit
  <2>2. 0 \in Ages
    BY TimesAssumption
  <2> QED BY <2>1, <2>2 DEF QueueInit, TypeOK
<1>2. QueueExact
  BY DEF QueueInit, QueueExact, ToSet
<1>3. Held = {} /\ \A c \in Consumers : HeldBy(c) = {}
  BY DEF QueueInit, Held, HeldBy
<1>4. SlotAccounting
  BY <1>3, FS_EmptySet DEF QueueInit, SlotAccounting
<1>5. CapsRespected
  <2>1. Len(queue) = 0
    BY DEF QueueInit
  <2>2. Cardinality(Held) = 0 /\ \A c \in Consumers : Cardinality(HeldBy(c)) = 0
    BY <1>3, FS_EmptySet
  <2> QED BY <2>1, <2>2, LimitsAssumption DEF CapsRespected
<1>6. WorkConserving
  BY DEF QueueInit, WorkConserving
<1> QED BY <1>1, <1>2, <1>4, <1>5, <1>6 DEF Inv

LEMMA AdmitInv ==
    ASSUME Inv, NEW r \in Requests, AcquireAdmit(r)
    PROVE  Inv'
<1>1. TypeOK'
  <2>1. AddSlot(activeByConsumer, ConsumerOf[r]) \in [Consumers -> Nat]
    BY DEF Inv, TypeOK, AddSlot
  <2> QED BY <2>1, StallType DEF Inv, TypeOK, AcquireAdmit
<1>2. QueueExact'
  <2>1. {q \in Requests : status'[q] = "queued"} = {q \in Requests : status[q] = "queued"}
    BY DEF AcquireAdmit, Inv, TypeOK
  <2> QED BY <2>1 DEF AcquireAdmit, Inv, QueueExact, ToSet
<1>3. Held' = Held \cup {r} /\ r \notin Held
  BY DEF AcquireAdmit, Inv, TypeOK, Held
<1>4. SlotAccounting'
  <2>1. Accounts(active, activeByConsumer, Held) /\ Held \in SUBSET Requests
    BY AccountingForm DEF Inv, Held
  <2>2. Accounts(active + 1, AddSlot(activeByConsumer, ConsumerOf[r]), Held \cup {r})
    BY <1>3, <2>1, AddHolder DEF Inv, TypeOK
  <2> QED BY <1>3, <2>2, AccountingFormPrimed DEF AcquireAdmit
<1>5. \A c \in Consumers : activeByConsumer'[c] = activeByConsumer[c] + IF c = ConsumerOf[r] THEN 1 ELSE 0
  BY DEF AcquireAdmit, AddSlot
<1>6. CapsRespected'
  <2>1. active' <= MaxConcurrent
    BY LimitsAssumption DEF AcquireAdmit, MayAdmit, Inv, TypeOK
  <2>2. (Len(queue) <= MaxQueued)'
    BY DEF AcquireAdmit, Inv, CapsRespected
  <2>3. ASSUME PerConsumerCap > 0, NEW c \in Consumers
        PROVE  activeByConsumer'[c] <= PerConsumerCap
    <3>1. activeByConsumer[c] <= PerConsumerCap
      BY <2>3 DEF Inv, CapsRespected, SlotAccounting
    <3>2. c = ConsumerOf[r] => activeByConsumer[c] < PerConsumerCap
      BY <2>3, ConsumersAssumption DEF AcquireAdmit, MayAdmit, UnderCap
    <3> QED BY <1>5, <2>3, <3>1, <3>2, LimitsAssumption DEF Inv, TypeOK
  <2> QED BY <1>4, <2>1, <2>2, <2>3, CapsFromCounters
<1>7. WorkConserving'
  <2> SUFFICES ASSUME active' < MaxConcurrent, NEW i \in DOMAIN queue
               PROVE  ~UnderCap(activeByConsumer', ConsumerOf[queue[i]])
    BY DEF WorkConserving, ConsumerFree, AcquireAdmit
  <2>1. ~UnderCap(activeByConsumer, ConsumerOf[queue[i]])
    <3>1. active < MaxConcurrent
      BY LimitsAssumption DEF Inv, TypeOK, AcquireAdmit
    <3> QED BY <3>1 DEF Inv, WorkConserving, ConsumerFree
  <2>2. queue[i] \in Requests /\ ConsumerOf[queue[i]] \in Consumers \cup {NoConsumer}
    BY ConsumersAssumption DEF Inv, TypeOK
  <2> DEFINE c == ConsumerOf[queue[i]]
  <2>3. c \in Consumers /\ PerConsumerCap > 0 /\ ~(activeByConsumer[c] < PerConsumerCap)
    BY <2>1, <2>2 DEF UnderCap
  <2>4. activeByConsumer[c] \in Nat
    BY <2>3 DEF Inv, TypeOK
  <2>5. ~(activeByConsumer'[c] < PerConsumerCap)
    BY <1>5, <2>3, <2>4, LimitsAssumption
  <2> QED BY <2>3, <2>5, ConsumersAssumption DEF UnderCap
<1> QED BY <1>1, <1>2, <1>4, <1>6, <1>7 DEF Inv

LEMMA EnqueueInv ==
    ASSUME Inv, NEW r \in Requests, AcquireEnqueue(r)
    PROVE  Inv'
<1>1. /\ queue \in Seq(Requests) /\ queue' = Append(queue, r)
      /\ Len(queue') = Len(queue) + 1 /\ Len(queue) \in Nat
      /\ DOMAIN queue = 1..Len(queue) /\ DOMAIN queue' = 1..(Len(queue) + 1)
      /\ \A i \in DOMAIN queue' : queue'[i] = IF i = Len(queue) + 1 THEN r ELSE queue[i]
  BY DEF AcquireEnqueue, Inv, TypeOK
<1>2. TypeOK'
  BY <1>1, StallType, TimesAssumption DEF Inv, TypeOK, AcquireEnqueue
<1>3. r \notin ToSet(queue)
  BY DEF AcquireEnqueue, Inv, QueueExact
<1>4. QueueExact'
  <2>1. \A i, j \in DOMAIN queue' : queue'[i] = queue'[j] => i = j
    BY <1>1, <1>3 DEF Inv, QueueExact, ToSet
  <2>2. ToSet(queue') = ToSet(queue) \cup {r}
    <3>1. ToSet(queue') = {queue'[i] : i \in DOMAIN queue'}
          /\ ToSet(queue) = {queue[i] : i \in DOMAIN queue}
      BY DEF ToSet
    <3> QED BY <1>1, <3>1
  <2>3. {q \in Requests : status'[q] = "queued"} = {q \in Requests : status[q] = "queued"} \cup {r}
    BY DEF AcquireEnqueue, Inv, TypeOK
  <2> QED BY <2>1, <2>2, <2>3 DEF Inv, QueueExact
<1>5. Held' = Held
  BY DEF AcquireEnqueue, Inv, TypeOK, Held
<1>6. SlotAccounting'
  BY <1>5, AccountingForm, AccountingFormPrimed DEF AcquireEnqueue, Inv
<1>7. CapsRespected'
  <2>1. Len(queue') <= MaxQueued
    BY <1>1, LimitsAssumption DEF AcquireEnqueue
  <2> QED BY <1>5, <2>1 DEF Inv, CapsRespected, HeldBy, AcquireEnqueue
<1>8. WorkConserving'
  BY <1>1, LimitsAssumption
     DEF Inv, TypeOK, WorkConserving, ConsumerFree, AcquireEnqueue, MayAdmit
<1> QED BY <1>2, <1>4, <1>6, <1>7, <1>8 DEF Inv

LEMMA TimeoutInv ==
    ASSUME Inv, NEW r \in Requests, TimeoutFires(r)
    PROVE  Inv'
<1>1. PICK i \in DOMAIN queue : queue[i] = r /\ queue' = RemoveAt(queue, i)
  BY DEF TimeoutFires
<1>2. /\ queue \in Seq(Requests) /\ queue' \in Seq(Requests)
      /\ Len(queue') = Len(queue) - 1 /\ Len(queue) \in Nat
      /\ \A j \in DOMAIN queue' : \E k \in DOMAIN queue : queue'[j] = queue[k]
  <2>1. queue \in Seq(Requests)
    BY DEF Inv, TypeOK
  <2>2. /\ queue' \in Seq(Requests) /\ Len(queue') = Len(queue) - 1
        /\ \A j \in DOMAIN queue' : queue'[j] = IF j < i THEN queue[j] ELSE queue[j + 1]
    BY <1>1, <2>1, RemoveAtElements
  <2>3. DOMAIN queue = 1..Len(queue) /\ DOMAIN queue' = 1..(Len(queue) - 1) /\ Len(queue) \in Nat
    BY <2>1, <2>2
  <2> QED BY <2>1, <2>2, <2>3
<1>3. TypeOK'
  <2>1. stalledFor' \in Ages \cup {NotStalled}
    BY StallType DEF TimeoutFires, Inv, TypeOK
  <2> QED BY <1>2, <2>1, TimesAssumption DEF TimeoutFires, Inv, TypeOK
<1>4. QueueExact'
  <2>1. /\ \A j, k \in DOMAIN queue' : queue'[j] = queue'[k] => j = k
        /\ ToSet(queue') = ToSet(queue) \ {r}
    BY <1>1, <1>2, RemoveAtExact DEF Inv, QueueExact
  <2>2. {q \in Requests : status'[q] = "queued"} = {q \in Requests : status[q] = "queued"} \ {r}
    BY DEF TimeoutFires, Inv, TypeOK
  <2> QED BY <2>1, <2>2 DEF Inv, QueueExact
<1>5. Held' = Held
  <2>1. r \in ToSet(queue)
    BY <1>1 DEF ToSet
  <2>2. status[r] = "queued"
    BY <2>1 DEF Inv, QueueExact
  <2> QED BY <2>2 DEF TimeoutFires, Inv, TypeOK, Held
<1>6. SlotAccounting'
  BY <1>5, AccountingForm, AccountingFormPrimed DEF TimeoutFires, Inv
<1>7. CapsRespected'
  <2>1. Len(queue') <= MaxQueued
    BY <1>2, LimitsAssumption DEF Inv, CapsRespected
  <2> QED BY <1>5, <2>1 DEF Inv, CapsRespected, HeldBy
<1>8. WorkConserving'
  BY <1>2 DEF Inv, WorkConserving, ConsumerFree, TimeoutFires
<1> QED BY <1>3, <1>4, <1>6, <1>7, <1>8 DEF Inv

\* What the two outcomes of a release share: the releaser is a counted holder,
\* and only its own consumer's count drops.
LEMMA ReleaserCounted ==
    ASSUME Inv, NEW r \in Requests, status[r] = "held"
    PROVE  LET counts == DropSlot(activeByConsumer, ConsumerOf[r]) IN
           /\ active > 0 /\ AfterDrop = active - 1
           /\ counts \in [Consumers -> Nat]
           /\ Accounts(active - 1, counts, Held \ {r})
           /\ \A c \in Consumers : counts[c] = activeByConsumer[c] - IF c = ConsumerOf[r] THEN 1 ELSE 0
<1> DEFINE counts == DropSlot(activeByConsumer, ConsumerOf[r])
<1>1. r \in Held /\ Held \in SUBSET Requests /\ active \in Nat /\ activeByConsumer \in [Consumers -> Nat]
  BY DEF Held, Inv, TypeOK
<1>2. /\ active > 0
      /\ Accounts(active - 1, counts, Held \ {r})
      /\ \A c \in Consumers : counts[c] = activeByConsumer[c] - IF c = ConsumerOf[r] THEN 1 ELSE 0
  <2>1. Accounts(active, activeByConsumer, Held)
    BY AccountingForm DEF Inv
  <2> QED BY <1>1, <2>1, DropHolder, ZenonT(60)
<1>3. counts \in [Consumers -> Nat]
  BY <1>1 DEF DropSlot
<1> QED BY <1>2, <1>3 DEF AfterDrop

LEMMA ReleaseToNobodyInv ==
    ASSUME Inv, NEW r \in Requests, ReleaseToNobody(r)
    PROVE  Inv'
<1> DEFINE counts == DropSlot(activeByConsumer, ConsumerOf[r])
<1>1. /\ active > 0 /\ active' = active - 1 /\ activeByConsumer' = counts
      /\ counts \in [Consumers -> Nat]
      /\ Accounts(active - 1, counts, Held \ {r})
      /\ \A c \in Consumers : counts[c] = activeByConsumer[c] - IF c = ConsumerOf[r] THEN 1 ELSE 0
  BY ReleaserCounted DEF ReleaseToNobody
<1> HIDE DEF counts
<1>2. TypeOK'
  <2>1. stalledFor' \in Ages \cup {NotStalled}
    BY StallType DEF ReleaseToNobody
  <2> QED BY <1>1, <2>1 DEF ReleaseToNobody, Inv, TypeOK
<1>3. QueueExact'
  <2>1. {q \in Requests : status'[q] = "queued"} = {q \in Requests : status[q] = "queued"}
    BY DEF ReleaseToNobody, Inv, TypeOK
  <2> QED BY <2>1 DEF ReleaseToNobody, Inv, QueueExact, ToSet
<1>4. Held' = Held \ {r}
  BY DEF ReleaseToNobody, Inv, TypeOK, Held
<1>5. SlotAccounting'
  BY <1>1, <1>4, AccountingFormPrimed
<1>6. CapsRespected'
  <2>1. active' <= MaxConcurrent
    BY <1>1, LimitsAssumption DEF Inv, TypeOK, CapsRespected, SlotAccounting
  <2>2. (Len(queue) <= MaxQueued)'
    BY DEF ReleaseToNobody, Inv, CapsRespected
  <2>3. ASSUME PerConsumerCap > 0, NEW c \in Consumers
        PROVE  activeByConsumer'[c] <= PerConsumerCap
    <3>1. activeByConsumer[c] <= PerConsumerCap
      BY <2>3 DEF Inv, CapsRespected, SlotAccounting
    <3>2. activeByConsumer[c] \in Nat /\ activeByConsumer'[c] \in Nat
      BY <1>1 DEF Inv, TypeOK
    <3>3. activeByConsumer'[c] = activeByConsumer[c] - IF c = ConsumerOf[r] THEN 1 ELSE 0
      BY <1>1
    <3> QED BY <3>1, <3>2, <3>3, LimitsAssumption
  <2> QED BY <1>5, <2>1, <2>2, <2>3, CapsFromCounters
<1>7. WorkConserving'
  BY DEF ReleaseToNobody, Admissible, WorkConserving, ConsumerFree
<1> QED BY <1>2, <1>3, <1>5, <1>6, <1>7 DEF Inv

LEMMA ReleaseToWaiterInv ==
    ASSUME Inv, NEW r \in Requests, ReleaseToWaiter(r)
    PROVE  Inv'
<1> DEFINE counts == DropSlot(activeByConsumer, ConsumerOf[r])
<1>0. /\ status[r] = "held"
      /\ active > 0 /\ AfterDrop = active - 1
      /\ counts \in [Consumers -> Nat]
      /\ Accounts(active - 1, counts, Held \ {r})
      /\ \A c \in Consumers : counts[c] = activeByConsumer[c] - IF c = ConsumerOf[r] THEN 1 ELSE 0
  BY ReleaserCounted DEF ReleaseToWaiter
<1>1. PICK i \in Admissible(counts) :
        LET next == queue[i] IN
        /\ status' = [status EXCEPT ![r] = "idle", ![next] = "held"]
        /\ active' = AfterDrop + 1
        /\ activeByConsumer' = AddSlot(counts, ConsumerOf[next])
        /\ queue' = RemoveAt(queue, i)
        /\ waited' = [waited EXCEPT ![next] = 0]
        /\ stalledFor' = StallAfter(NotStalled, active', queue')
  BY DEF ReleaseToWaiter
<1>13. slowWaitAnnounced' \in BOOLEAN /\ announcements' \in Nat
  <2>1. announcements \in Nat /\ announcements + 0 \in Nat /\ announcements + 1 \in Nat
    BY DEF Inv, TypeOK
  <2>2. announcements' \in {0, announcements + 0, announcements + 1}
    BY DEF ReleaseToWaiter
  <2>3. slowWaitAnnounced' \in BOOLEAN
    BY DEF ReleaseToWaiter
  <2> QED BY <2>1, <2>2, <2>3
<1> DEFINE next == queue[i]
<1>2. i \in DOMAIN queue /\ UnderCap(counts, ConsumerOf[next])
  BY DEF Admissible
<1> HIDE DEF counts
<1>3. next \in Requests /\ status[next] = "queued" /\ next # r
  <2>1. next \in ToSet(queue)
    BY <1>2 DEF ToSet
  <2> QED BY <1>0, <2>1 DEF Inv, QueueExact
<1>4. active' = active
  BY <1>0, <1>1 DEF Inv, TypeOK
<1>5. \A c \in Consumers : activeByConsumer'[c] = counts[c] + IF c = ConsumerOf[next] THEN 1 ELSE 0
  BY <1>1 DEF AddSlot
<1>6. /\ queue' \in Seq(Requests) /\ Len(queue') = Len(queue) - 1 /\ Len(queue) \in Nat
      /\ \A j \in DOMAIN queue' : \E k \in DOMAIN queue : queue'[j] = queue[k]
  <2>1. queue \in Seq(Requests)
    BY DEF Inv, TypeOK
  <2>2. /\ queue' \in Seq(Requests) /\ Len(queue') = Len(queue) - 1
        /\ \A j \in DOMAIN queue' : queue'[j] = IF j < i THEN queue[j] ELSE queue[j + 1]
    BY <1>1, <1>2, <2>1, RemoveAtElements
  <2>3. DOMAIN queue = 1..Len(queue) /\ DOMAIN queue' = 1..(Len(queue) - 1) /\ Len(queue) \in Nat
    BY <2>1, <2>2
  <2> QED BY <2>1, <2>2, <2>3
<1>7. TypeOK'
  <2>1. stalledFor' \in Ages \cup {NotStalled}
    BY <1>1, StallType
  <2>2. activeByConsumer' \in [Consumers -> Nat]
    BY <1>0, <1>1 DEF AddSlot
  <2>3. 0 \in Ages
    BY TimesAssumption
  <2> QED BY <1>1, <1>3, <1>4, <1>6, <1>13, <2>1, <2>2, <2>3 DEF Inv, TypeOK
<1>8. QueueExact'
  <2>1. /\ \A j, k \in DOMAIN queue' : queue'[j] = queue'[k] => j = k
        /\ ToSet(queue') = ToSet(queue) \ {next}
    BY <1>1, <1>2, RemoveAtExact DEF Inv, TypeOK, QueueExact
  <2>2. {q \in Requests : status'[q] = "queued"} = {q \in Requests : status[q] = "queued"} \ {next}
    BY <1>0, <1>1, <1>3 DEF Inv, TypeOK
  <2> QED BY <2>1, <2>2 DEF Inv, QueueExact
<1>9. Held' = (Held \ {r}) \cup {next} /\ next \notin Held \ {r}
  BY <1>0, <1>1, <1>3 DEF Inv, TypeOK, Held
<1>10. SlotAccounting'
  <2>1. Held \ {r} \in SUBSET Requests
    BY DEF Held
  <2>2. Accounts(active - 1 + 1, AddSlot(counts, ConsumerOf[next]), (Held \ {r}) \cup {next})
    BY <1>0, <1>3, <1>9, <2>1, AddHolder
  <2> QED BY <1>0, <1>1, <1>9, <2>2, AccountingFormPrimed
<1>11. CapsRespected'
  <2>1. active' <= MaxConcurrent
    BY <1>4 DEF Inv, CapsRespected, SlotAccounting
  <2>2. (Len(queue) <= MaxQueued)'
    BY <1>6, LimitsAssumption DEF Inv, CapsRespected
  <2>3. ASSUME PerConsumerCap > 0, NEW c \in Consumers
        PROVE  activeByConsumer'[c] <= PerConsumerCap
    <3>1. activeByConsumer[c] <= PerConsumerCap /\ activeByConsumer[c] \in Nat /\ counts[c] \in Nat
      BY <1>0, <2>3 DEF Inv, TypeOK, CapsRespected, SlotAccounting
    <3>2. c = ConsumerOf[next] => counts[c] < PerConsumerCap
      BY <1>2, <2>3, ConsumersAssumption DEF UnderCap
    <3>3. counts[c] <= PerConsumerCap
      BY <1>0, <3>1, LimitsAssumption
    <3> QED BY <1>5, <3>1, <3>2, <3>3, LimitsAssumption
  <2> QED BY <1>10, <2>1, <2>2, <2>3, CapsFromCounters
<1>12. WorkConserving'
  <2> SUFFICES ASSUME active < MaxConcurrent
               PROVE  \A j \in DOMAIN queue' : ~UnderCap(activeByConsumer', ConsumerOf[queue'[j]])
    BY <1>4 DEF WorkConserving, ConsumerFree
  <2>1. \A k \in DOMAIN queue : ~UnderCap(activeByConsumer, ConsumerOf[queue[k]])
    BY DEF Inv, WorkConserving, ConsumerFree
  \* Only the releaser's consumer got room, so the waiter is one of its own.
  <2>2. ConsumerOf[next] \in Consumers /\ ConsumerOf[next] = ConsumerOf[r]
    <3>1. ConsumerOf[next] # NoConsumer /\ ~(activeByConsumer[ConsumerOf[next]] < PerConsumerCap)
          /\ PerConsumerCap > 0
      BY <1>2, <2>1 DEF UnderCap
    <3>2. ConsumerOf[next] \in Consumers
      BY <1>3, <3>1, ConsumersAssumption
    <3>3. counts[ConsumerOf[next]] < PerConsumerCap
      BY <1>2, <3>1 DEF UnderCap
    <3>4. activeByConsumer[ConsumerOf[next]] - 0 = activeByConsumer[ConsumerOf[next]]
      BY <3>2 DEF Inv, TypeOK
    <3> QED BY <1>0, <3>1, <3>2, <3>3, <3>4
  <2>3. \A c \in Consumers : activeByConsumer'[c] = activeByConsumer[c]
    <3> TAKE c \in Consumers
    <3>1. activeByConsumer[c] \in Nat /\ counts[c] \in Nat
      BY <1>0 DEF Inv, TypeOK
    <3>2. counts[c] = activeByConsumer[c] - IF c = ConsumerOf[r] THEN 1 ELSE 0
      BY <1>0
    <3>3. activeByConsumer'[c] = counts[c] + IF c = ConsumerOf[r] THEN 1 ELSE 0
      BY <1>5, <2>2
    <3> QED BY <3>1, <3>2, <3>3
  <2> TAKE j \in DOMAIN queue'
  <2>4. PICK k \in DOMAIN queue : queue'[j] = queue[k]
    BY <1>6
  <2>5. queue[k] \in Requests
    BY DEF Inv, TypeOK
  <2> QED BY <2>1, <2>3, <2>4, <2>5, ConsumersAssumption DEF UnderCap
<1> QED BY <1>7, <1>8, <1>10, <1>11, <1>12 DEF Inv

\* Steps that take or give no slot and touch no queue entry.
LEMMA QuietInv ==
    ASSUME Inv, TypeOK',
           UNCHANGED << active, activeByConsumer, queue >>,
           \A q \in Requests : status'[q] = "queued" <=> status[q] = "queued",
           \A q \in Requests : status'[q] = "held" <=> status[q] = "held"
    PROVE  Inv'
<1>1. Held' = Held /\ \A c : HeldBy(c)' = HeldBy(c)
  BY DEF Held, HeldBy
<1>2. QueueExact' /\ WorkConserving'
  BY DEF Inv, QueueExact, WorkConserving, ConsumerFree, ToSet
<1>3. SlotAccounting' /\ CapsRespected'
  BY <1>1 DEF Inv, SlotAccounting, CapsRespected
<1> QED BY <1>2, <1>3 DEF Inv

LEMMA StepInv == Inv /\ [QueueNext]_queueVars => Inv'
<1> SUFFICES ASSUME Inv, [QueueNext]_queueVars PROVE Inv'
  OBVIOUS
<1>1. ASSUME NEW r \in Requests, AcquireAdmit(r) PROVE Inv'
  BY <1>1, AdmitInv
<1>2. ASSUME NEW r \in Requests, AcquireEnqueue(r) PROVE Inv'
  BY <1>2, EnqueueInv
<1>3. ASSUME NEW r \in Requests, AcquireReject(r) PROVE Inv'
  <2>1. TypeOK'
    BY <1>3 DEF AcquireReject, Inv, TypeOK
  <2> QED BY <1>3, <2>1, QuietInv DEF AcquireReject, Inv, TypeOK
<1>4. ASSUME NEW r \in Requests, TimeoutFires(r) PROVE Inv'
  BY <1>4, TimeoutInv
<1>5. ASSUME NEW r \in Requests, Release(r) PROVE Inv'
  BY <1>5, ReleaseToNobodyInv, ReleaseToWaiterInv DEF Release
<1>6. ASSUME NEW r \in Requests, Answered(r) PROVE Inv'
  <2>1. TypeOK'
    BY <1>6 DEF Answered, Inv, TypeOK
  <2> QED BY <1>6, <2>1, QuietInv DEF Answered, Inv, TypeOK
<1>7. CASE Tick
  <2>1. \A age \in Ages : Older(age) \in Ages
    BY TimesAssumption DEF Older
  <2>2. TypeOK'
    BY <1>7, <2>1 DEF Tick, Inv, TypeOK
  <2> QED BY <1>7, <2>2, QuietInv DEF Tick
<1>8. CASE UNCHANGED queueVars
  <2>1. TypeOK'
    BY <1>8 DEF queueVars, Inv, TypeOK
  <2> QED BY <1>8, <2>1, QuietInv DEF queueVars
<1> QED BY <1>1, <1>2, <1>3, <1>4, <1>5, <1>6, <1>7, <1>8 DEF QueueNext

-----------------------------------------------------------------------------
(* Theorems.                                                               *)

LEMMA InvHolds == QueueSpec => []Inv
BY InitInv, StepInv, PTL DEF QueueSpec

\* The variables of the queue keep their types (class RequestQueue).
THEOREM QueueTypeCorrect == QueueSpec => []TypeOK
<1>1. Inv => TypeOK
  BY DEF Inv
<1> QED BY <1>1, InvHolds, PTL

\* The slots counted are the slots held, in total and per consumer (admit, release).
THEOREM SlotsNeverLeak == QueueSpec => []SlotAccounting
<1>1. Inv => SlotAccounting
  BY DEF Inv
<1> QED BY <1>1, InvHolds, PTL

\* A waiting request is in the queue exactly once (acquire, release, the timer).
THEOREM QueueHoldsTheWaiters == QueueSpec => []QueueExact
<1>1. Inv => QueueExact
  BY DEF Inv
<1> QED BY <1>1, InvHolds, PTL

\* maxConcurrent, maxConcurrentPerConsumer and maxQueued are never exceeded.
THEOREM CapsHold == QueueSpec => []CapsRespected
<1>1. Inv => CapsRespected
  BY DEF Inv
<1> QED BY <1>1, InvHolds, PTL

\* A free slot is never withheld from a request that could use it (release).
THEOREM NoIdleSlot == QueueSpec => []WorkConserving
<1>1. Inv => WorkConserving
  BY DEF Inv
<1> QED BY <1>1, InvHolds, PTL
=============================================================================
