----------------------- MODULE AccountPoolRouting_proof -----------------------
(***************************************************************************)
(* What the router of the account pool guarantees for every set of seats,  *)
(* requests, headers and timings: no state is a dead end, the moment a     *)
(* local 429 names is one at which a seat is back, a bucket's park is      *)
(* carried, a 429 is surfaced only when no peer is left, a pin holds and a *)
(* burst of refusals escalates an auth streak once.                        *)
(*                                                                         *)
(* The two invariants follow from the types alone: they hold of whatever   *)
(* reading a seat may have.  The action properties need that a request on  *)
(* the wire has tried its own seat (TriedInv).                             *)
(***************************************************************************)
EXTENDS AccountPool_proof, FiniteSetTheorems

-----------------------------------------------------------------------------
(* Finite sets of instants.                                                *)

\* A set of instants taken from the seats of the pool is finite.
LEMMA FiniteRange ==
    ASSUME NEW D, IsFiniteSet(D), NEW F
    PROVE  IsFiniteSet({ F[d] : d \in D })
<1> DEFINE T == { F[d] : d \in D }
           G == [d \in D |-> F[d]]
<1>1. G \in Surjection(D, T)
  BY DEF Surjection
<1> QED
  BY <1>1, FS_Surjection

\* Max and Min of a finite set of integers are what their names say.  Among the
\* finite subsets without a greatest element a smallest one would be left with
\* one by taking an element away.
LEMMA FiniteGreatest ==
    ASSUME NEW S, IsFiniteSet(S), S # {}, S \subseteq Int
    PROVE  \E m \in S : \A x \in S : m >= x
<1> DEFINE Tops(T) == { m \in T : \A x \in T : m >= x }
           Bad == { T \in FiniteSubsetsOf(S) : T # {} /\ Tops(T) = {} }
<1>1. SUFFICES Bad = {}
  BY DEF FiniteSubsetsOf
<1>2. SUFFICES ASSUME Bad # {} PROVE FALSE
  OBVIOUS
<1>3. IsWellFoundedOn(StrictSubsetOrdering(S), FiniteSubsetsOf(S))
  BY FS_StrictSubsetOrderingWellFounded
<1>4. Bad \subseteq FiniteSubsetsOf(S)
  OBVIOUS
<1> HIDE DEF Bad
<1>5. PICK T \in Bad : \A U \in Bad : ~ (<<U, T>> \in StrictSubsetOrdering(S))
  BY <1>2, <1>3, <1>4, WFMin
<1>6. T \in SUBSET S /\ IsFiniteSet(T) /\ T # {} /\ Tops(T) = {}
  BY <1>5 DEF Bad, FiniteSubsetsOf
<1>7. PICK x : x \in T
  BY <1>6
<1> DEFINE U == T \ {x}
<1>8. U \in FiniteSubsetsOf(S)
  BY <1>6, FS_Subset DEF FiniteSubsetsOf
<1>9. <<U, T>> \in StrictSubsetOrdering(S)
  BY <1>6, <1>7 DEF StrictSubsetOrdering
<1>10. U = {} \/ Tops(U) # {}
  BY <1>5, <1>8, <1>9 DEF Bad
<1>11. CASE U = {}
  <2>1. x \in Int /\ \A y \in T : y = x
    BY <1>6, <1>7, <1>11
  <2> QED
    BY <1>6, <1>7, <2>1
<1>12. CASE Tops(U) # {}
  <2>1. PICK m \in U : \A y \in U : m >= y
    BY <1>12
  <2>2. x \in Int /\ m \in Int /\ \A y \in T : y \in Int /\ (y \in U \/ y = x)
    BY <1>6, <1>7, <2>1
  <2>3. CASE m >= x
    <3>1. \A y \in T : m >= y
      BY <2>1, <2>2, <2>3
    <3> QED
      BY <3>1, <2>1, <1>6
  <2>4. CASE x >= m
    <3>1. \A y \in T : x >= y
      BY <2>1, <2>2, <2>4
    <3> QED
      BY <3>1, <1>6, <1>7
  <2> QED
    BY <2>2, <2>3, <2>4
<1> QED
  BY <1>10, <1>11, <1>12

LEMMA FiniteLeast ==
    ASSUME NEW S, IsFiniteSet(S), S # {}, S \subseteq Int
    PROVE  \E m \in S : \A x \in S : m <= x
<1> DEFINE Minus == [x \in Int |-> 0 - x]
           T == { Minus[x] : x \in S }
<1>1. IsFiniteSet(T) /\ T # {} /\ T \subseteq Int
  <2>1. \A x \in S : Minus[x] \in Int
    OBVIOUS
  <2> HIDE DEF Minus
  <2>2. IsFiniteSet(T)
    BY FiniteRange
  <2> QED
    BY <2>1, <2>2
<1>2. PICK m \in T : \A y \in T : m >= y
  BY <1>1, FiniteGreatest
<1>3. PICK x \in S : m = 0 - x
  BY <1>2
<1>4. \A y \in S : (0 - x) >= (0 - y)
  BY <1>2, <1>3
<1> QED
  BY <1>3, <1>4

LEMMA MaxIsGreatest ==
    ASSUME NEW S, IsFiniteSet(S), S # {}, S \subseteq Int
    PROVE  Max(S) \in S /\ \A x \in S : Max(S) >= x
  BY FiniteGreatest DEF Max

LEMMA MinIsAMember ==
    ASSUME NEW S, IsFiniteSet(S), S # {}, S \subseteq Int
    PROVE  Min(S) \in S
  BY FiniteLeast DEF Min

-----------------------------------------------------------------------------
(* No state is a dead end.                                                 *)

\* 2^n is an integer, so the auth cool-down is one.
LEMMA AuthCooldownIsAnInstant ==
    ASSUME NEW n \in Nat
    PROVE  AuthCooldown(n) \in Int
<1>1. CASE n = 0
  BY <1>1 DEF AuthCooldown
<1>2. CASE n # 0
  <2>1. n - 1 \in Nat
    BY <1>2
  <2>2. 2 ^ (n - 1) \in Int
    BY <2>1, Z3
  <2>3. AuthBase * 2 ^ (n - 1) \in Int
    BY <2>2, AuthAssumption
  <2> QED
    BY <1>2, <2>3, AuthAssumption DEF AuthCooldown
<1> QED
  BY <1>1, <1>2

\* MustServeBy comes after every instant a seat of the pool states.
LEMMA MustServeByIsLast ==
    ASSUME TypeOK
    PROVE  /\ MustServeBy \in Nat
           /\ \A s \in inPool :
                 /\ seat[s].rl.reset <= MustServeBy
                 /\ seat[s].rl.cooldownUntil <= MustServeBy
                 /\ seat[s].rl.parkedUntil <= MustServeBy
                 /\ seat[s].lastFail + AuthCooldown(seat[s].fails) <= MustServeBy
<1> DEFINE Stated == [s \in inPool |->
                        { seat[s].rl.reset, seat[s].rl.cooldownUntil, seat[s].rl.parkedUntil,
                          seat[s].lastFail + AuthCooldown(seat[s].fails) }]
           all == (UNION { Stated[s] : s \in inPool }) \cup {now}
<1>1. MustServeBy = Max(all)
  <2>1. { Stated[s] : s \in inPool } =
        { { seat[s].rl.reset, seat[s].rl.cooldownUntil, seat[s].rl.parkedUntil,
            seat[s].lastFail + AuthCooldown(seat[s].fails) } : s \in inPool }
    OBVIOUS
  <2> QED
    BY <2>1 DEF MustServeBy
<1>2. IsFiniteSet(inPool)
  BY SeatsAssumption, FS_Subset DEF TypeOK
<1>3. ASSUME NEW s \in inPool
      PROVE  IsFiniteSet(Stated[s]) /\ Stated[s] \subseteq Int
  <2>1. /\ seat[s].rl.reset \in Int /\ seat[s].rl.cooldownUntil \in Int
        /\ seat[s].rl.parkedUntil \in Int /\ seat[s].lastFail \in Int /\ seat[s].fails \in Nat
    BY DEF TypeOK, SeatStates, Readings, Instants
  <2>2. seat[s].lastFail + AuthCooldown(seat[s].fails) \in Int
    BY <2>1, AuthCooldownIsAnInstant
  <2>3. ASSUME NEW a, NEW b, NEW c, NEW d PROVE IsFiniteSet({a, b, c, d})
    <3>1. IsFiniteSet({a}) /\ IsFiniteSet({b}) /\ IsFiniteSet({c}) /\ IsFiniteSet({d})
      BY FS_Singleton
    <3>2. IsFiniteSet({a} \cup {b}) /\ IsFiniteSet({c} \cup {d})
      BY <3>1, FS_Union
    <3>3. IsFiniteSet(({a} \cup {b}) \cup ({c} \cup {d}))
      BY <3>2, FS_Union
    <3>4. {a, b, c, d} = ({a} \cup {b}) \cup ({c} \cup {d})
      OBVIOUS
    <3> QED
      BY <3>3, <3>4
  <2> QED
    BY <2>1, <2>2, <2>3
<1>4. now \in Nat
  BY TimesAssumption DEF TypeOK
<1>5. \A s \in inPool : Stated[s] \subseteq all
  OBVIOUS
<1>6. ASSUME NEW s \in inPool
      PROVE  /\ seat[s].rl.reset \in Stated[s] /\ seat[s].rl.cooldownUntil \in Stated[s]
             /\ seat[s].rl.parkedUntil \in Stated[s]
             /\ seat[s].lastFail + AuthCooldown(seat[s].fails) \in Stated[s]
  OBVIOUS
<1> HIDE DEF Stated
<1>7. IsFiniteSet(all)
  <2>1. IsFiniteSet({ Stated[s] : s \in inPool })
    BY <1>2, FiniteRange
  <2>2. \A T \in { Stated[s] : s \in inPool } : IsFiniteSet(T)
    BY <1>3
  <2>3. IsFiniteSet(UNION { Stated[s] : s \in inPool })
    BY <2>1, <2>2, FS_UNION
  <2> QED
    BY <2>3, FS_Singleton, FS_Union
<1>8. all \subseteq Int /\ now \in all
  BY <1>3, <1>4
<1> HIDE DEF all
<1>9. Max(all) \in Int /\ \A x \in all : Max(all) >= x
  BY <1>7, <1>8, MaxIsGreatest
<1>10. ASSUME NEW x \in all PROVE x <= MustServeBy
  BY <1>1, <1>8, <1>9
<1>11. MustServeBy \in Nat
  BY <1>1, <1>4, <1>8, <1>9
<1> QED
  BY <1>5, <1>6, <1>10, <1>11

\* Past every instant they state, the seats of a non-empty pool give the router
\* a candidate, below the headroom floor or above it.
LEMMA PastEveryInstantSomebodyServes ==
    ASSUME TypeOK, inPool # {}, NEW f, NEW t \in Nat,
           \A s \in inPool :
              /\ seat[s].rl.reset <= t /\ seat[s].rl.cooldownUntil <= t
              /\ seat[s].rl.parkedUntil <= t
              /\ seat[s].lastFail + AuthCooldown(seat[s].fails) <= t
    PROVE  Candidates(inPool, f, t) # {}
<1> DEFINE eligible == { s \in inPool : IsAccountEligible(seat[s], f, t) }
           stale    == { s \in eligible : FloorParkedUntil(seat[s].rl, f, t) = 0 }
<1>1. ASSUME NEW s \in inPool
      PROVE  IsProbeable(seat[s], f, t) /\ FloorParkedUntil(seat[s].rl, f, t) = 0
  <2>1. /\ seat[s].rl \in Readings /\ seat[s].rl.reset \in Nat
        /\ seat[s].lastFail \in Int /\ seat[s].fails \in Nat
    BY DEF TypeOK, SeatStates, Readings, Instants
  <2>2. ~(t < seat[s].lastFail + AuthCooldown(seat[s].fails))
    BY <2>1, AuthCooldownIsAnInstant
  <2>3. IsProbeable(seat[s], f, t)
    BY <2>1, <2>2, EveryParkEnds
  <2>4. FloorParkedUntil(seat[s].rl, f, t) = 0
    BY <2>1 DEF FloorParkedUntil
  <2> QED
    BY <2>3, <2>4
<1>2. CASE eligible = {}
  <2>1. Candidates(inPool, f, t) = { s \in inPool : IsProbeable(seat[s], f, t) }
    BY <1>2 DEF Candidates
  <2> QED
    BY <1>1, <2>1
<1>3. CASE eligible # {}
  <2>1. stale = eligible
    BY <1>1
  <2> QED
    BY <1>3, <2>1 DEF Candidates
<1> QED
  BY <1>2, <1>3

\* Whatever was answered, in whatever order, the pool is never stuck: without
\* any further traffic every family is routed again once every stated reset,
\* cool-down and auth cool-down is over (select, floorParkedUntil).
THEOREM NoStateIsADeadEnd == PoolSpec => []ServesAgain
<1>1. PoolSpec => []TypeOK
  BY PoolTypeCorrect
<1>2. TypeOK => ServesAgain
  BY MustServeByIsLast, PastEveryInstantSomebodyServes DEF ServesAgain
<1> QED
  BY <1>1, <1>2, PTL

-----------------------------------------------------------------------------
(* The moment a local 429 names.                                           *)

\* Parks and cool-downs only lift as time passes.
LEMMA ParksOnlyLift ==
    ASSUME NEW rl \in Readings, NEW f, NEW t \in Nat, NEW u \in Nat, t <= u
    PROVE  /\ IsParkedInLiveWindow(rl, f, u) => IsParkedInLiveWindow(rl, f, t)
           /\ IsCoolingAfterRejection(rl, u) => IsCoolingAfterRejection(rl, t)
<1>1. rl.reset \in Nat /\ rl.cooldownUntil \in Nat /\ rl.parkedUntil \in Nat
  BY DEF Readings, Instants
<1>2. FamilyParkedOnBuckets(rl, f, u) => FamilyParkedOnBuckets(rl, f, t)
  BY <1>1 DEF FamilyParkedOnBuckets, ActivePark
<1>3. rl.reset > u => rl.reset > t
  BY <1>1
<1>4. rl.cooldownUntil > u => rl.cooldownUntil > t
  BY <1>1
<1> QED
  BY <1>2, <1>3, <1>4 DEF IsParkedInLiveWindow, IsCoolingAfterRejection

\* What a seat names is an instant, and by then it is off its windows and its
\* buckets, and off the cool-down unless it named a bucket's reset.
LEMMA SeatIsBackByThen ==
    ASSUME TypeOK, NEW s \in inPool, NEW f
    PROVE  /\ SeatParkedUntil(s, f) \in Nat
           /\ SeatParkedUntil(s, f) # 0 =>
                 /\ ~IsParkedInLiveWindow(seat[s].rl, f, SeatParkedUntil(s, f))
                 /\ IsCoolingAfterRejection(seat[s].rl, SeatParkedUntil(s, f)) =>
                       FamilyParkedOnBuckets(seat[s].rl, f, now)
<1> DEFINE rl == seat[s].rl
           u == SeatParkedUntil(s, f)
<1>1. /\ rl \in Readings /\ now \in Nat
      /\ rl.reset \in Nat /\ rl.cooldownUntil \in Nat /\ rl.parkedUntil \in Nat
      /\ rl.parked \in BOOLEAN /\ rl.rejected \in BOOLEAN /\ rl.exhausted \in BOOLEAN
  BY TimesAssumption DEF TypeOK, SeatStates, Readings, Instants
<1>2. rl = seat[s].rl
  OBVIOUS
<1>3. CASE IsParkedInLiveWindow(rl, f, now) /\ FamilyParkedOnBuckets(rl, f, now)
  <2>1. u = rl.parkedUntil
    BY <1>3 DEF SeatParkedUntil
  <2> HIDE DEF u, rl
  <2>2. ~FamilyParkedOnBuckets(rl, f, u)
    BY <1>1, <2>1 DEF FamilyParkedOnBuckets, ActivePark
  <2>3. rl.parked
    BY <1>3 DEF FamilyParkedOnBuckets, ActivePark
  <2>4. ~IsParkedInLiveWindow(rl, f, u)
    BY <2>2, <2>3 DEF IsParkedInLiveWindow, IsBucketScopedRejection
  <2>5. u \in Nat
    BY <1>1, <2>1
  <2> QED
    BY <1>3, <2>4, <2>5 DEF u, rl
<1>4. CASE IsParkedInLiveWindow(rl, f, now) /\ ~FamilyParkedOnBuckets(rl, f, now)
  <2>1. u = rl.reset
    BY <1>4 DEF SeatParkedUntil
  <2> HIDE DEF u, rl
  <2>2. rl.rejected /\ rl.exhausted /\ rl.reset > now
    BY <1>4 DEF IsParkedInLiveWindow
  <2>3. u \in Nat /\ now <= u /\ ~(rl.reset > u)
    BY <1>1, <2>1, <2>2
  <2>4. FamilyParkedOnBuckets(rl, f, u) => FamilyParkedOnBuckets(rl, f, now)
    BY <1>1, <2>3 DEF FamilyParkedOnBuckets, ActivePark
  <2>5. ~IsParkedInLiveWindow(rl, f, u)
    BY <1>4, <2>3, <2>4 DEF IsParkedInLiveWindow
  <2>6. ~IsCoolingAfterRejection(rl, u)
    BY <2>2 DEF IsCoolingAfterRejection
  <2> QED
    BY <2>3, <2>5, <2>6 DEF u, rl
<1>5. CASE ~IsParkedInLiveWindow(rl, f, now) /\ IsCoolingAfterRejection(rl, now)
  <2>1. u = rl.cooldownUntil
    BY <1>5 DEF SeatParkedUntil
  <2> HIDE DEF u, rl
  <2>2. u \in Nat /\ now <= u /\ ~(rl.cooldownUntil > u)
    BY <1>1, <1>5, <2>1 DEF IsCoolingAfterRejection
  <2>3. ~IsParkedInLiveWindow(rl, f, u)
    BY <1>1, <1>5, <2>2, ParksOnlyLift
  <2>4. ~IsCoolingAfterRejection(rl, u)
    BY <2>2 DEF IsCoolingAfterRejection
  <2> QED
    BY <2>2, <2>3, <2>4 DEF u, rl
<1>6. CASE ~IsParkedInLiveWindow(rl, f, now) /\ ~IsCoolingAfterRejection(rl, now)
  <2>1. u = IF HardFloor /\ IsAccountEligible(seat[s], f, now)
            THEN FloorParkedUntil(rl, f, now) ELSE 0
    BY <1>6 DEF SeatParkedUntil
  <2> HIDE DEF u, rl
  <2>2. u = 0 \/ (u = rl.reset /\ rl.reset > now)
    BY <2>1 DEF FloorParkedUntil
  <2>3. u \in Nat /\ (u # 0 => now <= u)
    BY <1>1, <2>2
  <2>4. u # 0 => ~IsParkedInLiveWindow(rl, f, u) /\ ~IsCoolingAfterRejection(rl, u)
    BY <1>1, <1>6, <2>3, ParksOnlyLift
  <2> QED
    BY <2>3, <2>4 DEF u, rl
<1> QED
  BY <1>3, <1>4, <1>5, <1>6

\* When dario answers 429 itself, the retry-after it states is the moment one of
\* its seats is off every rate-limit window and every bucket that keeps the
\* family away (parkedUntil, floorParkedUntil), with or without a hard floor.
THEOREM RetryAfterIsHonest == PoolSpec => []ParkedUntilHonest
<1>1. PoolSpec => []TypeOK
  BY PoolTypeCorrect
<1>2. TypeOK => ParkedUntilHonest
  <2> SUFFICES ASSUME TypeOK, NEW f \in Families \cup {NoFamily}, ParkedUntil(f) # 0
               PROVE  \E s \in inPool :
                         /\ SeatParkedUntil(s, f) = ParkedUntil(f)
                         /\ ~IsParkedInLiveWindow(seat[s].rl, f, ParkedUntil(f))
                         /\ IsCoolingAfterRejection(seat[s].rl, ParkedUntil(f)) =>
                               FamilyParkedOnBuckets(seat[s].rl, f, now)
    BY DEF ParkedUntilHonest
  <2> DEFINE Named == [s \in inPool |-> SeatParkedUntil(s, f)]
             until == { Named[s] : s \in inPool }
  <2>1. until = { SeatParkedUntil(s, f) : s \in inPool }
    OBVIOUS
  <2>2. until # {} /\ ParkedUntil(f) = Min(until)
    BY <2>1 DEF ParkedUntil
  <2>3. \A s \in inPool : Named[s] = SeatParkedUntil(s, f) /\ Named[s] \in Int
    BY SeatIsBackByThen
  <2> HIDE DEF Named
  <2>4. IsFiniteSet(until)
    BY SeatsAssumption, FS_Subset, FiniteRange DEF TypeOK
  <2>5. Min(until) \in until
    BY <2>2, <2>3, <2>4, MinIsAMember
  <2>6. PICK s \in inPool : SeatParkedUntil(s, f) = ParkedUntil(f)
    BY <2>2, <2>3, <2>5
  <2> QED
    BY <2>6, SeatIsBackByThen
<1> QED
  BY <1>1, <1>2, PTL

-----------------------------------------------------------------------------
(* How a reading changes, and what that keeps.                             *)

\* A grant the pool keeps through a step keeps its reading, or gets the one an
\* answer leaves behind: a replacement or, after a 429, a rejection.  A reset a
\* 429 states is ahead of the clock.
ReadingStep(s) ==
    \/ seat'[s].rl = seat[s].rl
    \/ /\ now' = now
       /\ \E snap \in Readings : seat'[s].rl = Updated(seat[s].rl, snap)
    \/ /\ now' = now
       /\ \E snap \in Readings, ra \in RetryAfters :
             /\ seat'[s].rl = RejectedReading(seat[s].rl, snap, ra)
             /\ snap.reset > 0 => snap.reset > now

LEMMA JudgedOnly ==
    ASSUME TypeOK, NEW x \in Seats, NEW st, seat' = Judged(x, st), NEW s \in Seats
    PROVE  seat'[s] = seat[s] \/ (s = x /\ seat'[s] = st)
  BY DEF Judged, TypeOK

LEMMA SnapshotResetIsAhead ==
    ASSUME NEW wire \in WireReadings, NEW r \in Requests, now \in Nat
    PROVE  LET snap == Snapshot(wire, FamilyOf[r]) IN snap.reset > 0 => snap.reset > now
<1>1. wire.resetIn \in Nat
  BY WireAssumption
<1>2. Snapshot(wire, FamilyOf[r]).reset = IF wire.resetIn = 0 THEN 0 ELSE now + wire.resetIn
  BY DEF Snapshot, EmptyReading
<1> QED
  BY <1>1, <1>2

LEMMA AnswerChangesReading ==
    ASSUME TypeOK, NEW r \in Requests, NEW s \in inPool,
           AnswerOk(r) \/ AnswerError(r) \/ AnswerPeeked(r) \/ Answer429(r)
             \/ Answer401(r) \/ FailoverAfter403(r)
    PROVE  ReadingStep(s)
<1> DEFINE x == req[r].seat
<1>1. x \in Seats /\ s \in Seats /\ now \in Nat
  BY TimesAssumption, InHandHasASeat
     DEF TypeOK, AnswerOk, AnswerError, AnswerPeeked, Answer429, Answer401, FailoverAfter403, Resting
<1>2. \A y \in Seats : seat[y] \in SeatStates /\ seat[y].rl \in Readings
  BY DEF TypeOK, SeatStates
<1>3. \A rl : WithReading(x, rl).rl = rl /\ WithoutAuthFailure(WithReading(x, rl)).rl = rl
                /\ WithAuthFailure(WithReading(x, rl)).rl = rl
  BY <1>1, <1>2 DEF WithReading, WithoutAuthFailure, WithAuthFailure, SeatStates
<1>4. WithAuthFailure(seat[x]).rl = seat[x].rl
  BY <1>1, <1>2 DEF WithAuthFailure, SeatStates
<1> HIDE DEF x
<1>5. ASSUME NEW snap \in Readings, now' = now, NEW st,
             seat' = Judged(x, st), st.rl = Updated(seat[x].rl, snap)
      PROVE  ReadingStep(s)
  BY <1>1, <1>5, JudgedOnly DEF ReadingStep
<1>6. CASE AnswerOk(r)
  <2>1. PICK wire \in WireReadings :
          seat' = Judged(x, WithoutAuthFailure(
                      WithReading(x, Updated(seat[x].rl, Snapshot(wire, FamilyOf[r])))))
    BY <1>6 DEF AnswerOk, x
  <2>2. now' = now
    BY <1>6 DEF AnswerOk
  <2> QED
    BY <1>1, <1>3, <1>5, <2>1, <2>2, SnapshotIsAReading
<1>7. CASE AnswerError(r) \/ AnswerPeeked(r)
  <2>1. seat' = Judged(x, WithReading(x, Updated(seat[x].rl, EmptyReading))) /\ now' = now
    BY <1>7 DEF AnswerError, AnswerPeeked, x
  <2> QED
    BY <1>3, <1>5, <2>1, EmptyIsAReading
<1>8. CASE Answer401(r)
  <2>1. /\ seat' = Judged(x, WithAuthFailure(WithReading(x, Updated(seat[x].rl, EmptyReading))))
        /\ now' = now
    BY <1>8 DEF Answer401, AuthFailureOf, x
  <2> QED
    BY <1>3, <1>5, <2>1, EmptyIsAReading
<1>9. CASE FailoverAfter403(r)
  <2>1. seat' = Judged(x, WithAuthFailure(seat[x]))
    BY <1>9 DEF FailoverAfter403, AuthFailureOf, x
  <2>2. seat'[s].rl = seat[s].rl
    BY <1>1, <1>4, <2>1, JudgedOnly
  <2> QED
    BY <2>2 DEF ReadingStep
<1>10. CASE Answer429(r)
  <2>1. PICK wire \in WireReadings, ra \in RetryAfters :
          seat' = Judged(x, WithReading(x, RejectedReading(seat[x].rl,
                                               Snapshot(wire, FamilyOf[r]), ra)))
    BY <1>10 DEF Answer429, x
  <2> DEFINE snap == Snapshot(wire, FamilyOf[r])
  <2>2. snap \in Readings /\ (snap.reset > 0 => snap.reset > now)
    BY <1>1, SnapshotIsAReading, SnapshotResetIsAhead
  <2>3. now' = now
    BY <1>10 DEF Answer429
  <2> HIDE DEF snap
  <2>4. \/ seat'[s] = seat[s]
        \/ s = x /\ seat'[s] = WithReading(x, RejectedReading(seat[x].rl, snap, ra))
    BY <1>1, <2>1, JudgedOnly DEF snap
  <2>5. seat'[s].rl = seat[s].rl \/ seat'[s].rl = RejectedReading(seat[s].rl, snap, ra)
    BY <1>3, <2>4
  <2> QED
    BY <2>2, <2>3, <2>5 DEF ReadingStep
<1> QED
  BY <1>6, <1>7, <1>8, <1>9, <1>10

LEMMA EveryStepIsAReadingStep ==
    ASSUME TypeOK, [Next]_poolVars, NEW s \in inPool, s \in inPool', seat'[s].grant = seat[s].grant
    PROVE  ReadingStep(s)
<1>1. s \in Seats /\ seat[s].grant \in Int /\ \A x \in Seats : seat[x] \in SeatStates
  BY TimesAssumption DEF TypeOK, SeatStates
<1>2. CASE UNCHANGED seat
  BY <1>2 DEF ReadingStep
<1>3. ASSUME NEW r \in Requests,
             Select(r) \/ SelectPinned(r) \/ Send(r) \/ Answered(r) \/ BodyRead(r)
      PROVE  ReadingStep(s)
  <2>1. CASE Select(r) \/ SelectPinned(r) \/ Send(r) \/ Abort(r) \/ RetryInPlace(r)
               \/ FailoverAfter429(r) \/ Forward4xx(r)
    BY <1>2, <2>1 DEF Select, SelectPinned, Send, Abort, RetryInPlace, FailoverAfter429, Forward4xx
  <2>2. CASE AnswerOk(r) \/ AnswerError(r) \/ AnswerPeeked(r) \/ Answer429(r)
               \/ Answer401(r) \/ FailoverAfter403(r)
    BY <2>2, AnswerChangesReading
  <2> QED
    BY <1>3, <2>1, <2>2 DEF Answered, BodyRead
<1>4. ASSUME NEW x \in Seats, Grant(x) PROVE ReadingStep(s)
  <2>1. x # s
    BY <1>1, <1>4 DEF Grant, Regranted, FreshSeat, TypeOK
  <2> QED
    BY <1>1, <1>4, <2>1 DEF Grant, ReadingStep, TypeOK
<1>5. ASSUME NEW x \in Seats, Remove(x) PROVE ReadingStep(s)
  <2>1. x # s
    BY <1>5 DEF Remove
  <2> QED
    BY <1>1, <1>5, <2>1 DEF Remove, ReadingStep, TypeOK
<1>6. ASSUME NEW x \in Seats, RefreshTokens(x) PROVE ReadingStep(s)
  BY <1>1, <1>6 DEF RefreshTokens, ReadingStep, TypeOK, SeatStates
<1>7. CASE Tick
  BY <1>2, <1>7 DEF Tick
<1> QED
  BY <1>2, <1>3, <1>4, <1>5, <1>6, <1>7 DEF Next, poolVars

LEMMA ReplacementCarries ==
    ASSUME NEW rl \in Readings, NEW snap \in Readings, NEW f \in Families, now \in Nat,
           FamilyParkedOnBuckets(rl, f, now), Updated(rl, snap).bucket # "room"
    PROVE  FamilyParkedOnBuckets(Updated(rl, snap), f, now)
<1> DEFINE merged == WithBoundBuckets(rl, snap)
<1>1. merged \in Readings /\ rl.bound \subseteq merged.bound
  BY DEF WithBoundBuckets, Readings
<1>2. Updated(rl, snap) = WithParkedBuckets(rl, merged, now)
  BY DEF Updated
<1> HIDE DEF merged
<1>3. ActivePark(rl, now) /\ BucketBinds(rl, f)
  BY DEF FamilyParkedOnBuckets
<1>4. merged.bucket # "room"
  BY <1>2 DEF WithParkedBuckets
<1>5. Updated(rl, snap) = [merged EXCEPT !.parked = TRUE, !.parkedUntil = rl.parkedUntil]
  BY <1>2, <1>3, <1>4 DEF WithParkedBuckets
<1>6. /\ Updated(rl, snap).parked /\ Updated(rl, snap).parkedUntil = rl.parkedUntil
      /\ Updated(rl, snap).bound = merged.bound
  BY <1>1, <1>5 DEF Readings
<1> QED
  BY <1>1, <1>3, <1>6 DEF FamilyParkedOnBuckets, ActivePark, BucketBinds

\* A 429 renews the bucket's park, keeps it, or speaks for the whole seat.
LEMMA RejectionCarries ==
    ASSUME NEW rl \in Readings, NEW snap \in Readings, NEW ra, NEW f \in Families, now \in Nat,
           snap.reset > 0 => snap.reset > now,
           FamilyParkedOnBuckets(rl, f, now), snap.util # "full", snap.bucket # "room"
    PROVE  FamilyParkedOnBuckets(RejectedReading(rl, snap, ra), f, now)
<1> DEFINE merged == WithBoundBuckets(rl, snap)
           new == RejectedReading(rl, snap, ra)
<1>1. /\ merged \in Readings /\ rl.bound \subseteq merged.bound /\ merged.bucket = snap.bucket
  BY DEF WithBoundBuckets, Readings
<1>2. BucketBinds(rl, f) /\ ActivePark(rl, now)
  BY DEF FamilyParkedOnBuckets
<1>3. CASE snap.bucket = "full"
  <2> DEFINE u == IF snap.reset > 0 THEN snap.reset ELSE now + Cooldown
  <2>1. u > now
    BY TimesAssumption DEF Readings, Instants
  <2>2. new = [merged EXCEPT !.rejected = TRUE, !.parked = TRUE, !.parkedUntil = u]
    BY <1>3 DEF RejectedReading
  <2> HIDE DEF u, merged, new
  <2>3. new.parked /\ new.parkedUntil = u /\ new.bound = merged.bound
    BY <1>1, <2>2 DEF Readings
  <2>4. FamilyParkedOnBuckets(new, f, now)
    BY <1>1, <1>2, <2>1, <2>3 DEF FamilyParkedOnBuckets, ActivePark, BucketBinds
  <2> QED
    BY <2>4 DEF new
<1>4. CASE snap.bucket # "full"
  <2> DEFINE carried == WithParkedBuckets(rl, merged, now)
  <2>1. carried = [merged EXCEPT !.parked = TRUE, !.parkedUntil = rl.parkedUntil]
    BY <1>1, <1>2 DEF WithParkedBuckets
  <2>2. new = [carried EXCEPT !.rejected = TRUE, !.exhausted = FALSE, !.cooldownUntil = now + ra]
    BY <1>4 DEF RejectedReading
  <2> HIDE DEF carried, merged, new
  <2>3. carried = [merged EXCEPT !.parked = TRUE, !.parkedUntil = rl.parkedUntil]
        => new.parked /\ new.parkedUntil = rl.parkedUntil /\ new.bound = merged.bound
    BY <1>1, <2>2 DEF Readings
  <2>4. FamilyParkedOnBuckets(new, f, now)
    BY <1>1, <1>2, <2>1, <2>3 DEF FamilyParkedOnBuckets, ActivePark, BucketBinds
  <2> QED
    BY <2>4 DEF new
<1> QED
  BY <1>3, <1>4

LEMMA RejectedReadingSays ==
    ASSUME NEW rl \in Readings, NEW snap \in Readings, NEW ra
    PROVE  LET new == RejectedReading(rl, snap, ra)
           IN  /\ new.bucket = snap.bucket
               /\ snap.util = "full" => new.rejected /\ new.util = "full"
<1> DEFINE merged == WithBoundBuckets(rl, snap)
           carried == WithParkedBuckets(rl, merged, now)
<1>1. merged \in Readings /\ merged.bucket = snap.bucket /\ merged.util = snap.util
  BY DEF WithBoundBuckets, Readings
<1>2. carried \in Readings /\ carried.bucket = snap.bucket /\ carried.util = snap.util
  BY <1>1 DEF WithParkedBuckets, Readings, Instants
<1>3. RejectedReading(rl, snap, ra) =
        IF snap.util = "full" THEN [merged EXCEPT !.rejected = TRUE]
        ELSE IF snap.bucket = "full"
        THEN [merged EXCEPT !.rejected = TRUE, !.parked = TRUE,
                 !.parkedUntil = IF snap.reset > 0 THEN snap.reset ELSE now + Cooldown]
        ELSE [carried EXCEPT !.rejected = TRUE, !.exhausted = FALSE, !.cooldownUntil = now + ra]
  BY DEF RejectedReading
<1> HIDE DEF merged, carried
<1> QED
  BY <1>1, <1>2, <1>3 DEF Readings

\* A family whose bucket is spent stays off the seat whatever the answers of
\* other requests say, until the bucket's reset, a reading that measured room in
\* it, a new grant, or a 429 of the seat's own window (withParkedBuckets).
THEOREM BucketParkSurvives == PoolSpec => BucketParkCarried
<1> DEFINE Carried ==
      \A s \in inPool, f \in Families :
          /\ FamilyParkedOnBuckets(seat[s].rl, f, now')
          /\ s \in inPool' /\ seat'[s].grant = seat[s].grant
          /\ seat'[s].rl.bucket # "room"
          /\ ~ (seat'[s].rl.rejected /\ seat'[s].rl.util = "full")
          => RateLimited(seat'[s].rl, f, now')
<1>1. PoolSpec => []TypeOK
  BY PoolTypeCorrect
<1>2. TypeOK /\ [Next]_poolVars => [Carried]_poolVars
  <2> SUFFICES ASSUME TypeOK, [Next]_poolVars, NEW s \in inPool, NEW f \in Families,
                      FamilyParkedOnBuckets(seat[s].rl, f, now'),
                      s \in inPool', seat'[s].grant = seat[s].grant,
                      seat'[s].rl.bucket # "room",
                      ~ (seat'[s].rl.rejected /\ seat'[s].rl.util = "full")
               PROVE  RateLimited(seat'[s].rl, f, now')
    OBVIOUS
  <2>1. ReadingStep(s)
    BY EveryStepIsAReadingStep
  <2>2. seat[s].rl \in Readings /\ now \in Nat
    BY TimesAssumption DEF TypeOK, SeatStates
  <2>3. CASE seat'[s].rl = seat[s].rl
    BY <2>3 DEF RateLimited
  <2>4. ASSUME now' = now, NEW snap \in Readings, seat'[s].rl = Updated(seat[s].rl, snap)
        PROVE  RateLimited(seat'[s].rl, f, now')
    BY <2>2, <2>4, ReplacementCarries DEF RateLimited
  <2>5. ASSUME now' = now, NEW snap \in Readings, NEW ra \in RetryAfters,
               seat'[s].rl = RejectedReading(seat[s].rl, snap, ra),
               snap.reset > 0 => snap.reset > now
        PROVE  RateLimited(seat'[s].rl, f, now')
    <3>1. snap.bucket # "room" /\ snap.util # "full"
      BY <2>2, <2>5, RejectedReadingSays
    <3>2. FamilyParkedOnBuckets(RejectedReading(seat[s].rl, snap, ra), f, now)
      BY <2>2, <2>5, <3>1, RejectionCarries
    <3> QED
      BY <2>5, <3>2 DEF RateLimited
  <2> QED
    BY <2>1, <2>3, <2>4, <2>5 DEF ReadingStep
<1> QED
  BY <1>1, <1>2, PTL DEF PoolSpec, BucketParkCarried

-----------------------------------------------------------------------------
(* How a request moves.                                                    *)

OnTheWire == Reading \cup {"flying"}

\* What the router picks from (selectPoolAccount), and what a step may do to
\* request r: pick a seat, send it, wait for the body or
\* try again in place, move to a peer, or end; a 429 ends it only without peers.
Picks(r) == Candidates(inPool, FamilyOf[r], now) \cup Preferable(FamilyOf[r])
RequestStep(r) ==
    \/ req'[r] = req[r]
    \/ /\ req[r].pc \in Resting /\ req'[r].pc \in Resting \cup {"paced"} /\ req'[r].tried = {}
       /\ req'[r].pc \in Resting => req'[r].seat = NoSeat
       /\ req'[r].pc = "paced" /\ r \notin PinnedRequests => req'[r].seat \in Picks(r)
    \/ /\ req[r].pc = "paced" /\ req'[r].pc = "flying" /\ req'[r].seat = req[r].seat
       /\ req'[r].tried = {req[r].seat} \cup IF r \in PinnedRequests THEN inPool ELSE {}
       /\ req'[r].passes = req[r].passes
    \/ /\ req[r].pc \in OnTheWire /\ req'[r].pc \in OnTheWire
       /\ req'[r].seat = req[r].seat /\ req'[r].tried = req[r].tried
       /\ \/ req[r].pc = "flying" /\ req'[r].pc \in Reading /\ req'[r].passes = req[r].passes
          \/ /\ req[r].pc \in Reading /\ req'[r].pc = "flying"
             /\ req[r].passes < RecoveryPasses /\ req'[r].passes = req[r].passes + 1
    \/ /\ req[r].pc \in OnTheWire /\ req'[r].pc = "flying" /\ req'[r].passes = req[r].passes
       /\ req'[r].seat \in Peers(r) /\ req'[r].tried = req[r].tried \cup {req'[r].seat}
    \/ /\ req[r].pc \in OnTheWire /\ req'[r].pc \in Resting /\ req'[r].seat = NoSeat
       /\ req[r].pc = "reading429" => Peers(r) = {}

LEMMA FailoverMoves ==
    ASSUME TypeOK, NEW r \in Requests, req[r].pc \in OnTheWire, Failover(r)
    PROVE  RequestStep(r)
<1>1. ASSUME NEW s \in Peers(r),
             req' = [req EXCEPT ![r].pc = "flying", ![r].seat = s,
                               ![r].grant = seat[s].grant, ![r].tried = @ \cup {s}]
      PROVE  RequestStep(r)
  <2>1. req[r] \in RequestsInHand
    BY InHandHasASeat DEF OnTheWire, Reading, Resting
  <2>2. req'[r] = [req[r] EXCEPT !.pc = "flying", !.seat = s,
                                 !.grant = seat[s].grant, !.tried = @ \cup {s}]
    BY <1>1 DEF TypeOK
  <2>3. /\ req'[r].pc = "flying" /\ req'[r].seat = s /\ req'[r].tried = req[r].tried \cup {s}
        /\ req'[r].passes = req[r].passes
    BY <2>1, <2>2 DEF RequestsInHand
  <2> QED
    BY <2>3 DEF RequestStep, OnTheWire
<1>2. CASE Peers(r) = {} /\ req' = [req EXCEPT ![r] = AtRest("failed")]
  <2>1. req'[r] = AtRest("failed")
    BY <1>2 DEF TypeOK
  <2>2. req'[r].pc = "failed" /\ req'[r].seat = NoSeat
    BY <2>1 DEF AtRest
  <2> QED
    BY <1>2, <2>2 DEF RequestStep, Resting
<1> QED
  BY <1>1, <1>2 DEF Failover

LEMMA OwnStep ==
    ASSUME TypeOK, NEW r \in Requests,
           Select(r) \/ SelectPinned(r) \/ Send(r) \/ Answered(r) \/ BodyRead(r)
    PROVE  RequestStep(r)
<1>1. \A o : AtRest(o).pc = o /\ AtRest(o).seat = NoSeat /\ AtRest(o).tried = {}
  BY DEF AtRest
<1>2. \A s : /\ Carrying(r, s).pc = "paced" /\ Carrying(r, s).tried = {}
            /\ Carrying(r, s).seat = s
  BY DEF Carrying, AtRest
<1>3. \A q : req' = [req EXCEPT ![r] = q] => req'[r] = q
  BY DEF TypeOK
<1>4. \A q \in RequestsInHand : \A p, n, t :
        /\ [q EXCEPT !.pc = p].pc = p /\ [q EXCEPT !.pc = p].seat = q.seat
        /\ [q EXCEPT !.pc = p].tried = q.tried /\ [q EXCEPT !.pc = p].passes = q.passes
        /\ [q EXCEPT !.pc = p, !.passes = n].pc = p
        /\ [q EXCEPT !.pc = p, !.passes = n].seat = q.seat
        /\ [q EXCEPT !.pc = p, !.passes = n].tried = q.tried
        /\ [q EXCEPT !.pc = p, !.passes = n].passes = n
        /\ [q EXCEPT !.pc = p, !.tried = t].pc = p
        /\ [q EXCEPT !.pc = p, !.tried = t].seat = q.seat
        /\ [q EXCEPT !.pc = p, !.tried = t].tried = t
        /\ [q EXCEPT !.pc = p, !.tried = t].passes = q.passes
  BY DEF RequestsInHand
<1>5. CASE Select(r)
  <2>1. req[r].pc \in Resting
    BY <1>5 DEF Select
  <2>2. CASE \E s \in Picks(r) : req' = [req EXCEPT ![r] = Carrying(r, s)]
    <3>1. req'[r].pc = "paced" /\ req'[r].tried = {} /\ req'[r].seat \in Picks(r)
      BY <1>2, <1>3, <2>2
    <3> QED
      BY <2>1, <3>1 DEF RequestStep, Resting
  <2>3. CASE \E o \in {"parked", "unavailable"} : req' = [req EXCEPT ![r] = AtRest(o)]
    <3>1. /\ req'[r].pc \in {"parked", "unavailable"} /\ req'[r].tried = {}
          /\ req'[r].seat = NoSeat
      BY <1>1, <1>3, <2>3
    <3> QED
      BY <2>1, <3>1 DEF RequestStep, Resting
  <2> QED
    BY <1>5, <2>2, <2>3 DEF Select, Picks
<1>6. CASE SelectPinned(r)
  <2>1. /\ req'[r].pc = "paced" /\ req'[r].tried = {} /\ req[r].pc \in Resting
        /\ r \in PinnedRequests
    BY <1>2, <1>3, <1>6 DEF SelectPinned
  <2> QED
    BY <2>1 DEF RequestStep, Resting
<1>7. CASE Send(r)
  <2> DEFINE t == {req[r].seat} \cup IF r \in PinnedRequests THEN inPool ELSE {}
  <2>1. req[r] \in RequestsInHand
    BY <1>7, InHandHasASeat DEF Send, Resting
  <2>2. req'[r] = [req[r] EXCEPT !.pc = "flying", !.tried = t]
    BY <1>7 DEF Send, TypeOK
  <2> HIDE DEF t
  <2>3. /\ req'[r].pc = "flying" /\ req'[r].seat = req[r].seat /\ req'[r].tried = t
        /\ req'[r].passes = req[r].passes
    BY <1>4, <2>1, <2>2
  <2> QED
    BY <1>7, <2>3 DEF RequestStep, Send, t
<1>8. CASE \/ AnswerOk(r) \/ AnswerError(r) \/ Abort(r) \/ Forward4xx(r)
  <2>1. /\ req[r].pc \in {"flying", "reading400", "reading403"}
        /\ req'[r] \in {AtRest("served"), AtRest("failed")}
    BY <1>3, <1>8 DEF AnswerOk, AnswerError, Abort, Forward4xx
  <2>2. req'[r].pc \in {"served", "failed"} /\ req'[r].seat = NoSeat
    BY <1>1, <2>1
  <2> QED
    BY <2>1, <2>2 DEF RequestStep, OnTheWire, Reading, Resting
<1>9. CASE AnswerPeeked(r) \/ Answer429(r)
  <2>1. req[r].pc = "flying" /\ req[r] \in RequestsInHand
    BY <1>9, InHandHasASeat DEF AnswerPeeked, Answer429, Resting
  <2>2. PICK p \in Reading : req' = [req EXCEPT ![r].pc = p]
    BY <1>9 DEF AnswerPeeked, Answer429, Reading
  <2>3. req'[r] = [req[r] EXCEPT !.pc = p]
    BY <2>2 DEF TypeOK
  <2>4. /\ req'[r].pc = p /\ req'[r].seat = req[r].seat /\ req'[r].tried = req[r].tried
        /\ req'[r].passes = req[r].passes
    BY <1>4, <2>1, <2>3
  <2> QED
    BY <2>1, <2>2, <2>4 DEF RequestStep, OnTheWire
<1>10. CASE RetryInPlace(r)
  <2>1. /\ req[r].pc \in Reading /\ req[r].passes < RecoveryPasses
        /\ req[r] \in RequestsInHand
    BY <1>10, InHandHasASeat DEF RetryInPlace, Reading, Resting
  <2>2. req'[r] = [req[r] EXCEPT !.pc = "flying", !.passes = req[r].passes + 1]
    BY <1>10 DEF RetryInPlace, TypeOK
  <2>3. /\ req'[r].pc = "flying" /\ req'[r].seat = req[r].seat /\ req'[r].tried = req[r].tried
        /\ req'[r].passes = req[r].passes + 1
    BY <1>4, <2>1, <2>2
  <2> QED
    BY <2>1, <2>3 DEF RequestStep, OnTheWire
<1>11. CASE FailoverAfter429(r) \/ Answer401(r) \/ FailoverAfter403(r)
  BY <1>11, FailoverMoves
     DEF FailoverAfter429, Answer401, FailoverAfter403, OnTheWire, Reading
<1> QED
  BY <1>5, <1>6, <1>7, <1>8, <1>9, <1>10, <1>11 DEF Answered, BodyRead

\* The step of another request leaves r alone.
LEMMA OthersLeaveItAlone ==
    ASSUME TypeOK, NEW r \in Requests, NEW q \in Requests, q # r,
           Select(q) \/ SelectPinned(q) \/ Send(q) \/ Answered(q) \/ BodyRead(q)
    PROVE  req'[r] = req[r]
<1>1. CASE Select(q) \/ SelectPinned(q) \/ Send(q)
  BY <1>1 DEF Select, SelectPinned, Send, TypeOK
<1>2. CASE Answered(q)
  BY <1>2 DEF Answered, AnswerOk, AnswerError, AnswerPeeked, Answer429, Answer401, Abort,
              Failover, TypeOK
<1>3. CASE BodyRead(q)
  BY <1>3 DEF BodyRead, RetryInPlace, FailoverAfter429, FailoverAfter403, Forward4xx,
              Failover, TypeOK
<1> QED
  BY <1>1, <1>2, <1>3

LEMMA EveryStepIsARequestStep ==
    ASSUME TypeOK, [Next]_poolVars, NEW r \in Requests
    PROVE  RequestStep(r)
<1>1. ASSUME NEW q \in Requests,
             Select(q) \/ SelectPinned(q) \/ Send(q) \/ Answered(q) \/ BodyRead(q)
      PROVE  RequestStep(r)
  <2>1. CASE q = r
    BY <1>1, <2>1, OwnStep
  <2>2. CASE q # r
    BY <1>1, <2>2, OthersLeaveItAlone DEF RequestStep
  <2> QED
    BY <2>1, <2>2
<1>2. ASSUME NEW s \in Seats, Grant(s) \/ Remove(s) \/ RefreshTokens(s)
      PROVE  RequestStep(r)
  BY <1>2 DEF Grant, Remove, RefreshTokens, RequestStep
<1>3. CASE Tick \/ UNCHANGED poolVars
  BY <1>3 DEF Tick, poolVars, RequestStep
<1> QED
  BY <1>1, <1>2, <1>3 DEF Next

\* A request on the wire has tried the seat it is with.
TriedInv == \A r \in Requests : req[r].pc \in OnTheWire => req[r].seat \in req[r].tried

LEMMA TriedStep ==
    ASSUME TypeOK, TriedInv, [Next]_poolVars
    PROVE  TriedInv'
<1> SUFFICES ASSUME NEW r \in Requests, req'[r].pc \in OnTheWire
             PROVE  req'[r].seat \in req'[r].tried
  BY DEF TriedInv
<1>1. RequestStep(r)
  BY EveryStepIsARequestStep
<1>2. req[r].pc \in OnTheWire => req[r].seat \in req[r].tried
  BY DEF TriedInv
<1>3. \A p \in Resting \cup {"paced"} : p \notin OnTheWire
  BY DEF Resting, OnTheWire, Reading
<1> QED
  BY <1>1, <1>2, <1>3 DEF RequestStep

LEMMA TriedAlways == PoolSpec => [](TypeOK /\ TriedInv)
<1>1. Init => TriedInv
  BY DEF Init, TriedInv, AtRest, OnTheWire, Reading
<1>2. TypeOK /\ TriedInv /\ [Next]_poolVars => TriedInv'
  BY TriedStep
<1>3. PoolSpec => []TypeOK
  BY PoolTypeCorrect
<1> QED
  BY <1>1, <1>2, <1>3, PTL DEF PoolSpec

\* selectExcluding finds a peer whenever one is left: an eligible seat above the
\* headroom floor that the request has not tried, besides the seat it is with.
LEMMA APeerIsFound ==
    ASSUME TypeOK, TriedInv, NEW r \in Requests, req[r].pc \in OnTheWire,
           req[r].seat \in inPool, NEW s \in inPool \ req[r].tried,
           IsAccountEligible(seat[s], FamilyOf[r], now), AboveFloor(seat[s].rl, FamilyOf[r], now)
    PROVE  Peers(r) # {}
<1>1. s # req[r].seat
  BY DEF TriedInv
<1>2. IsFiniteSet(inPool)
  BY SeatsAssumption, FS_Subset DEF TypeOK
<1>3. ~(Cardinality(inPool) <= 1)
  <2>1. IsFiniteSet({s, req[r].seat}) /\ Cardinality({s, req[r].seat}) = 2
    <3>1. IsFiniteSet({req[r].seat}) /\ Cardinality({req[r].seat}) = 1
      BY FS_Singleton
    <3>2. /\ IsFiniteSet({req[r].seat} \cup {s})
          /\ Cardinality({req[r].seat} \cup {s}) = 2
      <4>1. s \notin {req[r].seat}
        BY <1>1
      <4>2. /\ IsFiniteSet({req[r].seat} \cup {s})
            /\ Cardinality({req[r].seat} \cup {s}) = Cardinality({req[r].seat}) + 1
        BY <3>1, <4>1, FS_AddElement
      <4> QED
        BY <3>1, <4>2
    <3>3. {s, req[r].seat} = {req[r].seat} \cup {s}
      OBVIOUS
    <3> QED
      BY <3>2, <3>3
  <2>2. Cardinality({s, req[r].seat}) <= Cardinality(inPool)
    BY <1>2, FS_Subset
  <2>3. Cardinality(inPool) \in Nat
    BY <1>2, FS_CardinalityType
  <2> QED
    BY <2>1, <2>2, <2>3
<1>4. s \in Candidates(inPool \ req[r].tried, FamilyOf[r], now)
  BY DEF Candidates
<1> QED
  BY <1>3, <1>4 DEF Peers

\* A 429 reaches the client only when every eligible seat of the pool above the
\* headroom floor has been tried for this request, for every number of seats and
\* whatever other requests, logins and removals do meanwhile (selectExcluding).
THEOREM EveryPeerIsAsked == PoolSpec => PeerTriedBeforeSurfacing
<1> DEFINE Asked ==
      \A r \in Requests \ PinnedRequests :
          /\ req[r].pc = "reading429" /\ req'[r].pc = "failed"
          /\ req[r].seat \in inPool
          => ~ \E s \in inPool \ req[r].tried :
                    /\ IsAccountEligible(seat[s], FamilyOf[r], now)
                    /\ AboveFloor(seat[s].rl, FamilyOf[r], now)
<1>1. TypeOK /\ TriedInv /\ [Next]_poolVars => [Asked]_poolVars
  <2> SUFFICES ASSUME TypeOK, TriedInv, [Next]_poolVars, NEW r \in Requests \ PinnedRequests,
                      req[r].pc = "reading429", req'[r].pc = "failed", req[r].seat \in inPool,
                      NEW s \in inPool \ req[r].tried,
                      IsAccountEligible(seat[s], FamilyOf[r], now),
                      AboveFloor(seat[s].rl, FamilyOf[r], now)
               PROVE  FALSE
    OBVIOUS
  <2>1. Peers(r) = {}
    BY EveryStepIsARequestStep DEF RequestStep, OnTheWire, Reading, Resting
  <2>2. Peers(r) # {}
    BY APeerIsFound DEF OnTheWire, Reading
  <2> QED
    BY <2>1, <2>2
<1> QED
  BY <1>1, TriedAlways, PTL DEF PoolSpec, PeerTriedBeforeSurfacing

\* While nobody logs in, a pinned request on the wire has tried the whole pool.
PinInv == \A r \in PinnedRequests : req[r].pc \in OnTheWire => inPool \subseteq req[r].tried

LEMMA PoolOnlyShrinks ==
    ASSUME TypeOK, MaxGrant = 1, [Next]_poolVars
    PROVE  inPool' \subseteq inPool
<1>1. \A s \in Seats : ~Grant(s)
  BY DEF TypeOK, SeatStates, Grant
<1>2. ASSUME NEW r \in Requests,
             Select(r) \/ SelectPinned(r) \/ Send(r) \/ Answered(r) \/ BodyRead(r)
      PROVE  inPool' = inPool
  BY <1>2 DEF Select, SelectPinned, Send, Answered, AnswerOk, AnswerError, AnswerPeeked, Answer429,
              Answer401, Abort, BodyRead, RetryInPlace, FailoverAfter429, FailoverAfter403, Forward4xx
<1>3. ASSUME NEW s \in Seats, Remove(s) \/ RefreshTokens(s)
      PROVE  inPool' \subseteq inPool
  BY <1>3 DEF Remove, RefreshTokens
<1>4. CASE Tick \/ UNCHANGED poolVars
  BY <1>4 DEF Tick, poolVars
<1> QED
  BY <1>1, <1>2, <1>3, <1>4 DEF Next

LEMMA PinnedHasNoPeers ==
    ASSUME NEW r \in PinnedRequests, inPool \subseteq req[r].tried
    PROVE  Peers(r) = {}
<1>1. inPool \ req[r].tried = {}
  OBVIOUS
<1>2. Candidates({}, FamilyOf[r], now) = {}
  BY CandidatesAreSeats
<1> QED
  BY <1>1, <1>2 DEF Peers

LEMMA PinStep ==
    ASSUME TypeOK, PinInv, MaxGrant = 1, [Next]_poolVars
    PROVE  PinInv'
<1> SUFFICES ASSUME NEW r \in PinnedRequests, req'[r].pc \in OnTheWire
             PROVE  inPool' \subseteq req'[r].tried
  BY DEF PinInv
<1>1. RequestStep(r) /\ inPool' \subseteq inPool
  BY EveryStepIsARequestStep, PoolOnlyShrinks, RequestsAssumption
<1>2. req[r].pc \in OnTheWire => inPool \subseteq req[r].tried
  BY DEF PinInv
<1>3. \A p \in Resting \cup {"paced"} : p \notin OnTheWire
  BY DEF Resting, OnTheWire, Reading
<1> QED
  BY <1>1, <1>2, <1>3 DEF RequestStep

\* A request that names its seat is answered by that seat or fails: no failover
\* moves it, for any number of seats, while no login adds a seat or grant
\* (MaxGrant = 1).  A seat granted during its flight is one it has not tried.
THEOREM PinHoldsWithoutLogins ==
    ASSUME MaxGrant = 1
    PROVE  PoolSpec => PinStaysOnItsSeat
<1> DEFINE Stays ==
      \A r \in PinnedRequests :
          req[r].pc \notin Resting => req'[r].seat \in {req[r].seat, NoSeat}
<1>1. PoolSpec => []TypeOK
  BY PoolTypeCorrect
<1>2. Init => PinInv
  BY RequestsAssumption DEF Init, PinInv, AtRest, OnTheWire, Reading
<1>3. TypeOK /\ PinInv /\ [Next]_poolVars => PinInv'
  BY PinStep
<1>4. TypeOK /\ PinInv /\ [Next]_poolVars => [Stays]_poolVars
  <2> SUFFICES ASSUME TypeOK, PinInv, [Next]_poolVars, NEW r \in PinnedRequests,
                      req[r].pc \notin Resting
               PROVE  req'[r].seat \in {req[r].seat, NoSeat}
    OBVIOUS
  <2>1. RequestStep(r)
    BY EveryStepIsARequestStep, RequestsAssumption
  <2>2. req[r].pc \in OnTheWire => Peers(r) = {}
    BY PinnedHasNoPeers DEF PinInv
  <2> QED
    BY <2>1, <2>2 DEF RequestStep
<1> QED
  BY <1>1, <1>2, <1>3, <1>4, PTL DEF PoolSpec, PinStaysOnItsSeat

-----------------------------------------------------------------------------
(* A seat whose window is shut is left alone.                              *)

\* No two requests are out with one seat, none names its seat, and a 429 is
\* never answered by a retry in place: what it takes for the documented promise,
\* which two requests on one seat, a pin or such a retry break.
Undisturbed ==
    /\ \A r \in PinnedRequests : req[r].pc \in Resting
    /\ \A r, q \in Requests :
          req[r].pc \notin Resting /\ req[q].pc \notin Resting /\ req[r].seat = req[q].seat => r = q
RefusedMovesOn ==
    \A r \in Requests :
        req[r].pc = "reading429" /\ req'[r].pc = "flying" => req'[r].seat # req[r].seat

\* While the reset a 429 stated is ahead, the seat's reading says so, and only
\* the request whose 429 it was may still be with it.
ShutReading(rl, until) == rl.rejected /\ rl.exhausted /\ ~rl.parked /\ until <= rl.reset
ShutInv ==
    \A s \in Seats : shutUntil[s] > now =>
        /\ ShutReading(seat[s].rl, shutUntil[s])
        /\ \A r \in Requests :
              req[r].pc \notin Resting /\ req[r].seat = s => req[r].pc = "reading429"

\* Such a seat is neither eligible nor probeable.
LEMMA ShutSeatIsNotPicked ==
    ASSUME TypeOK, ShutInv, NEW s \in Seats, shutUntil[s] > now, NEW r \in Requests
    PROVE  s \notin Picks(r) /\ s \notin Peers(r)
<1> DEFINE rl == seat[s].rl
           f == FamilyOf[r]
<1>1. /\ rl.rejected /\ rl.exhausted /\ ~rl.parked /\ shutUntil[s] <= rl.reset
      /\ rl.reset \in Nat /\ shutUntil[s] \in Nat /\ now \in Nat
  BY TimesAssumption DEF ShutInv, ShutReading, TypeOK, SeatStates, Readings, Instants
<1>2. rl.reset > now /\ ~(rl.reset <= now)
  BY <1>1
<1> HIDE DEF rl
<1>3. ~IsBucketScopedRejection(rl) /\ ~RateLimitWindowPassed(rl, now)
  BY <1>1, <1>2 DEF IsBucketScopedRejection, RateLimitWindowPassed, StatedResetPassed
<1>4. RateLimited(rl, f, now) /\ IsParkedInLiveWindow(rl, f, now)
  BY <1>1, <1>2, <1>3 DEF RateLimited, Rejected, IsParkedInLiveWindow
<1>5. ~IsAccountEligible(seat[s], f, now) /\ ~IsProbeable(seat[s], f, now)
  BY <1>4 DEF IsAccountEligible, IsProbeable, rl
<1>6. \A among : s \notin Candidates(among, f, now)
  BY <1>5 DEF Candidates
<1>7. s \notin Preferable(f)
  BY <1>5 DEF Preferable
<1> QED
  BY <1>6, <1>7 DEF Picks, Peers

\* The reading a 429 of the seat's own window leaves.
LEMMA WindowRejectionShuts ==
    ASSUME NEW rl \in Readings, NEW wire \in WireReadings, wire.util = "full",
           NEW r \in Requests, NEW ra, now \in Nat, Snapshot(wire, FamilyOf[r]) \in Readings
    PROVE  LET snap == Snapshot(wire, FamilyOf[r])
           IN  ShutReading(RejectedReading(rl, snap, ra), snap.reset)
<1> DEFINE snap == Snapshot(wire, FamilyOf[r])
<1>1. snap.util = "full" /\ snap.exhausted /\ ~snap.parked
  BY DEF Snapshot, EmptyReading
<1> HIDE DEF snap
<1>2. snap \in Readings
  BY DEF snap
<1>3. RejectedReading(rl, snap, ra) =
        [[snap EXCEPT !.bound = rl.bound \cup snap.bound] EXCEPT !.rejected = TRUE]
  BY <1>1 DEF RejectedReading, WithBoundBuckets
<1>4. /\ RejectedReading(rl, snap, ra).rejected
      /\ RejectedReading(rl, snap, ra).exhausted = snap.exhausted
      /\ RejectedReading(rl, snap, ra).parked = snap.parked
      /\ RejectedReading(rl, snap, ra).reset = snap.reset
  BY <1>2, <1>3 DEF Readings
<1>5. snap.reset \in Nat
  BY <1>2 DEF Readings, Instants
<1> QED
  BY <1>1, <1>4, <1>5 DEF ShutReading, snap

\* What a step may do to a seat that is shut after it: keep it so, reading and
\* all, or shut it, which only the 429 of a request on it does.
ShutKept(s) ==
    shutUntil'[s] = shutUntil[s] /\ seat'[s].rl = seat[s].rl /\ shutUntil[s] > now
ShutByA429(s) ==
    \E r \in Requests :
        /\ Answer429(r) /\ req[r].pc = "flying" /\ req[r].seat = s
        /\ req'[r].pc = "reading429" /\ req'[r].seat = s
        /\ ShutReading(seat'[s].rl, shutUntil'[s])

LEMMA ShutStep ==
    ASSUME TypeOK, ShutInv, [Next]_poolVars, NEW s \in Seats, shutUntil'[s] > now'
    PROVE  ShutKept(s) \/ ShutByA429(s)
<1>1. /\ seat \in [Seats -> SeatStates] /\ shutUntil \in [Seats -> Nat] /\ now \in Nat
      /\ \A x \in Seats : seat[x] \in SeatStates /\ seat[x].rl \in Readings
  BY TimesAssumption DEF TypeOK, SeatStates, Instants
<1>2. ASSUME seat'[s].rl = seat[s].rl, shutUntil'[s] = shutUntil[s], now' \in {now, now + 1}
      PROVE  ShutKept(s) \/ ShutByA429(s)
  BY <1>1, <1>2 DEF ShutKept
<1>3. ASSUME NEW r \in Requests, Select(r) \/ SelectPinned(r) \/ Send(r) \/ Abort(r)
               \/ RetryInPlace(r) \/ FailoverAfter429(r) \/ Forward4xx(r)
      PROVE  ShutKept(s) \/ ShutByA429(s)
  BY <1>2, <1>3 DEF Select, SelectPinned, Send, Abort, RetryInPlace, FailoverAfter429, Forward4xx
<1>4. ASSUME NEW r \in Requests,
             AnswerOk(r) \/ AnswerError(r) \/ AnswerPeeked(r) \/ Answer401(r) \/ FailoverAfter403(r)
      PROVE  ShutKept(s) \/ ShutByA429(s)
  <2> DEFINE x == req[r].seat
  <2>1. x \in Seats /\ req[r].pc \notin Resting /\ req[r].pc # "reading429"
    BY <1>4, InHandHasASeat
       DEF AnswerOk, AnswerError, AnswerPeeked, Answer401, FailoverAfter403, Resting
  <2>2. /\ \E st : seat' = Judged(x, st)
        /\ \E t : shutUntil' \in {shutUntil, [shutUntil EXCEPT ![x] = t]}
        /\ shutUntil'[x] \in {0, shutUntil[x]} /\ now' = now
    BY <1>1, <1>4, <2>1
       DEF AnswerOk, AnswerError, AnswerPeeked, Answer401, FailoverAfter403, AuthFailureOf
  <2>3. ~(shutUntil[x] > now)
    BY <2>1 DEF ShutInv
  <2> HIDE DEF x
  <2>4. s # x
    BY <1>1, <2>1, <2>2, <2>3
  <2>5. seat'[s] = seat[s] /\ shutUntil'[s] = shutUntil[s]
    BY <1>1, <2>1, <2>2, <2>4, JudgedOnly
  <2> QED
    BY <1>2, <2>2, <2>5
<1>5. ASSUME NEW r \in Requests, Answer429(r) PROVE ShutKept(s) \/ ShutByA429(s)
  <2> DEFINE x == req[r].seat
  <2>1. x \in Seats /\ req[r].pc = "flying" /\ req[r] \in RequestsInHand
    BY <1>5, InHandHasASeat DEF Answer429, Resting
  <2>2. PICK wire \in WireReadings, ra \in RetryAfters :
          /\ seat' = Judged(x, WithReading(x, RejectedReading(seat[x].rl,
                                                Snapshot(wire, FamilyOf[r]), ra)))
          /\ shutUntil' = [shutUntil EXCEPT ![x] =
                 IF /\ x \in inPool /\ req[r].grant = seat[x].grant
                    /\ wire.util = "full" /\ Snapshot(wire, FamilyOf[r]).reset > @
                 THEN Snapshot(wire, FamilyOf[r]).reset ELSE @]
    BY <1>5 DEF Answer429
  <2>3. now' = now /\ req' = [req EXCEPT ![r].pc = "reading429"]
    BY <1>5 DEF Answer429
  <2>4. ~(shutUntil[x] > now)
    BY <2>1 DEF ShutInv, Resting
  <2>5. req'[r].pc = "reading429" /\ req'[r].seat = x
    BY <2>1, <2>3 DEF TypeOK, RequestsInHand
  <2> DEFINE snap == Snapshot(wire, FamilyOf[r])
  <2>6. snap \in Readings
    BY <1>1, SnapshotIsAReading
  <2> HIDE DEF x, snap
  <2>7. CASE s # x
    <3>1. seat'[s] = seat[s] /\ shutUntil'[s] = shutUntil[s]
      BY <1>1, <2>1, <2>2, <2>7, JudgedOnly
    <3> QED
      BY <1>2, <2>3, <3>1
  <2>8. CASE s = x
    <3>1. x \in inPool /\ wire.util = "full" /\ shutUntil'[x] = snap.reset
      BY <1>1, <2>1, <2>2, <2>3, <2>4, <2>8 DEF snap
    <3>2. seat'[x] = WithReading(x, RejectedReading(seat[x].rl, snap, ra))
      BY <1>1, <2>1, <2>2, <3>1 DEF Judged, snap
    <3>3. seat'[x].rl = RejectedReading(seat[x].rl, snap, ra)
      BY <1>1, <2>1, <3>2 DEF WithReading, SeatStates
    <3>4. ShutReading(RejectedReading(seat[x].rl, snap, ra), snap.reset)
      BY <1>1, <2>1, <2>6, <3>1, WindowRejectionShuts DEF snap
    <3> QED
      BY <1>5, <2>1, <2>5, <2>8, <3>1, <3>3, <3>4 DEF ShutByA429, x
  <2> QED
    BY <2>7, <2>8
<1>6. ASSUME NEW x \in Seats, Grant(x) \/ Remove(x) PROVE ShutKept(s) \/ ShutByA429(s)
  <2>1. s # x
    BY <1>1, <1>6 DEF Grant, Remove
  <2>2. seat'[s] = seat[s] /\ shutUntil'[s] = shutUntil[s] /\ now' = now
    BY <1>1, <1>6, <2>1 DEF Grant, Remove
  <2> QED
    BY <1>2, <2>2
<1>7. ASSUME NEW x \in Seats, RefreshTokens(x) PROVE ShutKept(s) \/ ShutByA429(s)
  <2>1. seat'[s].rl = seat[s].rl /\ shutUntil'[s] = shutUntil[s] /\ now' = now
    BY <1>1, <1>7 DEF RefreshTokens, SeatStates
  <2> QED
    BY <1>2, <2>1
<1>8. CASE Tick \/ UNCHANGED poolVars
  BY <1>2, <1>8 DEF Tick, poolVars
<1> QED
  BY <1>3, <1>4, <1>5, <1>6, <1>7, <1>8 DEF Next, Answered, BodyRead

\* The other requests of a step that shuts a seat: none is with it, and none
\* moves.
LEMMA OnlyItsOwnRequestIsWithIt ==
    ASSUME TypeOK, Undisturbed, NEW s \in Seats, ShutByA429(s), NEW q \in Requests,
           req'[q].pc \notin Resting, req'[q].seat = s
    PROVE  req'[q].pc = "reading429"
<1>1. PICK r \in Requests :
        /\ Answer429(r) /\ req[r].pc = "flying" /\ req[r].seat = s /\ req'[r].pc = "reading429"
  BY DEF ShutByA429
<1>2. CASE q # r
  <2>1. req'[q] = req[q]
    BY <1>1, <1>2, OthersLeaveItAlone DEF Answered
  <2> QED
    BY <1>1, <1>2, <2>1 DEF Undisturbed, Resting
<1> QED
  BY <1>1, <1>2

LEMMA ShutInvStep ==
    ASSUME TypeOK, ShutInv, Undisturbed, Undisturbed', RefusedMovesOn, [Next]_poolVars
    PROVE  ShutInv'
<1> SUFFICES ASSUME NEW s \in Seats, shutUntil'[s] > now'
             PROVE  /\ ShutReading(seat'[s].rl, shutUntil'[s])
                    /\ \A q \in Requests : req'[q].pc \notin Resting /\ req'[q].seat = s
                                              => req'[q].pc = "reading429"
  BY DEF ShutInv
<1>1. CASE ShutByA429(s)
  <2>1. ShutReading(seat'[s].rl, shutUntil'[s])
    BY <1>1 DEF ShutByA429
  <2> QED
    BY <1>1, <2>1, OnlyItsOwnRequestIsWithIt
<1>2. CASE ShutKept(s)
  <2>1. ShutReading(seat'[s].rl, shutUntil'[s]) /\ shutUntil[s] > now
    BY <1>2 DEF ShutKept, ShutInv
  <2>2. ASSUME NEW q \in Requests, req'[q].pc \notin Resting, req'[q].seat = s
        PROVE  req'[q].pc = "reading429"
    <3>1. RequestStep(q)
      BY EveryStepIsARequestStep
    <3>2. s \notin Picks(q) /\ s \notin Peers(q)
      BY <2>1, ShutSeatIsNotPicked
    <3>3. q \notin PinnedRequests
      BY <2>2 DEF Undisturbed
    <3>4. req[q].pc \notin Resting /\ req[q].seat = s => req[q].pc = "reading429"
      BY <2>1 DEF ShutInv
    <3>5. req[q].pc = "reading429" /\ req'[q].pc = "flying" => req'[q].seat # req[q].seat
      BY DEF RefusedMovesOn
    <3>6. "paced" \notin OnTheWire /\ \A p \in OnTheWire \cup {"paced"} : p \notin Resting
      BY DEF OnTheWire, Reading, Resting
    <3> QED
      BY <2>2, <3>1, <3>2, <3>3, <3>4, <3>5, <3>6 DEF RequestStep, OnTheWire, Reading
  <2> QED
    BY <2>1, <2>2
<1> QED
  BY <1>1, <1>2, ShutStep

\* A seat whose own window a 429 called exhausted gets no request the router
\* chooses before the stated reset (docs/multi-account-pool.md:21), for any
\* number of seats and requests, whatever logins, removals, refreshes and
\* failovers do meanwhile, as long as no two requests are out with one seat, none
\* is pinned, and no 429 is retried in place.
THEOREM ShutSeatsAreLeftAlone ==
    PoolSpec /\ []Undisturbed /\ [][RefusedMovesOn]_poolVars => RoutedAroundUntilReset
<1> DEFINE LeftAlone ==
      \A r \in Requests \ PinnedRequests, s \in Seats : RoutedTo(r, s) => shutUntil[s] <= now
<1>1. PoolSpec => []TypeOK
  BY PoolTypeCorrect
<1>2. Init => ShutInv
  BY DEF Init, ShutInv
<1>3. TypeOK /\ ShutInv /\ Undisturbed /\ Undisturbed' /\ [RefusedMovesOn]_poolVars /\ [Next]_poolVars
        => ShutInv'
  <2>1. CASE UNCHANGED poolVars
    BY <2>1 DEF ShutInv, poolVars
  <2> QED
    BY <2>1, ShutInvStep
<1>4. TypeOK /\ ShutInv /\ [Next]_poolVars => [LeftAlone]_poolVars
  <2> SUFFICES ASSUME TypeOK, ShutInv, [Next]_poolVars, NEW r \in Requests \ PinnedRequests,
                      NEW s \in Seats, RoutedTo(r, s)
               PROVE  shutUntil[s] <= now
    OBVIOUS
  <2>1. shutUntil[s] \in Nat /\ now \in Nat
    BY TimesAssumption DEF TypeOK, Instants
  <2>2. RequestStep(r) /\ req'[r].seat = s /\ req[r].seat # s /\ s # NoSeat
    BY EveryStepIsARequestStep, SeatsAssumption DEF RoutedTo
  <2>3. s \in Picks(r) \/ s \in Peers(r)
    BY <2>2 DEF RequestStep
  <2>4. ~(shutUntil[s] > now)
    BY <2>3, ShutSeatIsNotPicked
  <2> QED
    BY <2>1, <2>4
<1> QED
  BY <1>1, <1>2, <1>3, <1>4, PTL DEF PoolSpec, RoutedAroundUntilReset

-----------------------------------------------------------------------------
(* The auth streak.                                                        *)

\* A streak grows by one at a time, and one that has begun only once the
\* cool-down of its last failure is over (markAuthFailure): of a burst of
\* requests refused together just one counts.
StreakGrowsOncePerCooldown ==
    [][ \A s \in Seats :
          seat'[s].fails > seat[s].fails =>
              /\ seat'[s].fails = seat[s].fails + 1 /\ seat'[s].lastFail = now
              /\ seat[s].fails > 0 => seat[s].lastFail + AuthCooldown(seat[s].fails) <= now ]_poolVars

LEMMA FailureStep ==
    ASSUME TypeOK, NEW x \in Seats, NEW st \in SeatStates,
           st.fails = seat[x].fails, st.lastFail = seat[x].lastFail,
           seat' = Judged(x, WithAuthFailure(st)),
           NEW s \in Seats, seat'[s].fails > seat[s].fails
    PROVE  /\ seat'[s].fails = seat[s].fails + 1 /\ seat'[s].lastFail = now
           /\ seat[s].fails > 0 => seat[s].lastFail + AuthCooldown(seat[s].fails) <= now
<1>1. seat[s].fails \in Nat /\ seat[s].lastFail \in Nat /\ now \in Nat
  BY TimesAssumption DEF TypeOK, SeatStates, Instants
<1>2. AuthCooldown(seat[s].fails) \in Int
  BY <1>1, AuthCooldownIsAnInstant
<1>3. WithAuthFailure(st).fails = NextStreak(st) /\ WithAuthFailure(st).lastFail = now
  BY DEF WithAuthFailure, SeatStates
<1>4. s = x /\ seat'[s] = WithAuthFailure(st)
  BY <1>1, JudgedOnly
<1>5. NextStreak(st) # st.fails
  BY <1>1, <1>3, <1>4
<1>6. ~IsInAuthCooldown(st, now) /\ NextStreak(st) = st.fails + 1
  BY <1>5 DEF NextStreak
<1> QED
  BY <1>1, <1>2, <1>3, <1>4, <1>6 DEF IsInAuthCooldown

\* Only a 401 or a 403 lengthens a streak.
LEMMA OnlyAuthFailuresCount ==
    ASSUME TypeOK, [Next]_poolVars, NEW s \in Seats, seat'[s].fails > seat[s].fails
    PROVE  \E r \in Requests : Answer401(r) \/ FailoverAfter403(r)
<1>1. \A x \in Seats : seat[x].fails \in Nat /\ seat[x] \in SeatStates
  BY DEF TypeOK, SeatStates
<1>2. ASSUME NEW x \in Seats, NEW st, seat' = Judged(x, st), st.fails \in {0, seat[x].fails}
      PROVE  FALSE
  BY <1>1, <1>2, JudgedOnly
<1>3. ASSUME UNCHANGED seat PROVE FALSE
  BY <1>1, <1>3
<1>4. ASSUME NEW r \in Requests,
             Select(r) \/ SelectPinned(r) \/ Send(r) \/ Abort(r) \/ RetryInPlace(r)
               \/ FailoverAfter429(r) \/ Forward4xx(r)
      PROVE  FALSE
  BY <1>3, <1>4 DEF Select, SelectPinned, Send, Abort, RetryInPlace, FailoverAfter429, Forward4xx
<1>5. ASSUME NEW r \in Requests,
             AnswerOk(r) \/ AnswerError(r) \/ AnswerPeeked(r) \/ Answer429(r)
      PROVE  FALSE
  <2> DEFINE x == req[r].seat
  <2>1. x \in Seats
    BY <1>5, InHandHasASeat DEF AnswerOk, AnswerError, AnswerPeeked, Answer429, Resting
  <2>2. \A rl : /\ WithReading(x, rl).fails = seat[x].fails
                /\ WithoutAuthFailure(WithReading(x, rl)).fails = 0
    BY <1>1, <2>1 DEF WithReading, WithoutAuthFailure, SeatStates
  <2>3. \/ \E rl : seat' = Judged(x, WithReading(x, rl))
        \/ \E rl : seat' = Judged(x, WithoutAuthFailure(WithReading(x, rl)))
    BY <1>5 DEF AnswerOk, AnswerError, AnswerPeeked, Answer429
  <2> HIDE DEF x
  <2> QED
    BY <1>2, <2>1, <2>2, <2>3
<1>6. ASSUME NEW x \in Seats, Grant(x) \/ Remove(x) PROVE FALSE
  <2>1. \A g, e : FreshSeat(g, e).fails = 0
    BY DEF FreshSeat
  <2>2. seat'[s].fails \in {0, seat[s].fails}
    BY <1>6, <2>1 DEF Grant, Remove, Regranted, TypeOK
  <2> QED
    BY <1>1, <2>2
<1>7. ASSUME NEW x \in Seats, RefreshTokens(x) PROVE FALSE
  <2>1. seat'[s].fails = seat[s].fails
    BY <1>1, <1>7 DEF RefreshTokens, TypeOK, SeatStates
  <2> QED
    BY <1>1, <2>1
<1>8. CASE Tick \/ UNCHANGED poolVars
  BY <1>3, <1>8 DEF Tick, poolVars
<1> QED
  BY <1>4, <1>5, <1>6, <1>7, <1>8 DEF Next, Answered, BodyRead

\* However many requests of a seat are refused together, its streak, and with it
\* the cool-down that doubles with the streak, grows once (markAuthFailure).
THEOREM BurstCountsOnce == PoolSpec => StreakGrowsOncePerCooldown
<1> DEFINE Once ==
      \A s \in Seats :
          seat'[s].fails > seat[s].fails =>
              /\ seat'[s].fails = seat[s].fails + 1 /\ seat'[s].lastFail = now
              /\ seat[s].fails > 0 => seat[s].lastFail + AuthCooldown(seat[s].fails) <= now
<1>1. PoolSpec => []TypeOK
  BY PoolTypeCorrect
<1>2. TypeOK /\ [Next]_poolVars => [Once]_poolVars
  <2> SUFFICES ASSUME TypeOK, [Next]_poolVars, NEW s \in Seats, seat'[s].fails > seat[s].fails
               PROVE  /\ seat'[s].fails = seat[s].fails + 1 /\ seat'[s].lastFail = now
                      /\ seat[s].fails > 0 =>
                            seat[s].lastFail + AuthCooldown(seat[s].fails) <= now
    OBVIOUS
  <2>1. PICK r \in Requests : Answer401(r) \/ FailoverAfter403(r)
    BY OnlyAuthFailuresCount
  <2> DEFINE x == req[r].seat
             read == WithReading(x, Updated(seat[x].rl, EmptyReading))
  <2>2. x \in Seats
    BY <2>1, InHandHasASeat DEF Answer401, FailoverAfter403, Resting
  <2>3. seat[x] \in SeatStates /\ read \in SeatStates
    BY <2>2, ReadOffIsTyped DEF TypeOK
  <2>4. read.fails = seat[x].fails /\ read.lastFail = seat[x].lastFail
    BY <2>3 DEF WithReading, SeatStates
  <2>5. seat' = Judged(x, WithAuthFailure(read)) \/ seat' = Judged(x, WithAuthFailure(seat[x]))
    BY <2>1 DEF Answer401, FailoverAfter403, AuthFailureOf
  <2> HIDE DEF x, read
  <2> QED
    BY <2>2, <2>3, <2>4, <2>5, FailureStep
<1> QED
  BY <1>1, <1>2, PTL DEF PoolSpec, StreakGrowsOncePerCooldown
=============================================================================
