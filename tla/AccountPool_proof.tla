-------------------------- MODULE AccountPool_proof --------------------------
(***************************************************************************)
(* What holds of the account pool for every set of seats, requests, header *)
(* readings and timings: its types, the agreement of the two filters the   *)
(* router uses, and that nothing a reading says keeps a seat off for good. *)
(***************************************************************************)
EXTENDS AccountPool, TLAPS

-----------------------------------------------------------------------------
(* The predicates over one reading.                                        *)

\* A seat that may be picked outright is one the fallbacks may ask: every
\* condition of isProbeable is implied by one of isAccountEligible.
LEMMA EligibleSeatIsProbeable ==
    ASSUME NEW st, st.rl \in Readings, NEW f, NEW t \in Nat,
           IsAccountEligible(st, f, t)
    PROVE  IsProbeable(st, f, t)
<1>1. ~IsInAuthCooldown(st, t)
  BY DEF IsAccountEligible
<1>2. /\ st.rl.reset \in Nat /\ st.rl.cooldownUntil \in Nat
      /\ st.rl.rejected \in BOOLEAN /\ st.rl.exhausted \in BOOLEAN /\ st.rl.parked \in BOOLEAN
  BY DEF Readings, Instants
<1>3. ~FamilyParkedOnBuckets(st.rl, f, t) /\ ~(Rejected(st.rl, t) /\ ~IsBucketScopedRejection(st.rl))
  BY DEF IsAccountEligible, RateLimited
<1>4. ~IsParkedInLiveWindow(st.rl, f, t)
  BY <1>2, <1>3 DEF IsParkedInLiveWindow, Rejected, RateLimitWindowPassed, StatedResetPassed
<1>5. ~IsCoolingAfterRejection(st.rl, t)
  BY <1>2, <1>3 DEF IsCoolingAfterRejection, Rejected, RateLimitWindowPassed, IsBucketScopedRejection
<1> QED
  BY <1>1, <1>4, <1>5 DEF IsProbeable

\* Every reason to leave a seat alone names an instant at which it ends
\* (isParkedInLiveWindow, isCoolingAfterRejection, isInAuthCooldown): past the
\* reset, the cool-down, the bucket's park and the auth cool-down that the seat
\* states, it may be asked again, for every family and with no traffic between.
THEOREM EveryParkEnds ==
    ASSUME NEW st, st.rl \in Readings, NEW f, NEW t \in Nat,
           st.rl.reset <= t, st.rl.cooldownUntil <= t, st.rl.parkedUntil <= t,
           ~(t < st.lastFail + AuthCooldown(st.fails))
    PROVE  IsProbeable(st, f, t)
<1>1. /\ st.rl.reset \in Nat /\ st.rl.cooldownUntil \in Nat /\ st.rl.parkedUntil \in Nat
  BY DEF Readings, Instants
<1>2. ~ActivePark(st.rl, t)
  BY <1>1 DEF ActivePark
<1>3. ~IsParkedInLiveWindow(st.rl, f, t)
  BY <1>1, <1>2 DEF IsParkedInLiveWindow, FamilyParkedOnBuckets
<1>4. ~IsCoolingAfterRejection(st.rl, t)
  BY <1>1 DEF IsCoolingAfterRejection
<1>5. ~IsInAuthCooldown(st, t)
  BY DEF IsInAuthCooldown
<1> QED
  BY <1>3, <1>4, <1>5 DEF IsProbeable

-----------------------------------------------------------------------------
(* The readings answers produce are readings.                              *)

LEMMA EmptyIsAReading == EmptyReading \in Readings
  BY DEF EmptyReading, Readings, Instants

LEMMA FreshIsASeat ==
    ASSUME NEW g \in 1..MaxGrant, NEW e \in Nat
    PROVE  FreshSeat(g, e) \in SeatStates
  BY EmptyIsAReading DEF FreshSeat, SeatStates, Instants

LEMMA UpdatedIsAReading ==
    ASSUME NEW rl \in Readings, NEW snap \in Readings
    PROVE  Updated(rl, snap) \in Readings
  BY DEF Updated, WithParkedBuckets, WithBoundBuckets, Readings, Instants

LEMMA SnapshotIsAReading ==
    ASSUME NEW wire \in WireReadings, NEW r \in Requests, now \in Nat
    PROVE  /\ Snapshot(wire, FamilyOf[r]) \in Readings
           /\ Snapshot(wire, FamilyOf[r]).reset \in Nat
<1> DEFINE learned == IF wire.binds /\ wire.bucket # "unread" /\ FamilyOf[r] # NoFamily
                      THEN {FamilyOf[r]} ELSE {}
           reset   == IF wire.resetIn = 0 THEN 0 ELSE now + wire.resetIn
<1>1. /\ wire.util \in {"room", "low", "full"} /\ wire.bucket \in {"unread", "room", "full"}
      /\ wire.resetIn \in Nat
  BY WireAssumption
<1>2. learned \in SUBSET Families
  BY RequestsAssumption
<1>3. reset \in Nat
  BY <1>1
<1>4. Snapshot(wire, FamilyOf[r]) =
        [EmptyReading EXCEPT !.util = wire.util, !.bucket = wire.bucket,
                             !.reset = reset, !.bound = learned]
  BY DEF Snapshot
<1> HIDE DEF learned, reset
<1>5. ASSUME NEW rl \in Readings
      PROVE  /\ [rl EXCEPT !.util = wire.util, !.bucket = wire.bucket,
                           !.reset = reset, !.bound = learned] \in Readings
             /\ [rl EXCEPT !.util = wire.util, !.bucket = wire.bucket,
                           !.reset = reset, !.bound = learned].reset = reset
  BY <1>1, <1>2, <1>3 DEF Readings, Instants
<1> QED
  BY <1>3, <1>4, <1>5, EmptyIsAReading

LEMMA RejectedIsAReading ==
    ASSUME NEW rl \in Readings, NEW snap \in Readings, NEW ra \in RetryAfters, now \in Nat
    PROVE  RejectedReading(rl, snap, ra) \in Readings
<1>1. WithBoundBuckets(rl, snap) \in Readings
  BY DEF WithBoundBuckets, Readings
<1>2. WithParkedBuckets(rl, WithBoundBuckets(rl, snap), now) \in Readings
  BY <1>1 DEF WithParkedBuckets, Readings, Instants
<1>3. now + ra \in Nat /\ now + Cooldown \in Nat /\ snap.reset \in Nat
  BY TimesAssumption DEF Readings, Instants
<1> QED
  BY <1>1, <1>2, <1>3 DEF RejectedReading, Readings, Instants

-----------------------------------------------------------------------------
(* Type correctness.                                                       *)

\* The parts of a step that two kinds of actions share.
LEMMA JudgedIsTyped ==
    ASSUME TypeOK, NEW s \in Seats, NEW st \in SeatStates
    PROVE  Judged(s, st) \in [Seats -> SeatStates]
  BY DEF TypeOK, Judged

LEMMA WithReadingIsASeat ==
    ASSUME TypeOK, NEW s \in Seats, NEW rl \in Readings
    PROVE  /\ WithReading(s, rl) \in SeatStates
           /\ WithoutAuthFailure(WithReading(s, rl)) \in SeatStates
  BY DEF TypeOK, WithReading, WithoutAuthFailure, SeatStates, Instants

LEMMA WithAuthFailureIsASeat ==
    ASSUME TypeOK, NEW st \in SeatStates
    PROVE  WithAuthFailure(st) \in SeatStates
<1>1. now \in Nat /\ st.fails \in Nat
  BY TimesAssumption DEF TypeOK, SeatStates
<1>2. NextStreak(st) \in Nat
  BY <1>1 DEF NextStreak
<1> QED
  BY <1>1, <1>2 DEF WithAuthFailure, SeatStates, Instants

LEMMA AtRestIsTyped ==
    ASSUME NEW outcome \in Resting
    PROVE  AtRest(outcome) \in RequestStates
  BY TimesAssumption DEF AtRest, RequestStates, RequestsAtRest

\* A request whose record is typed may replace the one it had.
LEMMA ReqStaysTyped ==
    ASSUME TypeOK, NEW r \in Requests, NEW q \in RequestStates, req' = [req EXCEPT ![r] = q]
    PROVE  req' \in [Requests -> RequestStates]
  BY DEF TypeOK

LEMMA InHandHasASeat ==
    ASSUME TypeOK, NEW r \in Requests, req[r].pc \notin Resting
    PROVE  req[r] \in RequestsInHand /\ req[r].seat \in Seats
  BY DEF TypeOK, RequestStates, RequestsAtRest, RequestsInHand

LEMMA CandidatesAreSeats ==
    ASSUME NEW among \in SUBSET Seats, NEW f, NEW t
    PROVE  Candidates(among, f, t) \subseteq among
  BY DEF Candidates

LEMMA FailoverIsTyped ==
    ASSUME TypeOK, NEW r \in Requests, req[r].pc \notin Resting, Failover(r)
    PROVE  req' \in [Requests -> RequestStates]
<1>1. CASE Peers(r) = {} /\ req' = [req EXCEPT ![r] = AtRest("failed")]
  BY <1>1, AtRestIsTyped DEF TypeOK, Resting
<1>2. ASSUME NEW s \in Peers(r),
             req' = [req EXCEPT ![r].pc = "flying", ![r].seat = s,
                               ![r].grant = seat[s].grant, ![r].tried = @ \cup {s}]
      PROVE  req' \in [Requests -> RequestStates]
  <2>1. s \in Seats
    BY CandidatesAreSeats DEF Peers, TypeOK
  <2>2. seat[s].grant \in 0..MaxGrant
    BY <2>1, TimesAssumption DEF TypeOK, SeatStates
  <2>3. req[r] \in RequestsInHand
    BY InHandHasASeat
  <2>4. [req[r] EXCEPT !.pc = "flying", !.seat = s, !.grant = seat[s].grant,
                       !.tried = @ \cup {s}] \in RequestsInHand
    BY <2>1, <2>2, <2>3 DEF RequestsInHand
  <2>5. req' = [req EXCEPT ![r] = [req[r] EXCEPT !.pc = "flying", !.seat = s,
                               !.grant = seat[s].grant, !.tried = @ \cup {s}]]
    BY <1>2 DEF TypeOK
  <2> QED
    BY <2>4, <2>5, ReqStaysTyped DEF RequestStates
<1> QED
  BY <1>1, <1>2 DEF Failover

LEMMA SelectTyped ==
    ASSUME TypeOK, NEW r \in Requests, Select(r) \/ SelectPinned(r)
    PROVE  TypeOK'
<1>1. ASSUME NEW s \in Seats PROVE Carrying(r, s) \in RequestStates
  <2>1. seat[s].grant \in 0..MaxGrant
    BY TimesAssumption DEF TypeOK, SeatStates
  <2>2. AtRest("paced") \in [ pc : {"paced"}, seat : {NoSeat}, grant : 0..MaxGrant,
                              tried : SUBSET Seats, passes : 0..RecoveryPasses ]
    BY TimesAssumption DEF AtRest
  <2>3. [AtRest("paced") EXCEPT !.seat = s, !.grant = seat[s].grant] \in RequestsInHand
    BY <2>1, <2>2 DEF RequestsInHand
  <2> QED
    BY <2>3 DEF Carrying, RequestStates
<1>2. \A s \in Candidates(inPool, FamilyOf[r], now) \cup Preferable(FamilyOf[r]) : s \in Seats
  BY CandidatesAreSeats DEF Preferable, TypeOK
<1>3. AtRest("parked") \in RequestStates /\ AtRest("unavailable") \in RequestStates
  BY AtRestIsTyped DEF Resting
<1>4. req' \in [Requests -> RequestStates]
  <2>1. CASE Select(r)
    BY <2>1, <1>1, <1>2, <1>3 DEF Select, TypeOK
  <2>2. CASE SelectPinned(r)
    BY <2>2, <1>1 DEF SelectPinned, TypeOK
  <2> QED
    BY <2>1, <2>2
<1> QED
  BY <1>4 DEF Select, SelectPinned, TypeOK

LEMMA SendTyped ==
    ASSUME TypeOK, NEW r \in Requests, Send(r)
    PROVE  TypeOK'
<1> DEFINE t == {req[r].seat} \cup IF r \in PinnedRequests THEN inPool ELSE {}
<1>1. req[r] \in RequestsInHand /\ req[r].seat \in Seats
  BY InHandHasASeat DEF Send, Resting
<1>2. t \in SUBSET Seats
  BY <1>1 DEF TypeOK
<1>3. req' = [req EXCEPT ![r] = [req[r] EXCEPT !.pc = "flying", !.tried = t]]
  BY DEF Send, TypeOK
<1> HIDE DEF t
<1>4. [req[r] EXCEPT !.pc = "flying", !.tried = t] \in RequestStates
  BY <1>1, <1>2 DEF RequestStates, RequestsInHand
<1>5. req' \in [Requests -> RequestStates]
  BY <1>3, <1>4, ReqStaysTyped
<1> QED
  BY <1>5 DEF Send, TypeOK

\* The request part of the steps that end or park a request on its body.
LEMMA EndedIsTyped ==
    ASSUME TypeOK, NEW r \in Requests, NEW o \in Resting, req' = [req EXCEPT ![r] = AtRest(o)]
    PROVE  req' \in [Requests -> RequestStates]
  BY AtRestIsTyped, ReqStaysTyped

LEMMA MovedIsTyped ==
    ASSUME TypeOK, NEW r \in Requests, NEW p \in Reading \cup {"flying"},
           req[r].pc \notin Resting, req' = [req EXCEPT ![r].pc = p]
    PROVE  req' \in [Requests -> RequestStates]
<1>1. req[r] \in RequestsInHand
  BY InHandHasASeat
<1>2. [req[r] EXCEPT !.pc = p] \in RequestStates
  BY <1>1 DEF RequestStates, RequestsInHand
<1>3. req' = [req EXCEPT ![r] = [req[r] EXCEPT !.pc = p]]
  BY DEF TypeOK
<1> QED
  BY <1>2, <1>3, ReqStaysTyped

LEMMA ReadOffIsTyped ==
    ASSUME TypeOK, NEW s \in Seats
    PROVE  WithReading(s, Updated(seat[s].rl, EmptyReading)) \in SeatStates
  BY EmptyIsAReading, UpdatedIsAReading, WithReadingIsASeat DEF TypeOK, SeatStates

LEMMA AnsweredTyped ==
    ASSUME TypeOK, NEW r \in Requests,
           AnswerOk(r) \/ AnswerError(r) \/ AnswerPeeked(r) \/ Answer429(r) \/ Abort(r)
    PROVE  TypeOK'
<1> DEFINE s == req[r].seat
<1>1. req[r].pc = "flying" /\ req[r].pc \notin Resting
  BY DEF AnswerOk, AnswerError, AnswerPeeked, Answer429, Abort, Resting
<1>2. s \in Seats /\ seat[s].rl \in Readings
  BY <1>1, InHandHasASeat DEF TypeOK, SeatStates
<1>3. now \in Nat
  BY TimesAssumption DEF TypeOK
<1> HIDE DEF s
<1>4. CASE AnswerOk(r)
  <2>1. PICK wire \in WireReadings :
          seat' = Judged(s, WithoutAuthFailure(
                      WithReading(s, Updated(seat[s].rl, Snapshot(wire, FamilyOf[r])))))
    BY <1>4 DEF AnswerOk, s
  <2>2. seat' \in [Seats -> SeatStates]
    BY <1>2, <1>3, <2>1, SnapshotIsAReading, UpdatedIsAReading, WithReadingIsASeat, JudgedIsTyped
  <2>3. req' \in [Requests -> RequestStates]
    BY <1>4, EndedIsTyped DEF AnswerOk, Resting
  <2>4. firstFail' \in [Seats -> Instants] /\ shutUntil' \in [Seats -> Instants]
    BY <1>4, <1>2 DEF AnswerOk, TypeOK, Instants
  <2> QED
    BY <1>4, <2>2, <2>3, <2>4 DEF AnswerOk, TypeOK
<1>5. CASE AnswerError(r)
  <2>1. seat' \in [Seats -> SeatStates]
    BY <1>5, <1>2, ReadOffIsTyped, JudgedIsTyped DEF AnswerError, s
  <2>2. req' \in [Requests -> RequestStates]
    BY <1>5, EndedIsTyped DEF AnswerError, Resting
  <2> QED
    BY <1>5, <2>1, <2>2 DEF AnswerError, TypeOK
<1>6. CASE AnswerPeeked(r)
  <2>1. seat' \in [Seats -> SeatStates]
    BY <1>6, <1>2, ReadOffIsTyped, JudgedIsTyped DEF AnswerPeeked, s
  <2>2. req' \in [Requests -> RequestStates]
    BY <1>6, <1>1, MovedIsTyped DEF AnswerPeeked, Reading
  <2> QED
    BY <1>6, <2>1, <2>2 DEF AnswerPeeked, TypeOK
<1>7. CASE Answer429(r)
  <2>1. PICK wire \in WireReadings, ra \in RetryAfters :
          /\ seat' = Judged(s, WithReading(s,
                         RejectedReading(seat[s].rl, Snapshot(wire, FamilyOf[r]), ra)))
          /\ shutUntil' = [shutUntil EXCEPT ![s] =
                 IF /\ s \in inPool /\ req[r].grant = seat[s].grant
                    /\ wire.util = "full" /\ Snapshot(wire, FamilyOf[r]).reset > @
                 THEN Snapshot(wire, FamilyOf[r]).reset ELSE @]
    BY <1>7 DEF Answer429, s
  <2>2. seat' \in [Seats -> SeatStates]
    BY <1>2, <1>3, <2>1, SnapshotIsAReading, RejectedIsAReading, WithReadingIsASeat, JudgedIsTyped
  <2>3. req' \in [Requests -> RequestStates]
    BY <1>7, <1>1, MovedIsTyped DEF Answer429, Reading
  <2>4. Snapshot(wire, FamilyOf[r]).reset \in Nat
    BY <1>3, SnapshotIsAReading
  <2>5. shutUntil' \in [Seats -> Instants]
    BY <1>2, <2>1, <2>4 DEF TypeOK, Instants
  <2> QED
    BY <1>7, <2>2, <2>3, <2>5 DEF Answer429, TypeOK
<1>8. CASE Abort(r)
  <2>1. req' \in [Requests -> RequestStates]
    BY <1>8, EndedIsTyped DEF Abort, Resting
  <2> QED
    BY <1>8, <2>1 DEF Abort, TypeOK
<1> QED
  BY <1>4, <1>5, <1>6, <1>7, <1>8

LEMMA AuthFailureTyped ==
    ASSUME TypeOK, NEW s \in Seats, NEW st \in SeatStates, AuthFailureOf(s, st)
    PROVE  seat' \in [Seats -> SeatStates] /\ firstFail' \in [Seats -> Instants]
<1>1. now \in Nat
  BY TimesAssumption DEF TypeOK
<1>2. seat' \in [Seats -> SeatStates]
  BY JudgedIsTyped, WithAuthFailureIsASeat DEF AuthFailureOf
<1>3. firstFail' \in [Seats -> Instants]
  BY <1>1 DEF AuthFailureOf, TypeOK, Instants
<1> QED
  BY <1>2, <1>3

LEMMA FailedOverTyped ==
    ASSUME TypeOK, NEW r \in Requests,
           \/ FailoverAfter429(r) \/ Answer401(r) \/ FailoverAfter403(r)
           \/ RetryInPlace(r) \/ Forward4xx(r)
    PROVE  TypeOK'
<1>1. req[r].pc \notin Resting
  BY DEF FailoverAfter429, Answer401, FailoverAfter403, RetryInPlace, Forward4xx, Resting, Reading
<1>2. req[r] \in RequestsInHand /\ req[r].seat \in Seats
  BY <1>1, InHandHasASeat
<1>3. CASE FailoverAfter429(r)
  <2>1. req' \in [Requests -> RequestStates]
    BY <1>3, <1>1, FailoverIsTyped DEF FailoverAfter429
  <2> QED
    BY <1>3, <2>1 DEF FailoverAfter429, TypeOK
<1>4. CASE Answer401(r)
  <2>1. req' \in [Requests -> RequestStates]
    BY <1>4, <1>1, FailoverIsTyped DEF Answer401
  <2>2. seat' \in [Seats -> SeatStates] /\ firstFail' \in [Seats -> Instants]
    BY <1>4, <1>2, ReadOffIsTyped, AuthFailureTyped DEF Answer401
  <2> QED
    BY <1>4, <2>1, <2>2 DEF Answer401, TypeOK
<1>5. CASE FailoverAfter403(r)
  <2>1. req' \in [Requests -> RequestStates]
    BY <1>5, <1>1, FailoverIsTyped DEF FailoverAfter403
  <2>2. seat' \in [Seats -> SeatStates] /\ firstFail' \in [Seats -> Instants]
    BY <1>5, <1>2, AuthFailureTyped DEF FailoverAfter403, TypeOK
  <2> QED
    BY <1>5, <2>1, <2>2 DEF FailoverAfter403, TypeOK
<1>6. CASE RetryInPlace(r)
  <2>1. req' = [req EXCEPT ![r] = [req[r] EXCEPT !.pc = "flying", !.passes = req[r].passes + 1]]
    BY <1>6 DEF RetryInPlace, TypeOK
  <2>2. req[r].passes + 1 \in 0..RecoveryPasses
    BY <1>6, <1>2, TimesAssumption DEF RetryInPlace, RequestsInHand
  <2>3. [req[r] EXCEPT !.pc = "flying", !.passes = req[r].passes + 1] \in RequestStates
    BY <1>2, <2>2 DEF RequestStates, RequestsInHand
  <2>4. req' \in [Requests -> RequestStates]
    BY <2>1, <2>3, ReqStaysTyped
  <2> QED
    BY <1>6, <2>4 DEF RetryInPlace, TypeOK
<1>7. CASE Forward4xx(r)
  <2>1. req' \in [Requests -> RequestStates]
    BY <1>7, EndedIsTyped DEF Forward4xx, Resting
  <2> QED
    BY <1>7, <2>1 DEF Forward4xx, TypeOK
<1> QED
  BY <1>3, <1>4, <1>5, <1>6, <1>7

LEMMA OperatorTyped ==
    ASSUME TypeOK, NEW s \in Seats, Grant(s) \/ Remove(s) \/ RefreshTokens(s)
    PROVE  TypeOK'
<1>1. now \in Nat /\ now + TokenLife \in Nat /\ seat[s] \in SeatStates /\ seat[s].grant \in 1..MaxGrant
  BY TimesAssumption DEF TypeOK, SeatStates
<1>2. CASE Grant(s)
  <2>1. seat[s].grant + 1 \in 1..MaxGrant
    BY <1>1, <1>2, TimesAssumption DEF Grant
  <2>2. Regranted(seat[s], seat[s].grant + 1) \in SeatStates
    BY <1>1, <2>1, FreshIsASeat DEF Regranted
  <2> QED
    BY <1>2, <2>2 DEF Grant, TypeOK, Instants
<1>3. CASE Remove(s)
  <2>1. FreshSeat(seat[s].grant, 0) \in SeatStates
    BY <1>1, FreshIsASeat
  <2> QED
    BY <1>3, <2>1 DEF Remove, TypeOK, Instants
<1>4. CASE RefreshTokens(s)
  <2>1. [seat[s] EXCEPT !.expiresAt = now + TokenLife] \in SeatStates
    BY <1>1 DEF SeatStates, Instants
  <2>2. seat' = [seat EXCEPT ![s] = [seat[s] EXCEPT !.expiresAt = now + TokenLife]]
    BY <1>4 DEF RefreshTokens, TypeOK
  <2> QED
    BY <1>4, <2>1, <2>2 DEF RefreshTokens, TypeOK
<1> QED
  BY <1>2, <1>3, <1>4

\* Every variable keeps its type: whatever headers arrive and however many
\* requests answer late, a seat's state is one the predicates are defined on, a
\* request in hand names a seat, and its retries stay within MAX_RECOVERY_PASSES.
THEOREM PoolTypeCorrect == PoolSpec => []TypeOK
<1>1. Init => TypeOK
  <2> SUFFICES ASSUME Init PROVE TypeOK
    OBVIOUS
  <2>1. FreshSeat(1, TokenLife) \in SeatStates
    BY TimesAssumption, FreshIsASeat
  <2>2. AtRest("new") \in RequestStates
    BY AtRestIsTyped DEF Resting
  <2> QED
    BY <2>1, <2>2, TimesAssumption DEF Init, TypeOK, Instants
<1>2. TypeOK /\ [Next]_poolVars => TypeOK'
  <2> SUFFICES ASSUME TypeOK, [Next]_poolVars PROVE TypeOK'
    OBVIOUS
  <2>1. CASE UNCHANGED poolVars
    BY <2>1 DEF poolVars, TypeOK
  <2>2. ASSUME NEW r \in Requests,
               Select(r) \/ SelectPinned(r) \/ Send(r) \/ Answered(r) \/ BodyRead(r)
        PROVE  TypeOK'
    BY <2>2, SelectTyped, SendTyped, AnsweredTyped, FailedOverTyped DEF Answered, BodyRead
  <2>3. ASSUME NEW s \in Seats, Grant(s) \/ Remove(s) \/ RefreshTokens(s)
        PROVE  TypeOK'
    BY <2>3, OperatorTyped
  <2>4. CASE Tick
    <3>1. now' \in 0..MaxTime
      BY <2>4, TimesAssumption DEF Tick, TypeOK
    <3> QED
      BY <2>4, <3>1 DEF Tick, TypeOK
  <2> QED
    BY <2>1, <2>2, <2>3, <2>4 DEF Next
<1> QED
  BY <1>1, <1>2, PTL DEF PoolSpec

\* In every reachable state a seat the router may pick outright is one its
\* fallback paths may ask (isAccountEligible, isProbeable).
THEOREM RouterFiltersAgree == PoolSpec => []EligibleIsProbeable
<1>1. PoolSpec => []TypeOK
  BY PoolTypeCorrect
<1>2. TypeOK => EligibleIsProbeable
  <2> SUFFICES ASSUME TypeOK, NEW s \in Seats, NEW f \in Families \cup {NoFamily},
                      IsAccountEligible(seat[s], f, now)
               PROVE  IsProbeable(seat[s], f, now)
    BY DEF EligibleIsProbeable
  <2>1. seat[s].rl \in Readings /\ now \in Nat
    BY TimesAssumption DEF TypeOK, SeatStates
  <2> QED
    BY <2>1, EligibleSeatIsProbeable
<1> QED
  BY <1>1, <1>2, PTL
=============================================================================
