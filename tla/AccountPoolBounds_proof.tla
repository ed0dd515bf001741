------------------------ MODULE AccountPoolBounds_proof ------------------------
(***************************************************************************)
(* How much a seat and a request of the account pool may cost, for every   *)
(* set of seats, requests, headers and timings: an auth streak of n has    *)
(* sat out the n - 1 cool-downs before it, and a request in hand takes a   *)
(* bounded number of steps, whatever logins, removals and other requests   *)
(* do meanwhile.                                                           *)
(*                                                                         *)
(* The first is a sum over the streak, a recursive function.  Its          *)
(* recurrence is proved here from induction over sets of naturals, which   *)
(* follows from a finite set having a least element.                       *)
(***************************************************************************)
EXTENDS AccountPoolRouting_proof

-----------------------------------------------------------------------------
(* Induction and recursion on the naturals.                                *)

LEMMA SetInduction ==
    ASSUME NEW S, 0 \in S, \A n \in Nat : n \in S => n + 1 \in S
    PROVE  Nat \subseteq S
<1> SUFFICES ASSUME NEW n \in Nat, n \notin S PROVE FALSE
  OBVIOUS
<1> DEFINE Missing == { k \in 0..n : k \notin S }
<1>1. Missing \subseteq 0..n /\ Missing \subseteq Int /\ n \in Missing
  OBVIOUS
<1>2. IsFiniteSet(Missing)
  <2>1. IsFiniteSet(0..n)
    BY FS_Interval
  <2> HIDE DEF Missing
  <2> QED
    BY <1>1, <2>1, FS_Subset
<1>3. PICK m \in Missing : \A k \in Missing : m <= k
  BY <1>1, <1>2, FiniteLeast
<1>4. m \in Nat /\ m <= n /\ m # 0 /\ m \notin S
  OBVIOUS
<1>5. m - 1 \in Nat /\ m - 1 \in 0..n /\ (m - 1) + 1 = m /\ ~(m <= m - 1)
  BY <1>4
<1>6. m - 1 \in S
  BY <1>3, <1>5
<1> QED
  BY <1>4, <1>5, <1>6

\* A first part of the running sums of A, up to n.
PartialSums(A, n) ==
    { g \in [0..n -> Int] : g[0] = 0 /\ \A k \in 1..n : g[k] = g[k - 1] + A[k] }

LEMMA PartialSumsAgree ==
    ASSUME NEW A, NEW m \in Nat, NEW n \in Nat, m <= n,
           NEW g \in PartialSums(A, m), NEW h \in PartialSums(A, n)
    PROVE  \A k \in 0..m : g[k] = h[k]
<1> DEFINE Same == { k \in Nat : k <= m => g[k] = h[k] }
<1>1. 0 \in Same
  BY DEF PartialSums
<1>2. ASSUME NEW k \in Nat, k \in Same PROVE k + 1 \in Same
  <2>1. SUFFICES ASSUME k + 1 <= m PROVE g[k + 1] = h[k + 1]
    OBVIOUS
  <2>2. k + 1 \in 1..m /\ k + 1 \in 1..n /\ (k + 1) - 1 = k /\ k <= m
    BY <2>1
  <2>3. g[k + 1] = g[k] + A[k + 1] /\ h[k + 1] = h[k] + A[k + 1]
    BY <2>2 DEF PartialSums
  <2> QED
    BY <1>2, <2>2, <2>3
<1> HIDE DEF Same
<1>3. Nat \subseteq Same
  BY <1>1, <1>2, SetInduction
<1> QED
  BY <1>3 DEF Same

LEMMA PartialSumsExist ==
    ASSUME NEW A \in [Nat -> Int], NEW n \in Nat
    PROVE  PartialSums(A, n) # {}
<1> DEFINE Summed == { k \in Nat : PartialSums(A, k) # {} }
<1>1. 0 \in Summed
  <2>1. [k \in 0..0 |-> 0] \in PartialSums(A, 0)
    BY DEF PartialSums
  <2> QED
    BY <2>1
<1>2. ASSUME NEW k \in Nat, k \in Summed PROVE k + 1 \in Summed
  <2>1. PICK g : g \in PartialSums(A, k)
    BY <1>2
  <2> DEFINE h == [j \in 0..(k + 1) |-> IF j = k + 1 THEN g[k] + A[k + 1] ELSE g[j]]
  <2>2. g \in [0..k -> Int] /\ g[0] = 0 /\ \A j \in 1..k : g[j] = g[j - 1] + A[j]
    BY <2>1 DEF PartialSums
  <2>3. h \in [0..(k + 1) -> Int]
    <3>1. ASSUME NEW j \in 0..(k + 1) PROVE h[j] \in Int
      <4>1. CASE j = k + 1
        <5>1. g[k] \in Int /\ A[k + 1] \in Int
          BY <2>2
        <5> QED
          BY <4>1, <5>1
      <4>2. CASE j # k + 1
        <5>1. j \in 0..k
          BY <4>2
        <5> QED
          BY <2>2, <4>2, <5>1
      <4> QED
        BY <4>1, <4>2
    <3> QED
      BY <3>1
  <2>4. h[0] = 0
    BY <2>2
  <2>5. ASSUME NEW j \in 1..(k + 1) PROVE h[j] = h[j - 1] + A[j]
    <3>1. j \in 0..(k + 1) /\ j - 1 \in 0..(k + 1) /\ j - 1 # k + 1
      OBVIOUS
    <3>2. h[j - 1] = g[j - 1]
      BY <3>1
    <3>3. CASE j = k + 1
      <4>1. h[j] = g[k] + A[k + 1] /\ j - 1 = k
        BY <3>1, <3>3
      <4> QED
        BY <3>2, <3>3, <4>1
    <3>4. CASE j # k + 1
      <4>1. j \in 1..k /\ h[j] = g[j]
        BY <3>1, <3>4
      <4> QED
        BY <2>2, <3>2, <4>1
    <3> QED
      BY <3>3, <3>4
  <2>6. h \in PartialSums(A, k + 1)
    BY <2>3, <2>4, <2>5 DEF PartialSums
  <2> QED
    BY <2>6
<1> HIDE DEF Summed
<1>3. Nat \subseteq Summed
  BY <1>1, <1>2, SetInduction
<1> QED
  BY <1>3 DEF Summed

LEMMA SumsExist ==
    ASSUME NEW A \in [Nat -> Int]
    PROVE  \E f : f = [n \in Nat |-> IF n = 0 THEN 0 ELSE f[n - 1] + A[n]] /\ f \in [Nat -> Int]
<1> DEFINE P == [n \in Nat |-> CHOOSE g : g \in PartialSums(A, n)]
           f == [n \in Nat |-> P[n][n]]
<1>1. \A n \in Nat : P[n] \in PartialSums(A, n)
  BY PartialSumsExist
<1> HIDE DEF P
<1>2. ASSUME NEW n \in Nat PROVE f[n] \in Int
  BY <1>1 DEF PartialSums
<1>3. f[0] = 0
  BY <1>1 DEF PartialSums
<1>4. ASSUME NEW n \in Nat, n # 0 PROVE f[n] = f[n - 1] + A[n]
  <2>1. n - 1 \in Nat /\ n - 1 <= n /\ n \in 1..n /\ n - 1 \in 0..(n - 1)
    BY <1>4
  <2>2. P[n][n] = P[n][n - 1] + A[n]
    BY <1>1, <2>1 DEF PartialSums
  <2>3. P[n - 1][n - 1] = P[n][n - 1]
    BY <1>1, <2>1, PartialSumsAgree
  <2> QED
    BY <2>1, <2>2, <2>3
<1>5. f = [n \in Nat |-> IF n = 0 THEN 0 ELSE f[n - 1] + A[n]]
  BY <1>3, <1>4
<1>6. f \in [Nat -> Int]
  BY <1>2
<1> HIDE DEF f
<1> QED
  BY <1>5, <1>6
-----------------------------------------------------------------------------
(* The auth streak.                                                        *)

\* Each further cool-down adds its length.
LEMMA CoolDownsAdd ==
    /\ CoolDowns[0] = 0
    /\ \A n \in Nat : CoolDowns[n] \in Int /\ CoolDowns[n + 1] = CoolDowns[n] + AuthCooldown(n + 1)
<1> DEFINE A == [n \in Nat |-> AuthCooldown(n)]
<1>1. A \in [Nat -> Int]
  BY AuthCooldownIsAnInstant
<1>2. \A n \in Nat : A[n] = AuthCooldown(n)
  OBVIOUS
<1> HIDE DEF A
<1>3. PICK f : f = [n \in Nat |-> IF n = 0 THEN 0 ELSE f[n - 1] + A[n]]
  BY <1>1, SumsExist
<1>4. f = [n \in Nat |-> IF n = 0 THEN 0 ELSE f[n - 1] + AuthCooldown(n)]
  BY <1>2, <1>3
<1>5. CoolDowns = [n \in Nat |-> IF n = 0 THEN 0 ELSE CoolDowns[n - 1] + AuthCooldown(n)]
  BY <1>4 DEF CoolDowns
<1>6. CoolDowns[0] = 0
  BY <1>5
<1>7. ASSUME NEW n \in Nat PROVE CoolDowns[n + 1] = CoolDowns[n] + AuthCooldown(n + 1)
  <2>1. n + 1 \in Nat /\ n + 1 # 0 /\ (n + 1) - 1 = n
    OBVIOUS
  <2> QED
    BY <1>5, <2>1
<1> DEFINE Typed == { n \in Nat : CoolDowns[n] \in Int }
<1>8. Nat \subseteq Typed
  <2>1. 0 \in Typed
    BY <1>6
  <2>2. ASSUME NEW n \in Nat, n \in Typed PROVE n + 1 \in Typed
    BY <1>7, <2>2, AuthCooldownIsAnInstant
  <2> HIDE DEF Typed
  <2> QED
    BY <2>1, <2>2, SetInduction
<1> QED
  BY <1>6, <1>7, <1>8

\* What a step may do to the streak of a seat that stays or comes: it ends, goes
\* on, or grows by one once the cool-down of its last failure is over.
StreakGoesOn(s) ==
    /\ seat'[s].fails = seat[s].fails /\ firstFail'[s] = firstFail[s]
    /\ seat'[s].lastFail \in {seat[s].lastFail, now} /\ now' \in {now, now + 1}
StreakGrows(s) ==
    /\ seat'[s].fails = seat[s].fails + 1 /\ seat'[s].lastFail = now /\ now' = now
    /\ firstFail'[s] = IF seat[s].fails = 0 THEN now ELSE firstFail[s]
    /\ seat[s].fails > 0 => seat[s].lastFail + AuthCooldown(seat[s].fails) <= now
StreakStep(s) ==
    \/ seat'[s].fails = 0
    \/ s \in inPool /\ (StreakGoesOn(s) \/ StreakGrows(s))

\* A 401 or a 403 on seat x, which leaves st but for the failure.
LEMMA FailureIsAStreakStep ==
    ASSUME TypeOK, NEW x \in Seats, NEW st \in SeatStates,
           st.fails = seat[x].fails, st.lastFail = seat[x].lastFail,
           AuthFailureOf(x, st), now' = now, NEW s \in inPool
    PROVE  StreakStep(s)
<1>1. /\ s \in Seats /\ seat[x].fails \in Nat /\ seat[s].fails \in Nat
      /\ firstFail \in [Seats -> Instants]
  BY DEF TypeOK, SeatStates
<1>2. /\ seat' = Judged(x, WithAuthFailure(st))
      /\ firstFail' = [firstFail EXCEPT ![x] = IF x \in inPool /\ st.fails = 0 THEN now ELSE @]
  BY DEF AuthFailureOf
<1>3. WithAuthFailure(st).fails = NextStreak(st) /\ WithAuthFailure(st).lastFail = now
  BY DEF WithAuthFailure, SeatStates
<1>4. CASE seat'[s].fails > seat[s].fails
  <2>1. /\ seat'[s].fails = seat[s].fails + 1 /\ seat'[s].lastFail = now
        /\ seat[s].fails > 0 => seat[s].lastFail + AuthCooldown(seat[s].fails) <= now
    BY <1>1, <1>2, <1>4, FailureStep
  <2>2. s = x
    BY <1>1, <1>2, <1>4, JudgedOnly
  <2>3. firstFail'[s] = IF seat[s].fails = 0 THEN now ELSE firstFail[s]
    BY <1>1, <1>2, <2>2
  <2> QED
    BY <2>1, <2>3 DEF StreakStep, StreakGrows
<1>5. CASE ~(seat'[s].fails > seat[s].fails)
  <2>1. seat'[s] = seat[s] \/ (s = x /\ seat'[s] = WithAuthFailure(st))
    BY <1>1, <1>2, JudgedOnly
  <2>2. s = x /\ seat'[s] = WithAuthFailure(st) =>
          seat'[s].fails = seat[s].fails /\ seat[s].fails > 0
    <3>1. NextStreak(st) = IF IsInAuthCooldown(st, now) THEN st.fails ELSE st.fails + 1
      BY DEF NextStreak
    <3> QED
      BY <1>1, <1>3, <1>5, <3>1 DEF IsInAuthCooldown
  <2>3. seat'[s].fails = seat[s].fails /\ seat'[s].lastFail \in {seat[s].lastFail, now}
    BY <1>3, <2>1, <2>2
  <2>4. s # x => firstFail'[s] = firstFail[s]
    BY <1>1, <1>2
  <2>5. seat[s].fails # 0 => firstFail'[s] = firstFail[s]
    BY <1>1, <1>2
  <2>6. CASE seat[s].fails = 0
    BY <2>3, <2>6 DEF StreakStep
  <2>7. CASE seat[s].fails # 0
    BY <2>3, <2>5, <2>7 DEF StreakStep, StreakGoesOn
  <2> QED
    BY <2>6, <2>7
<1> QED
  BY <1>4, <1>5

LEMMA EveryStepIsAStreakStep ==
    ASSUME TypeOK, [Next]_poolVars, NEW s \in inPool'
    PROVE  StreakStep(s)
<1>1. /\ \A x \in Seats : seat[x] \in SeatStates /\ seat[x].fails \in Nat
      /\ inPool \subseteq Seats /\ now \in Nat
      /\ seat \in [Seats -> SeatStates] /\ firstFail \in [Seats -> Instants]
  BY TimesAssumption DEF TypeOK, SeatStates
<1>2. ASSUME s \in inPool, seat'[s].fails = seat[s].fails, seat'[s].lastFail = seat[s].lastFail,
             firstFail' = firstFail, now' \in {now, now + 1}
      PROVE  StreakStep(s)
  BY <1>2 DEF StreakStep, StreakGoesOn
<1>3. CASE UNCHANGED << inPool, seat, firstFail >> /\ now' \in {now, now + 1}
  BY <1>2, <1>3
<1>4. ASSUME NEW r \in Requests, Select(r) \/ SelectPinned(r) \/ Send(r) \/ Abort(r)
               \/ RetryInPlace(r) \/ FailoverAfter429(r) \/ Forward4xx(r)
      PROVE  StreakStep(s)
  BY <1>3, <1>4 DEF Select, SelectPinned, Send, Abort, RetryInPlace, FailoverAfter429, Forward4xx
<1>5. ASSUME NEW r \in Requests, AnswerOk(r) \/ AnswerError(r) \/ AnswerPeeked(r) \/ Answer429(r)
      PROVE  StreakStep(s)
  <2> DEFINE x == req[r].seat
  <2>1. x \in Seats
    BY <1>5, InHandHasASeat DEF AnswerOk, AnswerError, AnswerPeeked, Answer429, Resting
  <2>2. \A rl : /\ WithReading(x, rl).fails = seat[x].fails
                /\ WithReading(x, rl).lastFail = seat[x].lastFail
                /\ WithoutAuthFailure(WithReading(x, rl)).fails = 0
    BY <1>1, <2>1 DEF WithReading, WithoutAuthFailure, SeatStates
  <2>3. inPool' = inPool /\ now' = now
    BY <1>5 DEF AnswerOk, AnswerError, AnswerPeeked, Answer429
  <2>4. CASE AnswerOk(r)
    <3>1. \E rl : seat' = Judged(x, WithoutAuthFailure(WithReading(x, rl)))
      BY <2>4 DEF AnswerOk
    <3>2. firstFail' = [firstFail EXCEPT ![x] = IF x \in inPool THEN 0 ELSE @]
      BY <2>4 DEF AnswerOk
    <3> HIDE DEF x
    <3>3. seat'[s] = seat[s] \/ seat'[s].fails = 0
      BY <1>1, <2>1, <2>2, <2>3, <3>1, JudgedOnly
    <3>4. CASE s = x
      <4>1. seat'[s].fails = 0
        BY <1>1, <2>1, <2>2, <2>3, <3>1, <3>4 DEF Judged
      <4> QED
        BY <4>1 DEF StreakStep
    <3>5. CASE s # x
      <4>1. firstFail'[s] = firstFail[s]
        BY <1>1, <2>1, <3>2, <3>5
      <4> QED
        BY <2>3, <3>3, <4>1 DEF StreakStep, StreakGoesOn
    <3> QED
      BY <3>4, <3>5
  <2>5. CASE AnswerError(r) \/ AnswerPeeked(r) \/ Answer429(r)
    <3>1. (\E rl : seat' = Judged(x, WithReading(x, rl))) /\ firstFail' = firstFail
      BY <2>5 DEF AnswerError, AnswerPeeked, Answer429
    <3> HIDE DEF x
    <3>2. seat'[s].fails = seat[s].fails /\ seat'[s].lastFail = seat[s].lastFail
      BY <1>1, <2>1, <2>2, <2>3, <3>1, JudgedOnly
    <3> QED
      BY <1>2, <2>3, <3>1, <3>2
  <2> QED
    BY <1>5, <2>4, <2>5
<1>6. ASSUME NEW r \in Requests, Answer401(r) \/ FailoverAfter403(r) PROVE StreakStep(s)
  <2> DEFINE x == req[r].seat
             read == WithReading(x, Updated(seat[x].rl, EmptyReading))
  <2>1. x \in Seats
    BY <1>6, InHandHasASeat DEF Answer401, FailoverAfter403, Resting
  <2>2. seat[x] \in SeatStates /\ read \in SeatStates
    BY <1>1, <2>1, ReadOffIsTyped
  <2>3. read.fails = seat[x].fails /\ read.lastFail = seat[x].lastFail
    BY <2>2 DEF WithReading, SeatStates
  <2>4. AuthFailureOf(x, read) \/ AuthFailureOf(x, seat[x])
    BY <1>6 DEF Answer401, FailoverAfter403
  <2>5. inPool' = inPool /\ now' = now
    BY <1>6 DEF Answer401, FailoverAfter403
  <2> HIDE DEF x, read
  <2> QED
    BY <2>1, <2>2, <2>3, <2>4, <2>5, FailureIsAStreakStep
<1>7. ASSUME NEW x \in Seats, Grant(x) \/ Remove(x) PROVE StreakStep(s)
  <2>1. \A g, e : FreshSeat(g, e).fails = 0
    BY DEF FreshSeat
  <2>2. CASE s = x
    <3>1. seat'[s].fails = 0
      BY <1>1, <1>7, <2>1, <2>2 DEF Grant, Remove, Regranted
    <3> QED
      BY <3>1 DEF StreakStep
  <2>3. CASE s # x
    <3>1. s \in inPool /\ seat'[s] = seat[s] /\ firstFail'[s] = firstFail[s] /\ now' = now
      BY <1>1, <1>7, <2>3 DEF Grant, Remove
    <3> QED
      BY <3>1 DEF StreakStep, StreakGoesOn
  <2> QED
    BY <2>2, <2>3
<1>8. ASSUME NEW x \in Seats, RefreshTokens(x) PROVE StreakStep(s)
  <2>1. /\ s \in inPool /\ firstFail' = firstFail /\ now' = now
        /\ seat' = [seat EXCEPT ![x].expiresAt = now + TokenLife]
    BY <1>8 DEF RefreshTokens
  <2>2. seat'[s].fails = seat[s].fails /\ seat'[s].lastFail = seat[s].lastFail
    BY <1>1, <2>1 DEF SeatStates
  <2> QED
    BY <1>2, <2>1, <2>2
<1>9. CASE Tick \/ UNCHANGED poolVars
  BY <1>3, <1>9 DEF Tick, poolVars
<1> QED
  BY <1>4, <1>5, <1>6, <1>7, <1>8, <1>9 DEF Next, Answered, BodyRead

\* However many requests a seat refuses, and together or one by one: a streak of
\* n, which decides how long the seat is left alone, has taken the n - 1
\* cool-downs before it (markAuthFailure).
THEOREM StreaksTakeTheirTime == PoolSpec => []StreakTakesTime
<1>1. PoolSpec => []TypeOK
  BY PoolTypeCorrect
<1>2. Init => StreakTakesTime
  BY DEF Init, StreakTakesTime, FreshSeat
<1>3. TypeOK /\ StreakTakesTime /\ [Next]_poolVars => StreakTakesTime'
  <2> SUFFICES ASSUME TypeOK, StreakTakesTime, [Next]_poolVars,
                      NEW s \in inPool', seat'[s].fails > 0
               PROVE  /\ firstFail'[s] + CoolDowns[seat'[s].fails - 1] <= seat'[s].lastFail
                      /\ seat'[s].lastFail <= now'
    BY DEF StreakTakesTime
  <2>1. s \in inPool /\ (StreakGoesOn(s) \/ StreakGrows(s))
    BY EveryStepIsAStreakStep DEF StreakStep
  <2>2. /\ seat[s].fails \in Nat /\ seat[s].lastFail \in Nat /\ firstFail[s] \in Nat
        /\ now \in Nat
    BY <2>1, TimesAssumption DEF TypeOK, SeatStates, Instants
  <2>3. seat[s].fails > 0 =>
          /\ firstFail[s] + CoolDowns[seat[s].fails - 1] <= seat[s].lastFail
          /\ seat[s].lastFail <= now
    BY <2>1 DEF StreakTakesTime
  <2>4. seat[s].fails > 0 => /\ seat[s].fails - 1 \in Nat
                            /\ CoolDowns[seat[s].fails - 1] \in Int
                            /\ AuthCooldown(seat[s].fails) \in Int
    BY <2>2, CoolDownsAdd, AuthCooldownIsAnInstant
  <2>5. CASE StreakGoesOn(s)
    BY <2>2, <2>3, <2>4, <2>5 DEF StreakGoesOn
  <2>6. CASE StreakGrows(s) /\ seat[s].fails = 0
    BY <2>2, <2>6, CoolDownsAdd DEF StreakGrows
  <2>7. CASE StreakGrows(s) /\ seat[s].fails > 0
    <3>1. CoolDowns[seat[s].fails] = CoolDowns[seat[s].fails - 1] + AuthCooldown(seat[s].fails)
      <4>1. seat[s].fails - 1 \in Nat /\ (seat[s].fails - 1) + 1 = seat[s].fails
        BY <2>2, <2>4, <2>7
      <4> QED
        BY <4>1, CoolDownsAdd
    <3>2. seat'[s].fails - 1 = seat[s].fails
      BY <2>2, <2>7 DEF StreakGrows
    <3> QED
      BY <2>2, <2>3, <2>4, <2>7, <3>1, <3>2 DEF StreakGrows
  <2> QED
    BY <2>1, <2>2, <2>5, <2>6, <2>7
<1> QED
  BY <1>1, <1>2, <1>3, PTL DEF PoolSpec

-----------------------------------------------------------------------------
(* What a request may cost.                                                *)

\* A request that waits for its pacing delay has tried no seat yet.
PacedInv == \A r \in Requests : req[r].pc = "paced" => req[r].tried = {}

LEMMA PacedStep ==
    ASSUME TypeOK, PacedInv, [Next]_poolVars
    PROVE  PacedInv'
<1> SUFFICES ASSUME NEW r \in Requests, req'[r].pc = "paced"
             PROVE  req'[r].tried = {}
  BY DEF PacedInv
<1>1. RequestStep(r)
  BY EveryStepIsARequestStep
<1> QED
  BY <1>1 DEF PacedInv, RequestStep, OnTheWire, Reading, Resting

\* A seat taken for the first time lowers the number of seats not tried.
LEMMA TryingOneLeavesFewer ==
    ASSUME NEW before \in SUBSET Seats, NEW after \in SUBSET Seats, before \subseteq after,
           NEW s \in after \ before
    PROVE  /\ Cardinality(Seats \ before) \in Nat /\ Cardinality(Seats \ after) \in Nat
           /\ Cardinality(Seats \ after) <= Cardinality(Seats \ before) - 1
<1>1. /\ IsFiniteSet(Seats \ before) /\ IsFiniteSet(Seats \ after)
      /\ IsFiniteSet((Seats \ before) \ {s})
  BY SeatsAssumption, FS_Subset
<1>2. Cardinality((Seats \ before) \ {s}) = Cardinality(Seats \ before) - 1
  BY <1>1, FS_RemoveElement
<1>3. Cardinality(Seats \ after) <= Cardinality((Seats \ before) \ {s})
  BY <1>1, FS_Subset
<1> QED
  BY <1>1, <1>2, <1>3, FS_CardinalityType

\* No request fails over or retries for ever, for every number of seats and
\* recovery passes: it takes at most 2 * (seats + passes) + 1 steps from its
\* selection to its end, since each takes away from what is left (triedAliases,
\* MAX_RECOVERY_PASSES) and nothing that others do adds to it.
THEOREM RequestsCostABoundedNumberOfSteps == PoolSpec => BudgetOnlyFalls
<1> DEFINE Falls ==
      \A r \in Requests :
          /\ req[r].pc \notin Resting /\ req'[r].pc \notin Resting /\ req'[r] # req[r]
          => StepsLeft(req'[r]) \in 0..(StepsLeft(req[r]) - 1)
<1>1. PoolSpec => []TypeOK
  BY PoolTypeCorrect
<1>2. Init => PacedInv
  BY DEF Init, PacedInv, AtRest
<1>3. TypeOK /\ PacedInv /\ [Next]_poolVars => PacedInv'
  BY PacedStep
<1>4. TypeOK /\ TypeOK' /\ PacedInv /\ [Next]_poolVars => [Falls]_poolVars
  <2> SUFFICES ASSUME TypeOK, TypeOK', PacedInv, [Next]_poolVars, NEW r \in Requests,
                      req[r].pc \notin Resting, req'[r].pc \notin Resting, req'[r] # req[r]
               PROVE  StepsLeft(req'[r]) \in 0..(StepsLeft(req[r]) - 1)
    OBVIOUS
  <2> DEFINE before == Cardinality(Seats \ req[r].tried)
             after  == Cardinality(Seats \ req'[r].tried)
             ahead(q) == IF q.pc \in Reading THEN 0 ELSE 1
  <2>1. /\ req[r].tried \in SUBSET Seats /\ req'[r].tried \in SUBSET Seats
        /\ req[r].passes \in 0..RecoveryPasses /\ req'[r].passes \in 0..RecoveryPasses
        /\ req[r].seat \in Seats /\ RecoveryPasses \in Nat /\ inPool \in SUBSET Seats
    BY TimesAssumption DEF TypeOK, RequestStates, RequestsAtRest, RequestsInHand
  <2>2. before \in Nat /\ after \in Nat
    BY SeatsAssumption, FS_Subset, FS_CardinalityType
  <2>3. /\ StepsLeft(req[r]) = 2 * (before + RecoveryPasses - req[r].passes) + ahead(req[r])
        /\ StepsLeft(req'[r]) = 2 * (after + RecoveryPasses - req'[r].passes) + ahead(req'[r])
    BY DEF StepsLeft
  <2>4. RequestStep(r)
    BY EveryStepIsARequestStep
  <2>5. "paced" \notin OnTheWire \cup Resting
    BY DEF OnTheWire, Reading, Resting
  <2>6. CASE /\ req[r].pc = "paced" /\ req'[r].pc = "flying" /\ req'[r].passes = req[r].passes
             /\ req[r].seat \in req'[r].tried
    <3>1. req[r].tried = {}
      BY <2>6 DEF PacedInv
    <3>2. after <= before - 1
      BY <2>1, <2>6, <3>1, TryingOneLeavesFewer
    <3>3. ahead(req[r]) = 1 /\ ahead(req'[r]) = 1
      BY <2>6 DEF Reading
    <3> HIDE DEF before, after, ahead
    <3> QED
      BY <2>1, <2>2, <2>3, <2>6, <3>2, <3>3
  <2>7. CASE /\ req[r].pc = "flying" /\ req'[r].pc \in Reading
             /\ req'[r].passes = req[r].passes /\ req'[r].tried = req[r].tried
    <3>1. ahead(req[r]) = 1 /\ ahead(req'[r]) = 0 /\ after = before
      BY <2>7 DEF Reading
    <3> HIDE DEF before, after, ahead
    <3> QED
      BY <2>1, <2>2, <2>3, <2>7, <3>1
  <2>8. CASE /\ req[r].pc \in Reading /\ req'[r].pc = "flying"
             /\ req'[r].passes = req[r].passes + 1 /\ req'[r].tried = req[r].tried
    <3>1. ahead(req[r]) = 0 /\ ahead(req'[r]) = 1 /\ after = before
      BY <2>8 DEF Reading
    <3> HIDE DEF before, after, ahead
    <3> QED
      BY <2>1, <2>2, <2>3, <2>8, <3>1
  <2>9. CASE /\ req'[r].passes = req[r].passes /\ req'[r].pc = "flying"
             /\ req'[r].seat \in Peers(r) /\ req'[r].tried = req[r].tried \cup {req'[r].seat}
    <3>1. req'[r].seat \in req'[r].tried \ req[r].tried
      <4>1. Peers(r) \subseteq inPool \ req[r].tried
        BY <2>1, CandidatesAreSeats DEF Peers
      <4> QED
        BY <2>9, <4>1
    <3>2. after <= before - 1
      BY <2>1, <2>9, <3>1, TryingOneLeavesFewer
    <3>3. ahead(req[r]) \in {0, 1} /\ ahead(req'[r]) = 1
      BY <2>9 DEF Reading
    <3> HIDE DEF before, after, ahead
    <3> QED
      BY <2>1, <2>2, <2>3, <2>9, <3>2, <3>3
  <2> QED
    BY <2>4, <2>5, <2>6, <2>7, <2>8, <2>9 DEF RequestStep
<1> QED
  BY <1>1, <1>2, <1>3, <1>4, PTL DEF PoolSpec, BudgetOnlyFalls
=============================================================================
