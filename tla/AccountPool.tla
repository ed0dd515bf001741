----------------------------- MODULE AccountPool -----------------------------
(***************************************************************************)
(* The pool of Claude seats (src/pool.ts, AccountPool) and the requests    *)
(* the proxy routes over it (src/proxy.ts, selectPoolAccount and the       *)
(* dispatch loop).                                                         *)
(*                                                                         *)
(* A request picks a seat, waits out its pacing delay, is sent, and its    *)
(* answer rewrites the seat's reading; a 429, a 401 or a 403 moves it to a *)
(* peer it has not tried.  Each of those steps runs to completion; between *)
(* them every other request, an admin login or removal, and the clock may  *)
(* step.  A request keeps the alias of its seat, so an answer is applied   *)
(* to whatever the pool holds under that alias by then.                    *)
(*                                                                         *)
(* Which of several candidates is picked is left open: the strategies, the *)
(* sticky bindings and a key's preferred seat all pick among them.         *)
(***************************************************************************)
EXTENDS SeatReading, FiniteSets, FiniteSetsExt

CONSTANTS Seats,          \* aliases
          Requests,       \* identities a client reuses for one request after another
          FamilyOf,       \* Requests -> Families \cup {NoFamily}
          PinnedRequests, \* requests that name their seat (x-dario-account)
          NoSeat,
          HardFloor,      \* --pool-headroom-floor was set
          WireReadings,   \* what rate-limit headers say: util, bucket, resetIn (0: unstated), binds
          RetryAfters,    \* retry-after of a 429, or NON_WINDOW_REJECTION_COOLDOWN_MS when absent
          Cooldown,       \* NON_WINDOW_REJECTION_COOLDOWN_MS
          TokenLife,      \* lifetime of an access token
          RefreshAhead,   \* how long before its expiry the background refresh renews it
          RecoveryPasses, \* MAX_RECOVERY_PASSES
          Removable,      \* bound: seats an operator removes
          MaxGrant,       \* bound: OAuth grants of one alias
          MaxTime         \* bound: the clock stops here

ASSUME RequestsAssumption ==
    /\ FamilyOf \in [Requests -> Families \cup {NoFamily}]
    /\ PinnedRequests \subseteq Requests
ASSUME SeatsAssumption == IsFiniteSet(Seats) /\ NoSeat \notin Seats /\ Removable \subseteq Seats
ASSUME WireAssumption ==
    WireReadings \subseteq [ util : {"room", "low", "full"}, bucket : {"unread", "room", "full"},
                             resetIn : Nat, binds : BOOLEAN ]
ASSUME TimesAssumption ==
    /\ RetryAfters \subseteq Nat /\ Cooldown \in Nat \ {0} /\ TokenLife \in Nat /\ RefreshAhead \in Nat
    /\ RecoveryPasses \in Nat /\ MaxGrant \in Nat \ {0} /\ MaxTime \in Nat
ASSUME FloorAssumption == HardFloor \in BOOLEAN

VARIABLES
    inPool,     \* the aliases the pool holds
    seat,       \* what it holds for each; the last value for an alias it no longer holds
    req,        \* each request: see RequestStates
    now,
    firstFail,  \* history: when each seat's auth streak began
    shutUntil   \* history: the reset a window 429 of the seat's grant stated, until a 2xx

poolVars == << inPool, seat, req, now, firstFail, shutUntil >>

Resting == {"new", "served", "failed", "parked", "unavailable"}
\* A 400, 403 or 429 whose body is still being read (upstream.text()).
Reading == {"reading400", "reading403", "reading429"}

\* At rest a request holds no seat; in hand it holds the alias of one, in the
\* pool or not.
RequestsAtRest == [ pc : Resting, seat : {NoSeat}, grant : 0..MaxGrant,
                    tried : SUBSET Seats, passes : 0..RecoveryPasses ]
RequestsInHand == [ pc     : Reading \cup {"paced", "flying"},
                    seat   : Seats,
                    grant  : 0..MaxGrant,      \* the grant of the bearer token it carries
                    tried  : SUBSET Seats,
                    passes : 0..RecoveryPasses ]
RequestStates == RequestsAtRest \cup RequestsInHand

AtRest(outcome) ==
    [ pc |-> outcome, seat |-> NoSeat, grant |-> 0, tried |-> {}, passes |-> 0 ]

-----------------------------------------------------------------------------
(* Routing.                                                                *)

\* The part of select() and selectExcluding() they share: what is picked from.
Candidates(among, f, t) ==
    LET eligible == { s \in among : IsAccountEligible(seat[s], f, t) }
        above    == { s \in eligible : AboveFloor(seat[s].rl, f, t) }
        stale    == { s \in eligible : FloorParkedUntil(seat[s].rl, f, t) = 0 }
    IN  IF eligible = {}
        THEN { s \in among : IsProbeable(seat[s], f, t) }
        ELSE IF ~HardFloor THEN eligible
        ELSE IF above # {} THEN above ELSE stale

\* canPrefer: the seats a named key's preference may take ahead of that order.
Preferable(f) ==
    { s \in inPool :
        /\ IsAccountEligible(seat[s], f, now)
        /\ HardFloor /\ ~AboveFloor(seat[s].rl, f, now) =>
              FloorParkedUntil(seat[s].rl, f, now) = 0 }

PeersIgnoringTried(r) == Candidates(inPool, FamilyOf[r], now)            \* variant
PeersOfALargePool(r) ==                                                  \* variant
    IF Cardinality(inPool) <= 2 THEN {}
    ELSE Candidates(inPool \ req[r].tried, FamilyOf[r], now)
\* selectExcluding
Peers(r) ==
    IF Cardinality(inPool) <= 1 THEN {}
    ELSE Candidates(inPool \ req[r].tried, FamilyOf[r], now)

SeatParkedUntilReset(s, f) ==                                            \* variant
    LET rl == seat[s].rl
    IN  IF IsParkedInLiveWindow(rl, f, now) THEN rl.reset
        ELSE IF IsCoolingAfterRejection(rl, now) THEN rl.cooldownUntil
        ELSE 0
\* parkedUntil of one seat; 0 when it is not a rate limit that keeps it off.
SeatParkedUntil(s, f) ==
    LET rl == seat[s].rl
    IN  IF IsParkedInLiveWindow(rl, f, now)
        THEN IF FamilyParkedOnBuckets(rl, f, now) THEN rl.parkedUntil ELSE rl.reset
        ELSE IF IsCoolingAfterRejection(rl, now) THEN rl.cooldownUntil
        ELSE IF HardFloor /\ IsAccountEligible(seat[s], f, now) THEN FloorParkedUntil(rl, f, now)
        ELSE 0

\* The earliest of them when every seat has one, else 0.
ParkedUntil(f) ==
    LET until == { SeatParkedUntil(s, f) : s \in inPool }
    IN  IF until = {} \/ 0 \in until THEN 0 ELSE Min(until)

-----------------------------------------------------------------------------
(* What an answer does to the seat it names.                               *)

Snapshot(wire, f) ==
    [EmptyReading EXCEPT
        !.util = wire.util, !.bucket = wire.bucket,
        !.reset = IF wire.resetIn = 0 THEN 0 ELSE now + wire.resetIn,
        !.bound = IF wire.binds /\ wire.bucket # "unread" /\ f # NoFamily THEN {f} ELSE {}]

Updated(rl, snap) == WithParkedBuckets(rl, WithBoundBuckets(rl, snap), now)

RejectedAsACoolDown(rl, snap, retryAfter) ==                             \* variant
    [WithParkedBuckets(rl, WithBoundBuckets(rl, snap), now) EXCEPT
        !.rejected = TRUE, !.exhausted = FALSE, !.cooldownUntil = now + retryAfter]
\* markRejected: a bucket's families, the seat's window, or a cool-down.
RejectedReading(rl, snap, retryAfter) ==
    LET merged == WithBoundBuckets(rl, snap)
    IN  IF snap.util = "full" THEN [merged EXCEPT !.rejected = TRUE]
        ELSE IF snap.bucket = "full"
        THEN [merged EXCEPT !.rejected = TRUE, !.parked = TRUE,
                 !.parkedUntil = IF snap.reset > 0 THEN snap.reset ELSE now + Cooldown]
        ELSE [WithParkedBuckets(rl, merged, now) EXCEPT
                 !.rejected = TRUE, !.exhausted = FALSE, !.cooldownUntil = now + retryAfter]

EscalatedByEveryFailure(st) == st.fails + 1                              \* variant
\* A burst of failures in one cool-down escalates the streak once.
NextStreak(st) == IF IsInAuthCooldown(st, now) THEN st.fails ELSE st.fails + 1

WithAuthFailure(st) == [st EXCEPT !.fails = NextStreak(st), !.lastFail = now]
WithoutAuthFailure(st) == [st EXCEPT !.fails = 0, !.lastFail = 0]

\* The pool ignores an alias it no longer holds.
Judged(s, st) == IF s \in inPool THEN [seat EXCEPT ![s] = st] ELSE seat

WithReading(s, rl) == [seat[s] EXCEPT !.rl = rl]

-----------------------------------------------------------------------------
(* A request.                                                              *)

Init ==
    /\ inPool = Seats
    /\ seat = [s \in Seats |-> FreshSeat(1, TokenLife)]
    /\ req = [r \in Requests |-> AtRest("new")]
    /\ now = 0
    /\ firstFail = [s \in Seats |-> 0]
    /\ shutUntil = [s \in Seats |-> 0]

Carrying(r, s) == [AtRest("paced") EXCEPT !.seat = s, !.grant = seat[s].grant]

\* selectPoolAccount, and the sticky rebinding that follows it: what comes back
\* is a candidate, or a key's preferred seat.  Nothing awaits in between.
Select(r) ==
    LET f     == FamilyOf[r]
        picks == Candidates(inPool, f, now) \cup Preferable(f)
    IN  /\ req[r].pc \in Resting /\ r \notin PinnedRequests
        /\ \/ \E s \in picks : req' = [req EXCEPT ![r] = Carrying(r, s)]
           \/ /\ picks = {}
              /\ req' = [req EXCEPT ![r] =
                            AtRest(IF ParkedUntil(f) # 0 THEN "parked" ELSE "unavailable")]
        /\ UNCHANGED << inPool, seat, now, firstFail, shutUntil >>

\* A pinned request takes the seat it names, whatever its reading.
SelectPinned(r) ==
    /\ req[r].pc \in Resting /\ r \in PinnedRequests
    /\ \E s \in inPool : req' = [req EXCEPT ![r] = Carrying(r, s)]
    /\ UNCHANGED << inPool, seat, now, firstFail, shutUntil >>

\* The pacing delay is over: triedAliases starts, and the request is sent.
Send(r) ==
    /\ req[r].pc = "paced"
    /\ req' = [req EXCEPT ![r].pc = "flying",
                          ![r].tried = {req[r].seat} \cup
                                       IF r \in PinnedRequests THEN inPool ELSE {}]
    /\ UNCHANGED << inPool, seat, now, firstFail, shutUntil >>

-----------------------------------------------------------------------------
(* Its answer.  s is the seat that gave it, f the family it was for.       *)

\* 2xx: the reading is replaced and the auth streak is over.
AnswerOk(r) ==
    LET s == req[r].seat IN
    /\ req[r].pc = "flying"
    /\ \E wire \in WireReadings :
          seat' = Judged(s, WithoutAuthFailure(
                      WithReading(s, Updated(seat[s].rl, Snapshot(wire, FamilyOf[r])))))
    /\ firstFail' = [firstFail EXCEPT ![s] = IF s \in inPool THEN 0 ELSE @]
    /\ shutUntil' = [shutUntil EXCEPT ![s] = IF s \in inPool THEN 0 ELSE @]
    /\ req' = [req EXCEPT ![r] = AtRest("served")]
    /\ UNCHANGED << inPool, now >>

\* A 5xx or a 4xx whose body nobody reads here: no rate-limit headers.
AnswerError(r) ==
    LET s == req[r].seat IN
    /\ req[r].pc = "flying"
    /\ seat' = Judged(s, WithReading(s, Updated(seat[s].rl, EmptyReading)))
    /\ req' = [req EXCEPT ![r] = AtRest("failed")]
    /\ UNCHANGED << inPool, now, firstFail, shutUntil >>

\* A 400 or 403 takes the same path up to the read of its body.
AnswerPeeked(r) ==
    LET s == req[r].seat IN
    /\ req[r].pc = "flying"
    /\ seat' = Judged(s, WithReading(s, Updated(seat[s].rl, EmptyReading)))
    /\ \E pc \in {"reading400", "reading403"} : req' = [req EXCEPT ![r].pc = pc]
    /\ UNCHANGED << inPool, now, firstFail, shutUntil >>

\* A 429 is recorded at once; the failover waits for its body.
Answer429(r) ==
    LET s == req[r].seat IN
    /\ req[r].pc = "flying"
    /\ \E wire \in WireReadings, retryAfter \in RetryAfters :
          LET snap == Snapshot(wire, FamilyOf[r])
          IN  /\ seat' = Judged(s, WithReading(s, RejectedReading(seat[s].rl, snap, retryAfter)))
              /\ shutUntil' = [shutUntil EXCEPT ![s] =
                     IF /\ s \in inPool /\ req[r].grant = seat[s].grant
                        /\ wire.util = "full" /\ snap.reset > @
                     THEN snap.reset ELSE @]
    /\ req' = [req EXCEPT ![r].pc = "reading429"]
    /\ UNCHANGED << inPool, now, firstFail >>

\* The fetch fails, times out, or the client goes away.
Abort(r) ==
    /\ req[r].pc = "flying"
    /\ req' = [req EXCEPT ![r] = AtRest("failed")]
    /\ UNCHANGED << inPool, seat, now, firstFail, shutUntil >>

-----------------------------------------------------------------------------
(* Failover.                                                               *)

\* switchAccount, or the answer goes to the client.
Failover(r) ==
    \/ \E s \in Peers(r) :
          req' = [req EXCEPT ![r].pc = "flying", ![r].seat = s,
                            ![r].grant = seat[s].grant, ![r].tried = @ \cup {s}]
    \/ Peers(r) = {} /\ req' = [req EXCEPT ![r] = AtRest("failed")]

RetryUnbounded(r) ==                                                     \* variant
    /\ req[r].pc \in Reading
    /\ req' = [req EXCEPT ![r].pc = "flying", ![r].passes = @ + 1]
    /\ UNCHANGED << inPool, seat, now, firstFail, shutUntil >>
\* A rejected beta flag, effort, limit or long context: fixed and sent again.
RetryInPlace(r) ==
    /\ req[r].pc \in Reading /\ req[r].passes < RecoveryPasses
    /\ req' = [req EXCEPT ![r].pc = "flying", ![r].passes = @ + 1]
    /\ UNCHANGED << inPool, seat, now, firstFail, shutUntil >>

FailoverAfter429(r) ==
    /\ req[r].pc = "reading429"
    /\ Failover(r)
    /\ UNCHANGED << inPool, seat, now, firstFail, shutUntil >>

\* What markAuthFailure does; the streak's start is remembered.
AuthFailureOf(s, st) ==
    /\ seat' = Judged(s, WithAuthFailure(st))
    /\ firstFail' = [firstFail EXCEPT ![s] = IF s \in inPool /\ st.fails = 0 THEN now ELSE @]

\* A 401 carries no rate-limit headers either.
Answer401(r) ==
    LET s == req[r].seat IN
    /\ req[r].pc = "flying"
    /\ AuthFailureOf(s, WithReading(s, Updated(seat[s].rl, EmptyReading)))
    /\ Failover(r)
    /\ UNCHANGED << inPool, now, shutUntil >>

FailoverAfter403(r) ==
    /\ req[r].pc = "reading403"
    /\ AuthFailureOf(req[r].seat, seat[req[r].seat])
    /\ Failover(r)
    /\ UNCHANGED << inPool, now, shutUntil >>

\* A 400 that cannot be fixed, a 402, or a 403 about billing: the client's.
Forward4xx(r) ==
    /\ req[r].pc \in {"reading400", "reading403"}
    /\ req' = [req EXCEPT ![r] = AtRest("failed")]
    /\ UNCHANGED << inPool, seat, now, firstFail, shutUntil >>

-----------------------------------------------------------------------------
(* The operator, the background refresh and the clock.                     *)

\* add() of an alias it does not keep: a new alias, or a new grant under an old one.
Regranted(st, grant) == FreshSeat(grant, now + TokenLife)

\* `dario accounts add`, the admin login, or a synced record with a newer grant.
Grant(s) ==
    /\ seat[s].grant < MaxGrant
    /\ inPool' = inPool \cup {s}
    /\ seat' = [seat EXCEPT ![s] = Regranted(seat[s], seat[s].grant + 1)]
    /\ firstFail' = [firstFail EXCEPT ![s] = 0]
    /\ shutUntil' = [shutUntil EXCEPT ![s] = 0]
    /\ UNCHANGED << req, now >>

Remove(s) ==
    /\ s \in Removable \cap inPool
    /\ inPool' = inPool \ {s}
    /\ seat' = [seat EXCEPT ![s] = FreshSeat(seat[s].grant, 0)]
    /\ firstFail' = [firstFail EXCEPT ![s] = 0]
    /\ shutUntil' = [shutUntil EXCEPT ![s] = 0]
    /\ UNCHANGED << req, now >>

\* updateTokens: the reading and the streak stay.
RefreshTokens(s) ==
    /\ s \in inPool /\ seat[s].expiresAt < now + RefreshAhead
    /\ seat' = [seat EXCEPT ![s].expiresAt = now + TokenLife]
    /\ UNCHANGED << inPool, req, now, firstFail, shutUntil >>

Tick ==
    /\ now < MaxTime
    /\ now' = now + 1
    /\ UNCHANGED << inPool, seat, req, firstFail, shutUntil >>

Answered(r) ==
    AnswerOk(r) \/ AnswerError(r) \/ AnswerPeeked(r) \/ Answer429(r) \/ Answer401(r) \/ Abort(r)
BodyRead(r) ==
    RetryInPlace(r) \/ FailoverAfter429(r) \/ FailoverAfter403(r) \/ Forward4xx(r)

Next ==
    \/ \E r \in Requests :
          Select(r) \/ SelectPinned(r) \/ Send(r) \/ Answered(r) \/ BodyRead(r)
    \/ \E s \in Seats : Grant(s) \/ Remove(s) \/ RefreshTokens(s)
    \/ Tick

PoolSpec == Init /\ [][Next]_poolVars

\* The pacing timer fires, the upstream deadline ends every wait for an answer,
\* and a body is read to its end or its error: a request in hand takes its step.
Progress(r) == Send(r) \/ Answered(r) \/ BodyRead(r)
FairPoolSpec == PoolSpec /\ \A r \in Requests : WF_poolVars(Progress(r))

-----------------------------------------------------------------------------
(* Properties.                                                             *)

SeatStates == [ rl : Readings, expiresAt : Instants, fails : Nat, lastFail : Instants,
                grant : 1..MaxGrant ]

\* Every variable keeps its type.
TypeOK ==
    /\ inPool \subseteq Seats
    /\ seat \in [Seats -> SeatStates]
    /\ req \in [Requests -> RequestStates]
    /\ now \in 0..MaxTime
    /\ firstFail \in [Seats -> Instants]
    /\ shutUntil \in [Seats -> Instants]

\* The router's two filters agree (isAccountEligible, isProbeable): a seat that
\* may be picked outright is never one the fallback paths must not ask.
EligibleIsProbeable ==
    \A s \in Seats, f \in Families \cup {NoFamily} :
        IsAccountEligible(seat[s], f, now) => IsProbeable(seat[s], f, now)

\* No state of the pool is a dead end: with no further traffic every family is
\* routed again once every stated reset, cool-down and auth cool-down is over.
MustServeBy ==
    LET ends == UNION { { seat[s].rl.reset, seat[s].rl.cooldownUntil, seat[s].rl.parkedUntil,
                          seat[s].lastFail + AuthCooldown(seat[s].fails) } : s \in inPool }
    IN  Max(ends \cup {now})
ServesAgain ==
    inPool # {} =>
        \A f \in Families \cup {NoFamily} : Candidates(inPool, f, MustServeBy) # {}

\* The first n cool-downs of an auth streak, sat out one after the other.
CoolDowns[n \in Nat] == IF n = 0 THEN 0 ELSE CoolDowns[n - 1] + AuthCooldown(n)

\* An auth streak of n takes the n - 1 cool-downs before it (markAuthFailure): a
\* burst of requests refused together cannot lengthen the cool-down but once.
StreakTakesTime ==
    \A s \in inPool :
        seat[s].fails > 0 =>
            /\ firstFail[s] + CoolDowns[seat[s].fails - 1] <= seat[s].lastFail
            /\ seat[s].lastFail <= now

\* A family parked on its bucket stays off the seat (withParkedBuckets) until
\* the bucket's reset, a reading that measured room in it, a new grant, or a
\* 429 for the seat's own window, which answers for the whole seat.
BucketParkCarried ==
    [][ \A s \in inPool, f \in Families :
          /\ FamilyParkedOnBuckets(seat[s].rl, f, now')
          /\ s \in inPool' /\ seat'[s].grant = seat[s].grant
          /\ seat'[s].rl.bucket # "room"
          /\ ~ (seat'[s].rl.rejected /\ seat'[s].rl.util = "full")
          => RateLimited(seat'[s].rl, f, now') ]_poolVars

\* The router starts request r on seat s in this step (selection or failover).
RoutedTo(r, s) == req'[r].seat = s /\ req[r].seat # s

\* A seat whose own window a 429 called exhausted gets no request the router
\* chooses before the reset that 429 stated, unless it served one since
\* (docs/multi-account-pool.md:21).
RoutedAroundUntilReset ==
    [][ \A r \in Requests \ PinnedRequests, s \in Seats :
          RoutedTo(r, s) => shutUntil[s] <= now ]_poolVars

\* A request whose seat answered 429 is not failed while the pool holds an
\* eligible seat it has not tried (selectExcluding).  Only a seat removed while
\* its 429 is read ends the request early: a pool of one names no peer.
PeerTriedBeforeSurfacing ==
    [][ \A r \in Requests \ PinnedRequests :
          /\ req[r].pc = "reading429" /\ req'[r].pc = "failed"
          /\ req[r].seat \in inPool
          => ~ \E s \in inPool \ req[r].tried :
                    /\ IsAccountEligible(seat[s], FamilyOf[r], now)
                    /\ AboveFloor(seat[s].rl, FamilyOf[r], now) ]_poolVars

\* A pinned request is answered by the seat it names: no failover of any kind.
PinStaysOnItsSeat ==
    [][ \A r \in PinnedRequests :
          req[r].pc \notin Resting => req'[r].seat \in {req[r].seat, NoSeat} ]_poolVars

\* A seat is rejected or cooled only by an answer to its own grant
\* (docs/multi-account-pool.md:123, and add()).
FreshGrantUnjudged ==
    [][ \A s \in inPool \cap inPool' :
          /\ seat'[s].grant = seat[s].grant
          /\ \/ seat'[s].rl.rejected /\ ~seat[s].rl.rejected
             \/ seat'[s].fails > seat[s].fails
          => \E r \in Requests :
                req[r].seat = s /\ req[r].grant = seat[s].grant /\ req'[r] # req[r] ]_poolVars

\* The moment the local 429 names (parkedUntil) is honest about windows and
\* buckets: a seat that names the earliest one is off all of them by then, and
\* off its cool-down too.  One case is excepted, as the code names a bucket's
\* reset without looking further: a cool-down taken while that bucket's park is
\* carried may outlast it.
ParkedUntilHonest ==
    \A f \in Families \cup {NoFamily} :
        LET until == ParkedUntil(f)
        IN  until # 0 =>
              \E s \in inPool :
                 /\ SeatParkedUntil(s, f) = until
                 /\ ~IsParkedInLiveWindow(seat[s].rl, f, until)
                 /\ IsCoolingAfterRejection(seat[s].rl, until) =>
                       FamilyParkedOnBuckets(seat[s].rl, f, now)

\* The steps a request in hand may still take: an answer and the read of its body
\* for each seat it has not tried and each recovery pass it has left.
StepsLeft(q) ==
    2 * (Cardinality(Seats \ q.tried) + RecoveryPasses - q.passes)
      + IF q.pc \in Reading THEN 0 ELSE 1

\* Failovers and recovery passes draw on one bounded budget (triedAliases,
\* MAX_RECOVERY_PASSES): every step of a request lowers it, and no login, removal
\* or answer of another request gives anything back.
BudgetOnlyFalls ==
    [][ \A r \in Requests :
          /\ req[r].pc \notin Resting /\ req'[r].pc \notin Resting /\ req'[r] # req[r]
          => StepsLeft(req'[r]) \in 0..(StepsLeft(req[r]) - 1) ]_poolVars

\* Every request in hand is answered: retries and failovers end.
RequestsAnswered == \A r \in Requests : req[r].pc \notin Resting ~> req[r].pc \in Resting
=============================================================================
