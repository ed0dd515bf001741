----------------------------- MODULE SeatReading -----------------------------
(***************************************************************************)
(* What one seat's last rate-limit reading and auth streak say about it:   *)
(* the pure predicates of src/pool.ts that every routing path filters on.  *)
(*                                                                         *)
(* A reading keeps what those predicates tell apart.  The utilizations of  *)
(* the seat's own windows are "room", "low" (under the headroom floor) or  *)
(* "full" (at the 429 threshold too), the per-model buckets are one        *)
(* bucket, `oi`, that is "room", "full" or was not measured ("unread"),    *)
(* and `rejected` is status = 'rejected'.  `reset` is the rollover the     *)
(* reading states for the window its claim names, the one that is low or   *)
(* full.  Times are instants; 0 is a time not stated.                      *)
(*                                                                         *)
(* Definitions marked "variant" are faulty forms of the definition below   *)
(* them; no behaviour uses them.                                           *)
(***************************************************************************)
EXTENDS Integers

CONSTANTS Families,      \* model families a request can name
          NoFamily,      \* a request whose model names none
          SeedFamilies,  \* WIRE_BUCKET_BINDINGS: the families the bucket binds from the start
          AuthBase,      \* AUTH_COOLDOWN_BASE_MS
          AuthMax        \* AUTH_COOLDOWN_MAX_MS

ASSUME FamiliesAssumption == NoFamily \notin Families /\ SeedFamilies \subseteq Families
ASSUME AuthAssumption == AuthBase \in Nat /\ AuthMax \in Nat

Instants == Nat

Readings == [ rejected      : BOOLEAN,
              util          : {"room", "low", "full"},
              bucket        : {"unread", "room", "full"},
              reset         : Instants,
              exhausted     : BOOLEAN,   \* exhausted !== false
              cooldownUntil : Instants,
              parked        : BOOLEAN,   \* parkedBuckets is not empty
              parkedUntil   : Instants,  \* parkedBucketsUntil
              bound         : SUBSET Families ] \* boundBuckets

EmptyReading == [ rejected |-> FALSE, util |-> "room", bucket |-> "unread",
                  reset |-> 0, exhausted |-> TRUE, cooldownUntil |-> 0,
                  parked |-> FALSE, parkedUntil |-> 0, bound |-> {} ]

-----------------------------------------------------------------------------
(* Rate limits.                                                            *)

StatedResetPassed(rl, t) == rl.reset > 0 /\ rl.reset <= t

RateLimitWindowPassed(rl, t) ==
    IF rl.exhausted THEN StatedResetPassed(rl, t) ELSE rl.cooldownUntil <= t

Rejected(rl, t) == rl.rejected /\ ~RateLimitWindowPassed(rl, t)

IsBucketScopedRejection(rl) == rl.rejected /\ rl.exhausted /\ rl.parked

ActivePark(rl, t) == rl.parked /\ rl.parkedUntil > t

BucketBinds(rl, f) == f \in SeedFamilies \cup rl.bound

FamilyParkedOnBuckets(rl, f, t) == ActivePark(rl, t) /\ BucketBinds(rl, f)

RateLimited(rl, f, t) ==
    \/ Rejected(rl, t) /\ ~IsBucketScopedRejection(rl)
    \/ FamilyParkedOnBuckets(rl, f, t)

\* A park whose reset has passed but still counts.
ParkedPastItsReset(rl, f, t) ==                                          \* variant
    rl.rejected /\ rl.exhausted /\ rl.reset > 0
IsParkedInLiveWindow(rl, f, t) ==
    \/ ~IsBucketScopedRejection(rl) /\ FamilyParkedOnBuckets(rl, f, t)
    \/ /\ rl.rejected /\ rl.exhausted /\ rl.reset > t
       /\ IsBucketScopedRejection(rl) => FamilyParkedOnBuckets(rl, f, t)

IsCoolingAfterRejection(rl, t) ==
    rl.rejected /\ ~rl.exhausted /\ rl.cooldownUntil > t

WindowLow(rl, t) == rl.util # "room" /\ ~StatedResetPassed(rl, t)
BucketFull(rl, f) == BucketBinds(rl, f) /\ rl.bucket = "full"

\* computeHeadroom against the floor, the reading's own window expired first.
AboveFloor(rl, f, t) == ~WindowLow(rl, t) /\ ~BucketFull(rl, f)

FloorParkedPastItsReset(rl, f, t) == IF AboveFloor(rl, f, t) THEN 0 ELSE rl.reset \* variant
\* Until when a below-floor reading needs no probe; 0 when one must refresh it.
FloorParkedUntil(rl, f, t) ==
    IF ~AboveFloor(rl, f, t) /\ rl.reset > t THEN rl.reset ELSE 0

-----------------------------------------------------------------------------
(* Readings that replace one another.                                      *)

WithBoundBuckets(prev, next) == [next EXCEPT !.bound = prev.bound \cup next.bound]

WithoutParkedBuckets(prev, next, t) == next                              \* variant
WithParkedBuckets(prev, next, t) ==
    IF ActivePark(prev, t) /\ next.bucket # "room"
    THEN [next EXCEPT !.parked = TRUE, !.parkedUntil = prev.parkedUntil]
    ELSE next

-----------------------------------------------------------------------------
(* The auth cool-down: doubles with the streak up to a ceiling.            *)

AuthCooldown(fails) ==
    IF fails = 0 THEN 0
    ELSE LET wait == AuthBase * 2 ^ (fails - 1) IN IF wait < AuthMax THEN wait ELSE AuthMax

IsInAuthCooldown(seat, t) ==
    seat.fails > 0 /\ t < seat.lastFail + AuthCooldown(seat.fails)

-----------------------------------------------------------------------------
(* The two filters of the router.                                          *)

IsAccountEligible(seat, f, t) ==
    /\ ~RateLimited(seat.rl, f, t)
    /\ seat.expiresAt > t
    /\ ~IsInAuthCooldown(seat, t)

IsProbeable(seat, f, t) ==
    /\ ~IsInAuthCooldown(seat, t)
    /\ ~IsParkedInLiveWindow(seat.rl, f, t)
    /\ ~IsCoolingAfterRejection(seat.rl, t)

\* A fresh seat: what add() stores for an alias it does not keep.
FreshSeat(grant, expiresAt) ==
    [ rl |-> EmptyReading, expiresAt |-> expiresAt, fails |-> 0, lastFail |-> 0,
      grant |-> grant ]
=============================================================================
