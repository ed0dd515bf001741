---------------------------- MODULE MCAccountPool ----------------------------
(* Two seats, an Opus client and a Fable client; the bucket binds Fable.    *)
EXTENDS AccountPool, TLC

CONSTANTS s1, s2, r1, r2, opus, fable, none, noSeat

MCSeats    == {s1, s2}
OneSeat    == {s1}
Symmetry   == Permutations(MCSeats)
MCFamilies == {opus, fable}
MCSeed     == {fable}
MCRequests == {r1, r2}
MCFamilyOf == r1 :> opus @@ r2 :> fable

\* One client of each kind on its own, for what concurrency breaks.
Alone         == {r2}
AloneFamilyOf == r2 :> fable
Pinned        == {r1}

\* What the rate-limit headers of an answer can say.
Says(util, bucket, resetIn, binds) ==
    [util |-> util, bucket |-> bucket, resetIn |-> resetIn, binds |-> binds]
Fine        == Says("room", "unread", 2, FALSE)
SeatFull    == Says("full", "unread", 2, FALSE)
FullUnstated == Says("full", "unread", 0, FALSE)
SeatLow     == Says("low", "unread", 2, FALSE)
BucketSpent == Says("room", "full", 3, TRUE)
BucketOpen  == Says("room", "room", 2, FALSE)

WireAll   == {Fine, SeatFull, FullUnstated, SeatLow, BucketSpent, BucketOpen}
WireSeat  == {Fine, SeatFull, FullUnstated}
WireFloor == {Fine, SeatFull, SeatLow, BucketSpent}
WireUnstated == {FullUnstated, Fine}
RetryOne  == {1}
RetryLong == {1, 2}
NoRemoval == {}
=============================================================================
