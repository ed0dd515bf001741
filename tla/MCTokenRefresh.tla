---------------------------- MODULE MCTokenRefresh ----------------------------
(* Two instances of one seat; the second one's operator may remove it.       *)
EXTENDS TokenRefresh

CONSTANTS i1, i2, nobody

MCInstances == {i1, i2}
MCRemovers  == {i2}
Worker      == {"worker"}
Redis       == {"redis"}
Either      == {"worker", "redis"}
NoRemover   == {}
=============================================================================
