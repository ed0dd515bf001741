--------------------------- MODULE MCRequestQueue ---------------------------
(* Two consumers and an anonymous client in front of a two-slot queue.     *)
EXTENDS RequestQueue

CONSTANTS r1, r2, r3, r4, r5, a, b, none

MCRequests  == {r1, r2, r3, r4, r5}
MCConsumers == {a, b}
\* a has three requests, so with two slots it can hold one at a cap of one.
MCConsumerOf == r1 :> a @@ r2 :> a @@ r3 :> a @@ r4 :> b @@ r5 :> none

\* r1, r2 and r3 are the same client; the invariants do not tell them apart.
Symmetry == Permutations({r1, r2, r3})
=============================================================================
