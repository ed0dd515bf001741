------------------------------ MODULE MCGateway ------------------------------
(* Three clients, one of which resumes a broken stream by a leg that may     *)
(* break off in its turn.  It shares its consumer with the second client.    *)
EXTENDS Gateway

CONSTANTS c1, c2, c3, l1, m1, a, b, none, noLeg

MCRequests   == {c1, c2, c3, l1, m1}
MCClients    == {c1, c2, c3}
MCConsumers  == {a, b}
MCConsumerOf == c1 :> a @@ l1 :> a @@ m1 :> a @@ c2 :> a @@ c3 :> b
MCLegOf      == c1 :> l1 @@ l1 :> m1 @@ m1 :> noLeg @@ c2 :> noLeg @@ c3 :> noLeg
=============================================================================
