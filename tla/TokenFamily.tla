------------------------------ MODULE TokenFamily ------------------------------
(***************************************************************************)
(* What instances that share a lock service promise of a seat's tokens,    *)
(* over upstream's live pairs and the pair the service shares alone: there *)
(* are no instances, calls, locks or leases here.                          *)
(*                                                                         *)
(* A refresh made in turn is handed over before anybody makes the next     *)
(* one, whatever grant that one is for; what is handed over is the live    *)
(* pair, and the shared pair is never replaced by an older one.  A grant   *)
(* whose hand-over something broke is out of the family: of it only the    *)
(* last of these is promised.                                              *)
(***************************************************************************)
EXTENDS Integers

CONSTANTS MaxGrant,  \* bound: logins
          MaxSerial  \* bound: pairs upstream issues

VARIABLES
    live,      \* upstream: the live pair of each grant, 0 before its login
    issued,    \* upstream: the last serial number
    shared,    \* the pair the service hands over
    underway,  \* the grant refreshed in turn and not handed over yet, if any
    broken     \* grants out of the family

familyVars == << live, issued, shared, underway, broken >>

Grants == 1..MaxGrant
NoPair == [grant |-> 0, serial |-> 0]
Newer(a, b) ==
    IF a.grant # b.grant THEN a.grant > b.grant ELSE a.serial > b.serial

Init ==
    /\ live = [g \in Grants |-> IF g = 1 THEN 1 ELSE 0]
    /\ issued = 1
    /\ shared = NoPair
    /\ underway = {}
    /\ broken = {}

\* Upstream issues the next pair, of grant g.
Issues(g) ==
    /\ issued < MaxSerial
    /\ issued' = issued + 1
    /\ live' = [live EXCEPT ![g] = issued + 1]

Login(g) ==
    /\ live[g] = 0
    /\ Issues(g)
    /\ UNCHANGED << shared, underway, broken >>

RefreshInTurn(g) ==
    /\ underway = {} /\ g \notin broken /\ live[g] # 0
    /\ Issues(g)
    /\ underway' = {g}
    /\ UNCHANGED << shared, broken >>

\* Without the lock, or with one that no longer protects the grant.
RefreshOutOfTurn(g) ==
    /\ live[g] # 0
    /\ Issues(g)
    /\ broken' = broken \cup {g}
    /\ underway' = underway \ {g}
    /\ UNCHANGED shared

\* The service shares the pair p.
Shares(p) == ~Newer(shared, p) /\ shared' = p

HandOver(g) ==
    /\ g \in underway
    /\ Shares([grant |-> g, serial |-> live[g]])
    /\ underway' = {}
    /\ UNCHANGED << live, issued, broken >>

HandOverOfBroken(g) ==
    /\ g \in broken
    /\ \E n \in 1..live[g] : Shares([grant |-> g, serial |-> n])
    /\ UNCHANGED << live, issued, underway, broken >>

\* A call is lost, a lease runs out or a process dies.
Break(g) ==
    /\ broken' = broken \cup {g}
    /\ underway' = underway \ {g}
    /\ UNCHANGED << live, issued, shared >>

Next ==
    \E g \in Grants :
        \/ Login(g) \/ RefreshInTurn(g) \/ RefreshOutOfTurn(g)
        \/ HandOver(g) \/ HandOverOfBroken(g) \/ Break(g)

FamilySpec == Init /\ [][Next]_familyVars

\* The shared pair of a grant in the family is the live one, but for the time a
\* refresh of it is under way (acquire answers with it, refreshAccountToken uses it).
SharedIsLive ==
    shared # NoPair /\ shared.grant \notin broken \cup underway =>
        shared.serial = live[shared.grant]
=============================================================================
