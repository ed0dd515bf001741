----------------------------- MODULE TokenRefresh -----------------------------
(***************************************************************************)
(* The refresh of one seat's OAuth token by several instances that share a *)
(* lock service (src/accounts.ts, the refresh timer of src/proxy.ts, and   *)
(* the two services, redis-lock/server.mjs and cloudflare/refresh-lock).   *)
(*                                                                         *)
(* A refresh token is single-use: upstream answers a refresh with a new    *)
(* pair and refuses the old one from then on.  So an instance asks the     *)
(* service first (peek, acquire) and takes over what a peer refreshed; the *)
(* one that is given the lock refreshes and leaves its new pair with the   *)
(* service when it releases.  Every call of an instance is a step of its   *)
(* own, and logins, removals, crashes and the lock's TTL fall in between.  *)
(*                                                                         *)
(* A pair of tokens is the grant it belongs to and a serial number; serial *)
(* numbers grow with every pair upstream issues, as its expiresAt does.    *)
(* How long a pair has left is not kept: where the code compares it with a *)
(* margin, both outcomes are taken.                                        *)
(*                                                                         *)
(* Definitions marked "variant" are faulty forms of the definition below   *)
(* them; no behaviour uses them.                                           *)
(***************************************************************************)
EXTENDS Integers, FiniteSets

CONSTANTS Instances,
          Nobody,
          Removers,    \* bound: instances whose operator removes the seat
          Backends,    \* which services the lock may be: "worker", "redis"
          MaxAttempts, \* MAX_ATTEMPTS
          MaxGrant,    \* bound: logins
          MaxSerial    \* bound: pairs upstream issues

ASSUME InstancesAssumption == Nobody \notin Instances /\ Removers \subseteq Instances
ASSUME BackendsAssumption == Backends \subseteq {"worker", "redis"}
ASSUME BoundsAssumption ==
    /\ MaxAttempts \in Nat
    /\ MaxGrant \in Nat \ {0}
    /\ MaxSerial \in Nat \ {0}

VARIABLES
    backend,  \* the service in use
    file,     \* the account file of each instance
    seat,     \* the pair each instance serves with (its pool entry)
    reload,   \* a login or removal is done and the pool not reconciled yet
    job,      \* the refresh each instance is in: see Jobs
    lock,     \* who holds the service's lock
    cache,    \* the credentials the service hands over
    live,     \* upstream: the live pair of each grant, 0 before its login
    issued,   \* upstream: the last serial number
    excused   \* history: grants whose handover something broke: see Excuses

vars == << backend, file, seat, reload, job, lock, cache, live, issued, excused >>

Grants  == 1..MaxGrant
Serials == 1..MaxSerial
NoPair == [grant |-> 0, serial |-> 0]
Pairs == [grant : Grants, serial : Serials] \cup {NoPair}

\* credentialsAreNewer, isNewer: the newer grant, then the later expiry.
Newer(a, b) ==
    IF a.grant # b.grant THEN a.grant > b.grant ELSE a.serial > b.serial

Steps == {"idle", "peeking", "adopting", "deciding", "acquiring", "looked", "calling", "rotated",
          "releasing", "caching", "failing", "identifying"}
Jobs == [ pc : Steps, pair : Pairs, attempts : 0..MaxAttempts, leased : BOOLEAN ]
NoJob == [pc |-> "idle", pair |-> NoPair, attempts |-> 0, leased |-> FALSE]

At(i, pc) == job[i].pc = pc
Goes(i, pc) == job' = [job EXCEPT ![i].pc = pc]
Ends(i) == job' = [job EXCEPT ![i] = NoJob]

\* updateTokens: the tokens change, the seat's grantedAt does not.
WithTokens(s, pair) == IF s = NoPair THEN NoPair ELSE [s EXCEPT !.serial = pair.serial]

Init ==
    /\ backend \in Backends
    /\ file = [i \in Instances |-> [grant |-> 1, serial |-> 1]]
    /\ seat = file
    /\ reload = [i \in Instances |-> FALSE]
    /\ job = [i \in Instances |-> NoJob]
    /\ lock = Nobody
    /\ cache = NoPair
    /\ live = [g \in Grants |-> IF g = 1 THEN 1 ELSE 0]
    /\ issued = 1
    /\ excused = {}

-----------------------------------------------------------------------------
(* The tick: take over a peer's newer pair, then see whether to refresh.   *)

\* The refresh timer, for a seat the pool holds.
Tick(i) ==
    /\ At(i, "idle") /\ seat[i] # NoPair
    /\ job' = [job EXCEPT ![i] = [NoJob EXCEPT !.pc = "peeking", !.pair = seat[i]]]
    /\ UNCHANGED << backend, file, seat, reload, lock, cache, live, issued, excused >>

\* What the service shares with a caller that holds this pair.
SharedWith(pair) == IF Newer(cache, pair) THEN cache ELSE NoPair

AdoptedUnchecked(shared, current, local) == shared                       \* variant
AdoptedIfWritten(shared, current, local) ==                              \* variant
    IF shared # NoPair /\ current # NoPair /\ Newer(shared, current) THEN shared ELSE NoPair
\* adoptSharedCredentials, the part inside the file's write chain: what the
\* answer is worth by now.
Adopted(shared, current, local) ==
    IF shared = NoPair \/ current = NoPair THEN NoPair
    ELSE IF Newer(shared, current) THEN shared
    ELSE IF Newer(current, local) THEN current ELSE NoPair

\* The answer to the peek: the file takes the newer pair.
PeekAnswered(i) ==
    LET adopted == Adopted(SharedWith(job[i].pair), file[i], job[i].pair)
    IN  /\ At(i, "peeking")
        /\ file' = [file EXCEPT ![i] = IF adopted # NoPair THEN adopted ELSE @]
        /\ job' = [job EXCEPT ![i].pc = "adopting", ![i].pair = adopted]
        /\ UNCHANGED << backend, seat, reload, lock, cache, live, issued, excused >>

ReplacesIfThere(current, adopted) == current # NoPair /\ adopted # NoPair  \* variant
\* adoptPeerCredentials: only a seat that is still there and older.
Replaces(current, adopted) == current # NoPair /\ Newer(adopted, current)

AdoptSeat(i) ==
    /\ At(i, "adopting")
    /\ seat' = [seat EXCEPT ![i] = IF Replaces(@, job[i].pair) THEN job[i].pair ELSE @]
    /\ Goes(i, "deciding")
    /\ UNCHANGED << backend, file, reload, lock, cache, live, issued, excused >>

PeekLost(i) ==
    /\ At(i, "peeking")
    /\ Goes(i, "deciding")
    /\ UNCHANGED << backend, file, seat, reload, lock, cache, live, issued, excused >>

\* Not within the refresh margin, or no file: nothing to do.
NotDue(i) ==
    /\ At(i, "deciding")
    /\ Ends(i)
    /\ UNCHANGED << backend, file, seat, reload, lock, cache, live, issued, excused >>

\* The refresh starts from the file as it is now.
Due(i) ==
    /\ At(i, "deciding") /\ file[i] # NoPair
    /\ job' = [job EXCEPT ![i] = [NoJob EXCEPT !.pc = "acquiring", !.pair = file[i]]]
    /\ UNCHANGED << backend, file, seat, reload, lock, cache, live, issued, excused >>

-----------------------------------------------------------------------------
(* acquire, up to MAX_ATTEMPTS times.                                      *)

\* refreshAccountToken returns this pair: the seat takes its tokens, and for an
\* old record the profile is asked for.
Returns(i, pair) ==
    /\ seat' = [seat EXCEPT ![i] = WithTokens(@, pair)]
    /\ Ends(i) \/ job' = [job EXCEPT ![i].pc = "identifying", ![i].pair = pair]

TryingOnAndOn(i) == At(i, "acquiring")                                   \* variant
Trying(i) == At(i, "acquiring") /\ job[i].attempts < MaxAttempts

\* The service found nothing newer for the caller; redis has not looked at the
\* lock yet by then.
MayLock(i) ==
    \/ At(i, "looked")
    \/ backend = "worker" /\ Trying(i) /\ ~Newer(cache, job[i].pair)

\* A newer pair is handed over: saved, and served unless it has too little life
\* left, in which case it is refreshed in its turn.
TakeOver(i) ==
    /\ Trying(i) /\ Newer(cache, job[i].pair)
    /\ file' = [file EXCEPT ![i] = cache]
    /\ \/ Returns(i, cache)
       \/ /\ job' = [job EXCEPT ![i].pair = cache, ![i].attempts = @ + 1]
          /\ UNCHANGED seat
    /\ UNCHANGED << backend, reload, lock, cache, live, issued, excused >>

\* redis: GET creds and SET NX are two commands, with other calls in between.
Look(i) ==
    /\ backend = "redis" /\ Trying(i) /\ ~Newer(cache, job[i].pair)
    /\ Goes(i, "looked")
    /\ UNCHANGED << backend, file, seat, reload, lock, cache, live, issued, excused >>

TakeLockThatIsHeld(i) ==                                                 \* variant
    /\ MayLock(i)
    /\ lock' = i
    /\ job' = [job EXCEPT ![i].pc = "calling", ![i].leased = TRUE]
    /\ UNCHANGED << backend, file, seat, reload, cache, live, issued, excused >>
TakeLock(i) ==
    /\ MayLock(i) /\ lock = Nobody
    /\ lock' = i
    /\ job' = [job EXCEPT ![i].pc = "calling", ![i].leased = TRUE]
    /\ UNCHANGED << backend, file, seat, reload, cache, live, issued, excused >>

FindLocked(i) ==
    /\ MayLock(i) /\ lock # Nobody
    /\ job' = [job EXCEPT ![i].pc = "acquiring", ![i].attempts = @ + 1]
    /\ UNCHANGED << backend, file, seat, reload, lock, cache, live, issued, excused >>

\* The service cannot be reached, or its answer is lost, which may have given
\* the lock: put off, or near expiry refresh without it.
LockCallLost(i) ==
    /\ Trying(i) \/ At(i, "looked")
    /\ lock' \in {lock} \cup IF MayLock(i) /\ lock = Nobody THEN {i} ELSE {}
    /\ Ends(i) \/ Goes(i, "calling")
    /\ UNCHANGED << backend, file, seat, reload, cache, live, issued, excused >>

GiveUp(i) ==
    /\ At(i, "acquiring") /\ job[i].attempts = MaxAttempts
    /\ Goes(i, "calling")
    /\ UNCHANGED << backend, file, seat, reload, lock, cache, live, issued, excused >>

-----------------------------------------------------------------------------
(* The refresh itself.                                                     *)

\* A failure is thrown; the lock, if it was taken, is released without a pair.
Fails(i) == IF job[i].leased THEN Goes(i, "failing") ELSE Ends(i)

\* Upstream refuses a pair that is not the live one, or is never reached.
Refused(i) ==
    /\ At(i, "calling")
    /\ Fails(i)
    /\ UNCHANGED << backend, file, seat, reload, lock, cache, live, issued, excused >>

\* Upstream issues the next pair; a refresh made without the lock tells nobody.
Rotate(i) ==
    LET g == job[i].pair.grant IN
    /\ At(i, "calling") /\ live[g] = job[i].pair.serial /\ issued < MaxSerial
    /\ issued' = issued + 1
    /\ live' = [live EXCEPT ![g] = issued + 1]
    /\ job' = [job EXCEPT ![i].pc = "rotated", ![i].pair.serial = issued + 1]
    /\ excused' = IF job[i].leased THEN excused ELSE excused \cup {g}
    /\ UNCHANGED << backend, file, seat, reload, lock, cache >>

\* The answer times out: nobody knows the new pair.
AnswerLost(i) ==
    /\ At(i, "rotated")
    /\ Fails(i)
    /\ excused' = excused \cup {job[i].pair.grant}
    /\ UNCHANGED << backend, file, seat, reload, lock, cache, live, issued >>

\* saveAccount writes whatever the file holds by now.
Save(i) ==
    /\ At(i, "rotated")
    /\ file' = [file EXCEPT ![i] = job[i].pair]
    /\ IF job[i].leased THEN Goes(i, "releasing") /\ UNCHANGED seat ELSE Returns(i, job[i].pair)
    /\ UNCHANGED << backend, reload, lock, cache, live, issued, excused >>

\* backfillIdentity: the record is saved again with what the profile says.
Identify(i) ==
    /\ At(i, "identifying")
    /\ \/ /\ file' = [file EXCEPT ![i] = job[i].pair]
          /\ seat' = [seat EXCEPT ![i] = job[i].pair]
       \/ UNCHANGED << file, seat >>
    /\ Ends(i)
    /\ UNCHANGED << backend, reload, lock, cache, live, issued, excused >>

-----------------------------------------------------------------------------
(* release: only the lock's holder frees it and leaves its pair.           *)

MayReleaseAnybodys(i) == TRUE                                            \* variant
MayRelease(i) == lock = i

\* The worker stores the pair with the release; redis with a command after it.
HandOver(i) ==
    /\ At(i, "releasing")
    /\ IF ~MayRelease(i) THEN Returns(i, job[i].pair) /\ UNCHANGED << lock, cache >>
       ELSE /\ lock' = Nobody
            /\ IF backend = "worker"
               THEN cache' = job[i].pair /\ Returns(i, job[i].pair)
               ELSE Goes(i, "caching") /\ UNCHANGED << cache, seat >>
    /\ UNCHANGED << backend, file, reload, live, issued, excused >>

StoreHandOver(i) ==
    /\ At(i, "caching")
    /\ cache' = job[i].pair
    /\ Returns(i, job[i].pair)
    /\ UNCHANGED << backend, file, reload, lock, live, issued, excused >>

\* The call is lost: the pair stays here, the lock until its TTL.
HandOverLost(i) ==
    /\ At(i, "releasing")
    /\ Returns(i, job[i].pair)
    /\ excused' = excused \cup {job[i].pair.grant}
    /\ UNCHANGED << backend, file, reload, lock, cache, live, issued >>

ReleaseFailed(i) ==
    /\ At(i, "failing")
    /\ lock' \in {lock} \cup IF MayRelease(i) THEN {Nobody} ELSE {}
    /\ Ends(i)
    /\ UNCHANGED << backend, file, seat, reload, cache, live, issued, excused >>

\* The TTL is up.  The holder's refresh is 15 s at most and the TTL 20 s, so one
\* that is still in flight is an excuse.
LeaseExpires ==
    /\ lock # Nobody
    /\ lock' = Nobody
    /\ excused' = IF job[lock].leased /\ job[lock].pc \in {"calling", "rotated", "releasing"}
                  THEN excused \cup {job[lock].pair.grant} ELSE excused
    /\ UNCHANGED << backend, file, seat, reload, job, cache, live, issued >>

-----------------------------------------------------------------------------
(* The operator, and the process.                                          *)

\* A login on instance i, by the admin API or the CLI: a new grant is saved.
Login(i) ==
    \E g \in Grants :
        /\ live[g] = 0 /\ \A h \in Grants : h < g => live[h] # 0
        /\ issued < MaxSerial
        /\ issued' = issued + 1
        /\ live' = [live EXCEPT ![g] = issued + 1]
        /\ file' = [file EXCEPT ![i] = [grant |-> g, serial |-> issued + 1]]
        /\ reload' = [reload EXCEPT ![i] = TRUE]
        /\ UNCHANGED << backend, seat, job, lock, cache, excused >>

Remove(i) ==
    /\ i \in Removers /\ file[i] # NoPair
    /\ file' = [file EXCEPT ![i] = NoPair]
    /\ reload' = [reload EXCEPT ![i] = TRUE]
    /\ UNCHANGED << backend, seat, job, lock, cache, live, issued, excused >>

\* onAccountsChanged: the pool is reconciled with the accounts directory.
Reconcile(i) ==
    /\ reload[i]
    /\ seat' = [seat EXCEPT ![i] = file[i]]
    /\ reload' = [reload EXCEPT ![i] = FALSE]
    /\ UNCHANGED << backend, file, job, lock, cache, live, issued, excused >>

\* The process dies and starts again from its file.  A release the service is
\* already working on is not undone.
Restart(i) ==
    /\ ~At(i, "caching")
    /\ seat' = [seat EXCEPT ![i] = file[i]]
    /\ reload' = [reload EXCEPT ![i] = FALSE]
    /\ Ends(i)
    /\ excused' = IF job[i].pc \in {"rotated", "releasing"}
                  THEN excused \cup {job[i].pair.grant} ELSE excused
    /\ UNCHANGED << backend, file, lock, cache, live, issued >>

Peek(i) == PeekAnswered(i) \/ AdoptSeat(i) \/ PeekLost(i)
Acquire(i) == TakeOver(i) \/ Look(i) \/ TakeLock(i) \/ FindLocked(i) \/ LockCallLost(i) \/ GiveUp(i)
Refresh(i) == Refused(i) \/ Rotate(i) \/ AnswerLost(i) \/ Save(i) \/ Identify(i)
Release(i) == HandOver(i) \/ StoreHandOver(i) \/ HandOverLost(i) \/ ReleaseFailed(i)
Job(i) == Peek(i) \/ NotDue(i) \/ Due(i) \/ Acquire(i) \/ Refresh(i) \/ Release(i)

Next ==
    \/ \E i \in Instances :
          Tick(i) \/ Job(i) \/ Login(i) \/ Remove(i) \/ Reconcile(i) \/ Restart(i)
    \/ LeaseExpires

RefreshSpec == Init /\ [][Next]_vars

\* The timer fires and every call ends, by its deadline if not before; the
\* service does not stay out of reach for ever.
FairRefreshSpec ==
    /\ RefreshSpec
    /\ \A i \in Instances :
          /\ WF_vars(Tick(i)) /\ WF_vars(Job(i)) /\ WF_vars(Reconcile(i))
          /\ SF_vars(PeekAnswered(i))

-----------------------------------------------------------------------------
(* Properties.                                                             *)

\* Every variable keeps its type.
TypeOK ==
    /\ backend \in Backends
    /\ file \in [Instances -> Pairs]
    /\ seat \in [Instances -> Pairs]
    /\ reload \in [Instances -> BOOLEAN]
    /\ job \in [Instances -> Jobs]
    /\ lock \in Instances \cup {Nobody}
    /\ cache \in Pairs
    /\ live \in [Grants -> 0..MaxSerial]
    /\ issued \in Serials
    /\ excused \subseteq Grants

\* "Solved" (docs/multi-instance.md): a refresh made under the lock presents the
\* live refresh token of its grant, whoever rotated it last and however long
\* ago, unless a call was lost, a lease ran out, or a process died on the way.
LockedRefreshIsLive ==
    \A i \in Instances :
        At(i, "calling") /\ job[i].leased /\ job[i].pair.grant \notin excused =>
            live[job[i].pair.grant] = job[i].pair.serial

\* The same of the service whose acquire and release are one step each.
WorkerRefreshIsLive == backend = "worker" => LockedRefreshIsLive

\* Grants refreshed under the lock whose new pair is on its way to the service.
UnderWay ==
    { g \in Grants \ excused :
        \E i \in Instances :
            /\ job[i].leased /\ job[i].pc \in {"rotated", "releasing"}
            /\ job[i].pair.grant = g }

\* Instances that share the worker keep a token family: of all refreshes under
\* the lock each is handed over before the next is made, and the pair handed
\* over is live, unless a call was lost, a lease ran out or a process died
\* (docs/multi-instance.md, "Solved").
Family == INSTANCE TokenFamily WITH shared <- cache, underway <- UnderWay, broken <- excused
ImplementsFamily == Family!FamilySpec

\* An instance that takes over what the worker shares can refresh with it: it is
\* the live pair of its grant, unless its successor is on the way or the grant's
\* hand-over was broken.
WorkerSharesTheLivePair == backend = "worker" => Family!SharedIsLive

\* The pair the service hands over is never replaced by an older one, not even
\* by a holder whose lease was taken over.
CacheOnlyAdvances == [][backend = "worker" => ~Newer(cache, cache')]_vars

\* The tick's takeover of a peer's pair never moves the file or the seat back,
\* and brings neither back, whatever login, removal or refresh happened while
\* the answer was under way (adoptSharedCredentials, adoptPeerCredentials).
TakeoverOnlyAdvances ==
    [][ \A i \in Instances :
          /\ At(i, "peeking") /\ job'[i].pc = "adopting" =>
                ~Newer(file[i], file'[i]) /\ (file[i] = NoPair <=> file'[i] = NoPair)
          /\ At(i, "adopting") /\ job'[i].pc = "deciding" =>
                ~Newer(seat[i], seat'[i]) /\ (seat[i] = NoPair <=> seat'[i] = NoPair) ]_vars

\* "A newer login always beats an older one [...] The same order applies when an
\* instance adopts credentials" (CHANGELOG.md): what acquire hands over never
\* replaces the file of a login made since the call went out.
LoginNotOverwritten ==
    [][ \A i \in Instances :
          At(i, "acquiring") /\ file[i] # NoPair /\ file'[i] # NoPair =>
              ~Newer(file[i], file'[i]) ]_vars

\* An instance does not serve for ever with a pair a peer has replaced.
CatchesUp ==
    \A i \in Instances :
        Newer(cache, seat[i]) ~> ~Newer(cache, seat[i]) \/ seat[i] = NoPair
=============================================================================
