# A specification of dario

dario is a local proxy between Anthropic clients and a pool of Claude seats
(OAuth grants). These TLA+ modules model the parts of it in which several things
happen at once: requests, timers, answers, logins, other instances. TLC checks
them on small instances and TLAPS proves what matters most for all of them.
Paths below are relative to the repository.

## The system

| Part | State | Operations | Hard because |
| --- | --- | --- | --- |
| Request queue, `src/request-queue.ts` | slots taken in all and per consumer, waiters, stall stamp | acquire, release, queue timeout | a waiter leaves by its timer or by a release; caps let waiters overtake |
| Account pool, `src/pool.ts` and the dispatch loop of `src/proxy.ts` | per seat: rate-limit reading, bucket parks, auth cool-down, grant | select, send, record the answer, fail over, retry, surface | answers of concurrent requests overwrite each other, and logins and removals land while a request is out |
| Gateway: the handler of `src/proxy.ts`, `overage-guard.ts`, `midstream.ts`, `shutdown-drain.ts` | halt, loopback legs, drain | front door, early release, resume by a leg, halt and clear, drain, restart | a request waits for a leg that needs a slot of the same queue |
| Token refresh: `accounts.ts`, `proxy.ts`, `redis-lock/server.mjs`, `cloudflare/refresh-lock/worker.mjs` | account file, pool entry, lock, shared credentials | tick, peek, acquire, refresh, save, release, login, removal, restart | refresh tokens are single-use; calls are lost, leases run out |
| Account registry, `account-sync.ts` | records, removal markers | publish, read, remove | a read made before a removal arrives after it |
| Shared pool state, `pool-sync.ts` | peers' readings | report, pull, adopt | late and reordered reports |
| Pending logins, `admin-api.ts` | one per alias | start, claim, drop | two pastes, two instances |
| Pacing, session rotation, sticky bindings | clocks and maps per seat | read, wait, write | state read before a wait and written after it |
| Keys, budgets, ledger | spend per key and day | check, record, flush | spend is recorded after the check |
| Codex pool, provider cool-down | as the account pool | as the account pool | as the account pool |

A request passes the gateway's front door, takes a queue slot, picks a seat,
waits out its pacing delay and is sent; its answer goes to the pool. The refresh
timer and the admin API change pool entries meanwhile. Instances meet only in the
lock service. Formatting, translation, the CLI, the TUI, the doctor and analytics
keep no state that interleaves. `PROJECT.json` lists every part and every hazard.

What makes each part correct: the counters are the holders and nobody who may run
waits (queue); a park is honoured, ends, and no eligible peer is left unasked
(pool); a slot is given back once, a halt bounds what still goes out, nothing
waits on itself (gateway); only a live refresh token is presented, a newer pair
wins, every replica catches up (refresh).

## Modules

- `RequestQueue`: one action per outcome of `acquire`, per effect of `release`,
  and the timer. Time is kept as capped ages.
- `SlotSemaphore`: what a queue of slots promises, over the holders and the line
  alone: nobody enters past somebody who may take the slot, a slot given back
  goes to the first who may. It has no counters, timers or stamps. `RequestQueue`
  implements it with `holders <- Held, line <- queue`.
- `SeatReading`: the predicates and updates of one seat's reading, as operators.
- `AccountPool`: EXTENDS `SeatReading`. One action per step between two awaits of
  the dispatch loop. An answer is applied by alias, as in the code. Which of
  several candidates is picked is left open, so every strategy is covered.
- `Gateway`: EXTENDS `RequestQueue` and composes it with the handler. A leg is a
  request of its own, named by `LegOf`.
- `TokenRefresh`: one action per call of an instance. A pair of tokens is its
  grant and a serial number that grows with each pair issued, as `expiresAt`
  does; "due" and "little life left" take both outcomes. The Worker serves each
  call in one step (a Durable Object handles storage steps of one call without
  another in between); redis takes two commands in acquire and in release.
- `TokenFamily`: what instances that share a lock service promise of a seat's
  tokens, over upstream's live pairs and the shared pair alone, without instances,
  calls, locks or leases: refreshes are handed over one at a time, each hands over
  the live pair, nothing older replaces it, and a broken grant is out of the
  family. `TokenRefresh` over the Worker implements it with `shared <- cache`,
  `underway <- UnderWay` (rotated under the lock, not released yet), `broken <- excused`.
- `MC*` name the finite instances, `*_proof` hold the theorems:
  `RequestQueue_proof` the queue's accounting, `RequestQueueOrder_proof` its order,
  stamp and semaphore, `Gateway_proof` the handler around it, `AccountPool_proof`
  the pool's types and predicates, `AccountPoolRouting_proof` what the router
  guarantees, `AccountPoolBounds_proof` sums and budgets over long behaviours,
  `TokenRefresh_proof` the refresh under the Worker's lock, `TokenFamily_proof`
  the family it implements.

Definitions marked "variant" are plausible faults of the definition that follows
them; no behaviour uses them, they show that the properties bite.

## Runs

| Run | Question and bounds |
| --- | --- |
| `queue_safety` | Five requests, two consumers and an anonymous one, two slots, two waiters, cap 1: enough for a waiter at its cap to be overtaken, for a full queue and for a timeout next to a release. Also that the queue implements `SlotSemaphore`. |
| `pool_readings` | One seat, two families, all headers, clock to 3 (a park, its end, one instant more), cool-downs of 1 and 2: the longer one outlasts a bucket's park. |
| `pool_routed` | Two seats, one request at a time, hard floor, logins and removals. One at a time because two at once refute the property: `pool_unparked`. |
| `pool_pinned` | Two seats, a pinned and a free client, one retry in place; fair. Also the budget of a request's failovers and retries. |
| `gateway_safety` | Three clients, a leg and the leg of a leg, two slots, halt, drain, restart; fair. Two levels are MAX_CONTINUATION_DEPTH. A cap of one makes a leg wait for its own request's consumer, the tightest circle there is. |
| `refresh` | Two instances and the Worker, two grants, four pairs. Four is what it takes for a late release to meet a newer shared pair. Also that the Worker shares the live pair, and that the instances implement `TokenFamily`. |
| `refresh_catches_up` | Two instances, both services, three pairs, one removal; fair. |
| `pool_unparked`, `pool_regrant`, `gateway_exit`, `refresh_redis`, `refresh_login` | One documented statement each that the code does not meet, below. |

Fairness. Pool: the pacing timer fires, the upstream deadline ends every wait, a
body ends (`Progress`). Gateway: upstream ends, the event loop takes the next
step of a resume, refusals are read (`Served`). Refresh: the interval fires, each
call has its `AbortSignal.timeout`, reconcile follows the operator's change, and
the service is not out of reach at every single peek (the one strong fairness).
Nothing is assumed of clients, operators, crashes or leases.

## Where code and documents differ

- `pool_unparked`: with two requests in flight, an answer without rate-limit
  headers un-parks a seat that a 429 parked (`docs/multi-account-pool.md:21`). A
  429 that is retried in place (`src/proxy.ts:6484`, the long-context one) does it
  with one request: the second answer un-parks what the first parked.
- `pool_regrant`: the answer to a request of the old grant parks or cools the new
  one (`docs/multi-account-pool.md:123`).
- `gateway_exit`: the drain counts slots; a stream between its own slot and its
  leg's has none, and is cut off (`CHANGELOG.md:767`).
- `refresh_redis`: release deletes the lock before it stores the pair, and acquire
  reads before it locks; a peer in between refreshes with a dead token
  (`CHANGELOG.md:90`, `docs/multi-instance.md:15`).
- `refresh_login`: what `acquire` hands over is saved without a comparison, over a
  login made meanwhile (`CHANGELOG.md:90`).

Seen while modelling or proving, without a run:

- The moment the local 429 names may be too early. `parkedUntil` is "the moment
  the pool can serve again without a probe" (`src/pool.ts:1448`). A seat parked by
  a bucket that then takes a cool-down from a 429 naming no window keeps both;
  `parkedUntil` names the bucket's reset, also when the cool-down ends later. The
  proof of `ParkedUntilHonest` failed there; a run with cool-downs of one instant
  had not shown it. The property excepts this case and claims the rest.
- A request whose seat is removed while its 429 is read fails, though the one
  seat left is eligible and untried: `selectExcluding` names no peer in a pool of
  one. `PeerTriedBeforeSurfacing` is stated of requests whose seat stays.
- A queue that drains by timeouts keeps its slow-wait announcement used up;
  requests already waiting for a slot are forwarded after a halt
  (`HaltBoundsBleed` states the bound that holds); a seat granted during a pinned
  request's flight may receive its failover; the identity back-fill brings a
  removed seat back.

## Proofs

Assumptions are the named ASSUMEs of the modules: finite sets of requests and
seats, limits in Nat, at least one slot in `Gateway`, legs that belong to one
request each, a non-window cool-down of at least one instant
(`NON_WINDOW_REJECTION_COOLDOWN_MS` is a minute). A theorem that assumes more says so.

**Queue.** `Inv` is TypeOK, QueueExact, SlotAccounting, CapsRespected and
WorkConserving together. They need each other: that a release may admit just one
waiter follows from no waiter having been admissible before it, and that needs
exact counters. `NoOvertaking` uses the same: a newcomer that takes a slot finds
everybody in line at a cap, and a release admits the first who is not.
`AnnouncedOncePerEpisode` needs `EpisodeInv`, which ties the announcement to its
flag. `QueueIsASemaphore` maps each action to a step of `SlotSemaphore`: the
counters decide as the holders would (`CountersDecide`), and from there the
waiter taken by `release` is the first that may be served.

**Gateway.** Every handler step is a queue step, none of the queue's, or a
restart; so the queue's invariant, its order and the semaphore carry over.
Whoever resumes has a leg. Slots given back early are counted once. A drain that
ends early leaves nobody queued, since with no slot taken any waiter could be
admitted. `HaltBoundsBleed` is carried by `HaltInv`: while a halt stands, the line
only loses members, so whoever is in it was in it at the start.
`HandlerUsesASemaphore` excepts the restart, which drops every slot at once.
`TheProxyIsNeverStuck` is the safety core of `RequestsEnd`: whenever somebody waits,
somebody's work goes on. It needs `ResumeInv`: who resumes holds no slot, so the
holder in front of a waiter is not waiting itself, and every set of requests that
wait for a leg has one whose leg is outside the set, since a leg is sent before it
waits for anything. Stated of sets, the absence of circles needs no induction over
the depth of the legs.

**Pool.** Types first, with a request in hand naming a seat. `ServesAgain` and
`ParkedUntilHonest` then hold of every typed state: each predicate that keeps a
seat away ends at an instant the seat states, the greatest of finitely many
instants exists, and below a hard floor a reading whose reset has passed is one
the floor lets through. The action properties rest on two lemmas that say all a
step may do: `EveryStepIsAReadingStep` (a grant that stays keeps its reading, or
gets an update or a rejection of it) and `EveryStepIsARequestStep`.
`PeerTriedBeforeSurfacing` also needs `TriedInv`, that a request on the wire has
tried its own seat: with another one untried the pool has two, and failover
looks. `PinHoldsWithoutLogins` assumes `MaxGrant = 1`: a seat granted in flight is
one the pinned request has not tried. `BurstCountsOnce` is the step of which
`StreakTakesTime` is the sum: `CoolDowns[n]`, what n failures sit out, exists and
grows by one cool-down at a time (`SumsExist`; the induction is in set form, a
finite set of counter-examples having a least element), and `PacedInv` compares it
with the time since the streak began. `RequestsCostABoundedNumberOfSteps` is the
safety core of `RequestsAnswered`: twice the untried seats and passes left, and one
for an answer still to come, is a budget that each step of the request lowers and
that nothing raises, no login, removal or other request's answer.

`RoutedAroundUntilReset` is refuted as it stands (`pool_unparked`).
`ShutSeatsAreLeftAlone` says what it takes: `Undisturbed` (no two requests are out
with one seat, and none is pinned) and `RefusedMovesOn` (no 429 is retried in
place). Under these, `ShutInv` holds: a seat whose window a 429 called exhausted
keeps a reading that every filter of the router turns down until the stated reset,
and nobody is with it but the request whose 429 it was. TLC checked it with two requests,
logins and removals first, and shows a counter-example when `RefusedMovesOn` is
dropped.

**Refresh.** That a refresh under the lock is live speaks of one moment and is not
inductive. `WorkerInv` follows the live pair of a grant: while nobody rotates,
each pair that could be refreshed with is live or older than what the service
hands out; from the rotation to the release only the holder's job has the live
pair, and the holder is never behind the service. Lost calls, crashes and leases
that run out excuse the grant they broke, no other. The invariant was checked by
TLC, on both services, before it was proved. `WorkerSharesLivePairs` reads off it
that the shared pair is live unless its successor is on the way.

`WorkerKeepsAFamily` is the refinement. Rotations, hand-overs, logins and failures
that take a rotated pair away are steps of `TokenFamily`; the rest, most of the
module, stutters. A rotation is in turn exactly when the lock protects it, and
then `WorkerInv` leaves nobody else with a pair under way; a hand-over of an
unbroken grant is the lock holder's, with the live pair, never behind the service.

Only model-checked:

- `RequestsEnd`, `RequestsAnswered`, `CatchesUp`: liveness under fairness, which
  the prover does not cover. The safety cores of the first two are theorems
  (`NeverStuck`, `BudgetOnlyFalls`).
- `RoutedAroundUntilReset` without the hypotheses above: `pool_routed` checks it for
  one request at a time.
- `PinStaysOnItsSeat` needs the assumption above; the run has no login either.
- Nothing is proved of the redis lock's refreshes: `refresh_redis` refutes it.

## Modelling assumptions and limits

After a shutdown signal no new connection is taken, legs included. A client
refused by the halt changes nothing and is left out. A process that dies has its
refresh received by upstream before its death or never. `TokenRefresh` keeps no
clock, and `excused` records when a lost call, a lease that ran out or a crash
broke a hand-over; its safety property makes no claim about that grant afterwards.

Not modelled: bodies, headers and their translation, the content spliced by a
mid-stream resume, warn mode of the guard, the fill-first strategy and sticky
bindings, and the parts `PROJECT.json` lists as not modelled, with the reason.

## Plan

1. `AccountRegistry` (publish, late reads, removal markers), composed with
   `TokenRefresh`; `PendingLogins` (claimed once); `PoolSync` over `SeatReading`.
2. `Pacing`, `StickyBindings`, `SessionRotation`, `ProviderCooldown`.
3. `KeysAndLedger`: budget check, recording, flush and crash; `CodexPool`;
   `StreamDrain` and the upstream deadline.
4. Proofs: for each new module its types and the invariants of its run; a
   peer-reading lemma for `PoolSync` on top of `EveryStepIsAReadingStep`.

The modules stay free of RECURSIVE operators so that they can be proved about.
New runs keep to two instances, two seats and at most three requests, and replace
a weaker run where one question can ask both.
