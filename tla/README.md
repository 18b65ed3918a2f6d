# TLA+ models of the hyper-util legacy client connection pool

The source is one file, `src/src/client/legacy/pool.rs`. Everything below
refers to its line numbers. Lines 829–1098 are unit tests.

## 1. Inventory

### Components and their state

| Component | Code | State | Operations that change state |
|---|---|---|---|
| Poolable / Reservation | 31–73 | is_open / can_share of each value | `reserve` (Unique or Shared), a connection closing |
| Idle entry, Expiration | 294–340, 582–585, 758–772 | `Idle { value, idle_at }` | `IdlePopper::pop`, `expires` |
| PoolInner | 78–103, 342–504 | `idle: K -> Vec<Idle>`, `waiters: K -> VecDeque<Sender>`, `connecting: Set<K>`, `idle_interval_ref`, the config | `put`, `connected`, `spawn_idle_interval`, `clean_waiters`, `clear_expired` |
| Pool | 24–29, 121–292, 506–512 | `Option<Arc<Mutex<PoolInner>>>` (None = disabled) | `new`, `checkout`, `connecting`, `pooled`, `reuse`, clone/drop |
| Checkout | 587–727 | key, Pool clone, `Option<Receiver>` | `poll` (idle probe, waiter), Drop |
| Pooled | 514–574 | value, key, WeakOpt | Drop (reinsert or discard) |
| Connecting | 729–756 | key, WeakOpt | `alpn_h2`, Drop (`connected`) |
| IdleTask | 774–813 | timer, duration, WeakOpt, beacon Receiver | `run`: select(beacon, sleep), `clear_expired` |
| WeakOpt | 105–107, 815–827 | `Option<Weak>` | `upgrade` |
| Error | 595–619 | none | none (formatting) |
| Unit tests | 829–1098 | a pool per test, its Checkouts and Pooled handles | scripts of `pooled`, drop, `checkout`, poll, sleep, `yield_now`, asserts |

### How they interact

One mutex guards `PoolInner`. A `Checkout` looks at the idle list under the
lock. If it finds nothing it queues a oneshot `Sender` in `waiters` and
parks on the `Receiver`. The client races this Checkout against a connect
attempt. The attempt holds a `Connecting` token, taken with
`Pool::connecting`. For HTTP/2 this token is the single-flight marker in
`connecting`. The attempt ends in `Pool::pooled`. Dropping a `Pooled` calls
`put`, which hands the value to the first live waiter (HTTP/1) or to every
live waiter (HTTP/2) before it appends anything to the idle list. Dropping a
`Connecting` token that still has a back-reference calls `connected`. This
removes the key from `connecting` and cancels every waiter of that key.
`Pooled`, `Connecting` and `IdleTask` refer back only through `WeakOpt`.
So the `PoolInner` lives exactly as long as the client's `Pool`, the
clones held by Checkouts and attempts, and the Arc that a dropping
`Pooled` upgrades to for its `put`. When it is dropped, the
`idle_interval_ref` Sender goes with it, and that stops the IdleTask.

### What is hard

- **Interleaving on a multi-threaded executor.** Checkout drops (the
  Receiver is dropped *before* the lock is taken, line 720), `put` from
  Pooled drops, attempts completing, connections closing and the IdleTask
  all run in any order.
- **Drop-time side effects.** Reinsertion, waiter cleanup and single-flight
  release all happen in `Drop`.
- **Mixed reservations.** Unique values must be exclusive. Shared values go
  to many waiters and stay in the idle list.
- **Time.** Strict expiry on a saturating difference. An IdleTask period of
  `max(timeout, MIN_CHECK)`.
- **Lifetime.** The IdleTask must stop when the pool goes away, even while
  it sleeps.

### What makes each component correct (the properties)

- PoolInner: the maps hold no empty list or queue, and no list exceeds the
  cap (`MapsWellFormed`). A value reaches the waiters before the idle list
  (`NoIdleWhileWaiting`). A key holds at most one HTTP/2 entry
  (`SharedIdleOnce`).
- Reservations: an HTTP/1 connection is never in two places
  (`UniqueExclusive`). An open HTTP/1 connection is discarded only for a
  reason the code intends: it expired in an idle list, the list was at
  the cap, its Pooled had no live pool to return to, or the Checkout it
  was sent to dropped its Receiver (`ConnLostOnlyForCause`, with the
  causes in `DiscardCause`).
- Waiter queue: an HTTP/1 value goes to the oldest live waiter, never
  past one queued ahead (`WaitersServedFifo`, spec.md §4.5).
- Connecting: single flight, and `connected` never runs twice for one
  token (`SingleFlight`).
- Checkout: what it yields is open and, when it comes from the idle list,
  unexpired (`CheckoutYieldsUsable`). Once a Pooled of its key is being
  put back, the oldest live waiter is served and resolves
  (`WaiterServedByPut`); a waiter no put or `connected` reaches stays
  parked, which the code allows. A waiter is canceled only when a token for its key
  ends without pooling a connection, and a value sent to it is never
  revoked (`WaiterOutcomeStable`).
- Idle list and IdleTask: an open, unexpired entry leaves its list only by
  being checked out (`UsableIdleKept`).
- The whole pool, for HTTP/1 connections, implements the lease discipline of
  `PoolLease` (`LeaseRefinement`), and for HTTP/2 connections the sharing
  discipline of `PoolShare` (`ShareRefinement`).
- Disabled Pool: nothing is ever kept (`DisabledKeepsNothing`).
- IdlePopper: the loop does what its declarative statement says
  (`PopMatchesSpec`).
- IdleTask: it terminates once the pool is gone (`IdleTaskStops`).
- The unit tests of `mod tests` pass against the model (`TestPasses`).

## 2. Modules

| Module | Models | Notes |
|---|---|---|
| `IdleList.tla` | `Expiration`, `IdlePopper::pop` (RECURSIVE, a literal translation of the loop), the retain closure of `clear_expired` | Pure operators. `IdlePopSpec` is the declarative reference that `pop` is checked against. |
| `Pool.tla` | PoolInner, Pool, Checkout, Pooled, Connecting, IdleTask, WeakOpt | Extends `IdleList`. Each locked critical section is one action. |
| `PoolLease.tla` | What the pool promises an exclusive connection: fresh → busy ⇄ idle → gone, handed out of the idle list only while open, never back from gone | Abstract. `Pool` implements it through `Lease == INSTANCE PoolLease WITH ...`. |
| `PoolShare.tla` | What the pool promises a multiplexable connection: kept from its establishment until let go for good, lent to Checkouts only while kept and open (or in the step that first keeps it), never again once gone | Abstract. `Pool` implements it through `Share == INSTANCE PoolShare WITH ...`. |
| `PoolTests.tla` | The eight tests of `mod tests`, `Pool::no_timer`, and the helpers `c`, `pool_no_timer`, `pool_max_idle_no_timer`, `Uniq`, `CanClose`, `PollOnce` | Each test is a script of `Pool` actions. `P(t) == INSTANCE Pool WITH ...` gives each test a pool with its own Config. |
| `MCIdleList.tla` | Enumerates idle lists for the check of `pop` | |
| `MCPool.tla` | Model values and symmetry for `Pool` | Used by all Pool runs. |

### How `Pool.tla` corresponds to the code

- Variables: `idle`, `waiters`, `connecting` and `intervalRef` are the
  fields of PoolInner. A map holds only the keys that are present, as the
  HashMaps do. `waiters[k]` is the queue of Checkouts whose Sender is
  queued. `chk[c]` is a Checkout: its state, its key, its Receiver `rx`
  ("pending", "canceled" or the value sent on it) and what it yielded.
  `att[a]` is a connect attempt and its Connecting token (`ref` says
  whether the WeakOpt is Some). `pooled` is the set of live Pooled handles.
  `releasing` is the set of Pooled handles being dropped that passed the
  `is_open` check and the `upgrade`, and wait for the lock.
  `open` is `is_open`. `task` and `deadline` are the IdleTask.
  `assertFailed` records the `debug_assert!` of `connected`.
- `put` is `PutOp` (with the waiter loop in `PutWaiters`) and `connected`
  is `ConnectedOp`/`Connected`. They are written as functions of the state
  they start from, so that `Pooled` (the Shared branch of `Pool::pooled`)
  can run `put` and then `connected` inside one step, as the code does
  under one lock.
- Actions: `StartConnecting` (`Pool::connecting`), `AlpnH2`,
  `ConnectFailed` (Drop for Connecting), `Pooled` (`Pool::pooled`, three
  branches), `DropPooled` and `PutPooled` (the two halves of Drop for
  Pooled: `is_open` and `upgrade` before the lock, `put` under it),
  `NewCheckout`, `PollCheckout` (poll without a
  waiter: `Checkout::checkout`), `PollDisabled`, `PollWaiter`,
  `DropCheckout` and `CleanWaiters` (the two halves of Drop for Checkout),
  `DropPool`, `CloseConn`, `Tick`, `IdleTaskTick` and `IdleTaskStop` (the
  two arms of the `select`).
- The environment follows hyper-util's client. An attempt started as
  `Http2`, or upgraded by `alpn_h2`, yields a multiplexable connection. Any
  other attempt yields an HTTP/1 connection. A caller needs the client's
  Pool to start a Checkout or an attempt.

### Abstractions

- A Checkout that resolves is dropped in the same step. Its Drop then has
  no waiter to clean, and all it does is release a Pool clone.
- Identical HTTP/2 Pooled handles are one element of the `pooled` set.
  Their Drop has no back-reference, so it never touches the pool.
- A failed `send` to a waiter happens when the Receiver is dropped between
  `is_canceled` and `send`. That has the same effect as a canceled Sender,
  or as a delivered value that the drop then discards. Both outcomes are
  reachable because the Receiver drop is a separate step.
- Lock poisoning and panics are not modelled.
- Time is an integer tick counter bounded by `MaxTime`.

### Refinement

`PoolLease.tla` abstracts each HTTP/1 connection to one of "fresh",
"busy", "idle" and "gone". A step may move several connections at once,
because one critical section can (a pop discards stale entries and
returns one). The moves are fresh→busy, busy⇄idle, and busy or idle →
gone. idle→busy requires the connection to be open. `Pool.tla` maps a
connection to:

- "fresh" while it is in `fresh`;
- "idle" while some idle list holds it;
- "busy" while a Pooled handle (live or being dropped) or a parked
  Checkout's Receiver holds it;
- "gone" otherwise.

`LeaseRefinement == Lease!Spec` is checked as a PROPERTY of the core run.
busy→idle does not require the connection to be open. Drop for Pooled
checks `is_open` before it takes the lock (line 556), so a connection
that closes in between is put into the idle list. The model keeps that
interleaving, and pop and `clear_expired` discard such entries later.

HTTP/2 connections are left out of that mapping, because a shared
connection is idle and handed out at the same time. `PoolShare.tla` is
their own abstraction. Each connection is "fresh", "kept" or "gone", and
`lent` is the set of clients it was handed to. `Pool.tla` maps a
multiplexable connection to "kept" while some idle list holds it. Its
`lent` set is the Checkouts whose Receiver got it (`rx`) or that popped
it (`got`). The allowed moves are:

- fresh→kept, with any set of clients lent in the same step. This is
  `pooled`'s Shared branch: `put` serves the waiters and keeps the value
  under one lock.
- fresh→gone with nothing lent. This is `put`'s dedup gate.
- kept→kept with more clients, only while the connection is open. This
  is pop, which pushes the entry back as it hands it out.
- kept→gone with nothing lent in that step.

`ShareRefinement == Share!Spec` is checked in the `sharing` run, which
has two multiplexable connections. A pop that reserves a shared entry as
Unique (the mutant `IdlePopTakesShared`) lends the connection and lets it
go in one step, and TLC finds that.

### A divergence from spec.md that needs no run

spec.md §4.5 says that a pending waiter "falls through to the synchronous
idle-probe". In the code, `ready!` returns `Pending` at line 702, so a
parked Checkout never probes the idle list again. The model follows the
code. `NoIdleWhileWaiting` shows why this does no harm: while a Sender is
live, its key has no idle entry.

## 3. Runs

| Run | Config | Bounds | Shows |
|---|---|---|---|
| `idle_pop` | `MCIdleList.cfg` | lists of ≤3 entries over 2 conns (1 shared), instants 0..2, every open pattern, timeout none/0/1 | `PopMatchesSpec`: the loop matches its declarative statement, including the strict and saturating expiry. The statement uses its own age rule, `WithinTimeout`, not `Expires`: the mutant `ExpiresAtTimeout` (`>=` for `>`) fails it |
| `core` | `MCPool.cfg` | 1 key, 2 HTTP/1 + 1 HTTP/2 conns, 2 Checkouts, 3 attempts, cap 2, timeout 1, MIN_CHECK 2, clock 0..2, timer on; symmetry over Checkouts, attempts, HTTP/1 conns (~1.4M states, ~2 min) | TypeOK, MapsWellFormed, UniqueExclusive, NoIdleWhileWaiting, SingleFlight, SharedIdleOnce, CheckoutYieldsUsable, WaiterOutcomeStable, UsableIdleKept, LeaseRefinement, WaitersServedFifo, ConnLostOnlyForCause |
| `disabled` | `MCPoolDisabled.cfg` | as core with max_idle_per_host = 0 | DisabledKeepsNothing |
| `liveness` | `MCPoolLive.cfg` | 1 Checkout, 2 attempts, cap 1, no symmetry | IdleTaskStops |
| `waiter_progress` | `MCPoolWaiter.cfg` | 2 Checkouts, 1 attempt, cap 1, no timer, no symmetry (16k states) | WaiterServedByPut |
| `two_keys` | `MCPoolTwoKeys.cfg` | 2 keys (symmetric), 2 Checkouts, 3 attempts, cap 1, clock 0..1 (~2.9M states, ~2 min) | SingleFlight, MapsWellFormed, NoIdleWhileWaiting, WaiterOutcomeStable per key |
| `sharing` | `MCPoolSharing.cfg` | as core, but with 1 HTTP/1 + 2 HTTP/2 conns; symmetry over the HTTP/2 conns (~1.35M states, ~2 min) | SharedIdleOnce, ShareRefinement |
| `unit_tests` | `MCPoolTests.cfg` | the eight tests, each with its own Config; 1 tick = 10 ms, usize::MAX as 100, MIN_CHECK 9 ticks (136 states) | TestPasses |
| `shared_key_mixed` | `MCPoolSharedKey.cfg` | as core | **violation** of SharedKeyHoldsOneIdle (spec.md §8) |
| `pooled_outlives_pool` | `MCPoolPooledAlive.cfg` | as liveness | **violation** of PooledKeepsInnerAlive (spec.md §3) |
| `round_trip_cap` | `MCPoolRoundTrip.cfg` | as liveness (cap 1) | **violation** of RoundTrip (spec.md §8) |

The bounds are chosen so that every interesting case happens:

- In `sharing`, a second HTTP/2 attempt for a key reaches `put` while the
  first connection is idle. The dedup gate then drops it (the mutant
  `PutOpNoDedup` shows the gate is what keeps `SharedIdleOnce`).

- Two Checkouts give a FIFO queue with a canceled Sender in front of a live
  one.
- Three attempts let an HTTP/2 attempt race another for the same key, and
  still leave one for HTTP/1.
- In `core` the cap of 2 refuses a put: the HTTP/2 connection is idle,
  one HTTP/1 connection is appended after it, and the second HTTP/1
  connection is then refused. In `two_keys` and `liveness` the cap is 1,
  and a second HTTP/1 value for a key is refused. `two_keys` checks
  `MapsWellFormed` there.
- In `two_keys` a token of one key ends while the other key has parked
  waiters.
- A timeout of 1 with a clock of 0..2 makes entries expire (age 2 > 1)
  while an entry of age exactly 1 stays usable. The properties state the
  age rule themselves (`WithinTimeout`), so an `Expires` that is early by
  one tick fails `UsableIdleKept`, and one late by one tick fails
  `CheckoutYieldsUsable`.
- MIN_CHECK 2 > timeout exercises the `max`.

Each property has a mutant in `PROJECT.json`. The mutant is a plausible
fault in the code it names, and TLC finds it. This shows the property can
fail.

**Finding (shared_key_mixed).** `put` applies its dedup gate only to
shareable values (line 344). An HTTP/1 connection for a key whose idle list
holds the HTTP/2 entry is appended after it. This happens whenever
HTTP/1 and HTTP/2 connections share a key (scheme and authority), which
ALPN allows. The trace is: attempt 1 is HTTP/1, attempt 2 is HTTP/2 to the
same key, attempt 2 is pooled, then attempt 1's Pooled is dropped. The
result is two idle entries. spec.md §8 states at most one.

**Finding (pooled_outlives_pool).** spec.md §3 says PoolInner is destroyed
when all strong Pool clones and Pooled-with-unique reservations drop.
`Pooled.pool` is a `WeakOpt` (line 518). In 4 states the client drops its
Pool while an HTTP/1 Pooled is out, with no Checkout or attempt alive.
PoolInner is then gone. The Pooled's Drop cannot upgrade, and it discards
the open connection (line 567).

**Finding (round_trip_cap).** spec.md §8 states the round-trip law:
`drop(pool.pooled(c(k), v))` followed by `pool.checkout(k)` yields `v`
when `v.is_open()`. `RoundTrip` states it on the step where the drop puts
`v`, when no live waiter can take it. With a cap of 1, a first HTTP/1
connection is put idle, a second is checked out from a new attempt and
dropped. `put` finds the list at `max_idle_per_host` (lines 388-391) and
discards the open second value; a checkout then yields the first. The law
holds only while the list is below the cap; the spec omits that
condition. Expiry needs no condition, since a put entry is fresh.

`ConnLostOnlyForCause` is the accounting that makes the cap discard an
intended one: `core` shows the four causes in `DiscardCause` are the only
ways an open HTTP/1 connection is lost.

### The unit tests against the model

`PoolTests.tla` replays each test of `mod tests` as a script of the
model's actions. The IdleTask may run between any two steps.
`TestPasses` holds: every assert holds where the test makes it, and
no `.await` or `assert!` of a test is stuck. That validates `Pool.tla`
against the code's own tests. The same replay also measures the tests:
of the project's code mutants, the unit tests catch four:

- the cap test in `HasRoomInclusive`;
- the MIN_CHECK floor in `IdleDurationNoMin`;
- removing an emptied queue in `CleanWaitersKeepsEmpty`;
- a Checkout that always parks in `PollCheckoutAlwaysWaits`.

They miss the other fifteen, which the model's properties catch. Those
are the faults in FIFO order, in single flight, in the Shared
reservation, in the waiter loop, in the `is_open` checks and in the
IdleTask's termination.

`test_pool_timer_removes_expired` assumes that one `yield_now` lets the
IdleTask, whose sleep is due, run before the last assert (its comment
shrugs at this). The model states that assumption as `Yield`, which waits
for `IdleTaskTick` to be disabled. On tokio's current-thread test runtime
the assumption holds, because `yield_now` defers the task until the
driver has been polled.

## 4. Fairness

Weak fairness is assumed for four things:

- `IdleTaskStop`. The executor runs the spawned task, and once the
  beacon's Sender is dropped the `select` is ready and stays ready.
- `PollWaiter(c)`. A oneshot send or Sender drop wakes the Checkout's
  task, and the executor polls it. Only the Checkout's own drop can
  disable the step.
- `CleanWaiters(c)`. The Drop of a Checkout runs `clean_waiters` on the
  same thread right after its Receiver is dropped.
- `PutPooled(h)`. The same holds for the Drop of a Pooled after its
  upgrade.

No other fairness is assumed. The pool gives a pending waiter progress
only once a put for its key is under way (`WaiterServedByPut`, which
needs the fairness of `PutPooled`, `PollWaiter` and `CleanWaiters`); a
waiter that no put or `connected` reaches waits, because the client races
a connect. Clients, peers and the
clock may also stop at any point.

## 5. Not modelled

- The `Error` type. Its three variants are the outcomes of the Checkout
  actions: `PollDisabled`, and `PollWaiter` on a closed value or a
  canceled Receiver. No property tells the variants apart, so they are
  not a model variable. `Display` is fixed strings, and `is_canceled` is
  a match on the variant.
- The `is_reused` / `is_pool_enabled` getters and Deref of Pooled. These
  are reads.
- Lock poisoning. The only panic under the lock the model can reach is
  the debug_assert in `connected`, and `SingleFlight` shows it never
  fires, so no later `lock()` finds the mutex poisoned.
- The tests' `KeyImpl` and `host_key`. A key is a model value.

## 6. Plan

Done:

- Sitting 1: `IdleList` and `Pool`, and the runs `idle_pop`, `core`,
  `disabled`, `liveness` (IdleTaskStops) and `shared_key_mixed`.
- Sitting 2:
  - the abstract `PoolLease` and `LeaseRefinement`;
  - Drop for Pooled split at the lock;
  - `WaiterOutcomeStable` and `UsableIdleKept`;
  - the `two_keys` run;
  - the `pooled_outlives_pool` finding.
- Sitting 3:
  - `ConnLostOnlyForCause` (connection accounting) and
    `WaitersServedFifo`;
  - the `round_trip_cap` finding;
- Sitting 4:
  - `PoolShare` and `ShareRefinement` (the `sharing` run);
  - `PoolTests`, which puts the unit tests under the model.

Next:

1. **The IdleTask's promptness.** This needs a clock that cannot pass a
   deadline while the task is runnable, an assumption on the executor that
   should be stated separately.
