------------------------------ MODULE PoolTests ------------------------------
(***************************************************************************)
(* The unit tests of pool.rs (`mod tests`) replayed against Pool.  Each   *)
(* test is a script: a sequence of operation records.  `i` points at the  *)
(* next one, and one action per kind of operation takes it with the Pool  *)
(* action that models the code the test calls.  An "assert" record is a  *)
(* check of the test; it is taken without changing the pool.  The         *)
(* IdleTask, a task of its own on the executor, may run between any two  *)
(* operations.  A test passes when every assert holds where the test     *)
(* makes it and every other operation can be taken (an `.await` that     *)
(* never resolves, or a panicking `assert!`, leaves the script stuck).   *)
(*                                                                         *)
(* Each test builds its own pool, so Pool is instantiated with the Config *)
(* of the test being replayed.  A tick is 10 ms.  `sleep(d)` ends at least *)
(* d after an idle_at taken strictly earlier, so sleeping the timeout is  *)
(* one tick more than the timeout.                                        *)
(***************************************************************************)
EXTENDS Naturals, Sequences, TLC

CONSTANTS
    Tests,            \* names of the tests replayed in this run
    NoTimeout, NoKey, NoConn,
    Foo,              \* host_key("foo")
    V41, V5, V99,     \* Uniq(41), Uniq(5), Uniq(99); CanClose{57} is V41
    C1, C2,           \* Checkouts
    A1, A2, A3        \* connect attempts (tokens built by `c(key)`)

VARIABLES
    idle, waiters, connecting, intervalRef, poolHandle, chk, att, pooled,
    releasing, open, fresh, now, task, deadline, assertFailed,
    test,   \* the test being replayed
    i       \* index of its next operation

\* usize::MAX: no list comes near it.
UsizeMax == 100

\* MIN_CHECK, 90 ms.
MinCheckTicks == 9

\* The Config of each test's Pool::new: pool_no_timer and
\* pool_max_idle_no_timer use idle_timeout 100 ms and no timer.
NoTimerConfig(max) == [max |-> max, timeout |-> 10, timer |-> FALSE]

TestConfig ==
    [t \in Tests |->
        CASE t = "max_idle_per_host"     -> NoTimerConfig(2)
          [] t = "timer_removes_expired" -> [max |-> UsizeMax, timeout |-> 1,
                                             timer |-> TRUE]
          [] OTHER                       -> NoTimerConfig(UsizeMax)]

\* Uniq<T>: always open, reserve() is Unique, can_share() is FALSE.  The
\* test's CanClose is the same but closed, which a "close" step sets.
UniqValues == {V41, V5, V99}

P(t) == INSTANCE Pool WITH
        Keys <- {Foo}, Conns <- UniqValues, SharedConns <- {},
        Checkouts <- {C1, C2}, Attempts <- {A1, A2, A3},
        MaxIdle <- TestConfig[t].max, Timeout <- TestConfig[t].timeout,
        HasTimer <- TestConfig[t].timer,
        MinCheck <- MinCheckTicks, MaxTime <- 11

poolVars == <<idle, waiters, connecting, intervalRef, poolHandle, chk, att,
              pooled, releasing, open, fresh, now, task, deadline, assertFailed>>

testVars == <<test, i>>

-----------------------------------------------------------------------------
(* Helpers of `mod tests`.                                                 *)

\* `pool.pooled(c(key), v)` as a statement: a token without a
\* back-reference, Pool::pooled, and the returned Pooled dropped at once.
PooledDropped(a, v) ==
    <<[op |-> "connecting", a |-> a], [op |-> "pooled", a |-> a, v |-> v],
      [op |-> "drop", v |-> v], [op |-> "put", v |-> v]>>

\* pool_no_timer / pool_max_idle_no_timer: Pool::new, then no_timer.
NoTimerPool == <<[op |-> "no_timer"]>>

Sleep(n) == [j \in 1..n |-> [op |-> "sleep"]]

Check(what, n) == <<[op |-> "assert", what |-> what, n |-> n]>>

-----------------------------------------------------------------------------
(* The tests.                                                              *)

test_pool_checkout_smoke ==
    NoTimerPool \o PooledDropped(A1, V41)
    \o <<[op |-> "checkout", c |-> C1], [op |-> "poll", c |-> C1]>>
    \o Check("got", [c |-> C1, v |-> V41])

test_pool_checkout_returns_none_if_expired ==
    NoTimerPool \o PooledDropped(A1, V41) \o Sleep(11)
    \o <<[op |-> "checkout", c |-> C1], [op |-> "poll", c |-> C1]>>
    \o Check("pending", C1)

ThreePooled ==
    PooledDropped(A1, V41) \o PooledDropped(A2, V5) \o PooledDropped(A3, V99)

test_pool_checkout_removes_expired ==
    NoTimerPool \o ThreePooled \o Check("idle_len", 3) \o Sleep(11)
    \o <<[op |-> "checkout", c |-> C1], [op |-> "poll", c |-> C1]>>
    \o Check("idle_absent", 0)

test_pool_max_idle_per_host ==
    NoTimerPool \o ThreePooled \o Check("idle_len", 2)

\* Timeout 10 ms and MIN_CHECK 90 ms: a tick is 10 ms.
test_pool_timer_removes_expired ==
    ThreePooled \o Check("idle_len", 3) \o Sleep(3) \o Check("idle_len", 3)
    \o Sleep(7) \o <<[op |-> "yield"]>> \o Check("idle_absent", 0)

\* join polls the checkout first (it parks), then drops the Pooled.
test_pool_checkout_task_unparked ==
    NoTimerPool
    \o <<[op |-> "connecting", a |-> A1], [op |-> "pooled", a |-> A1, v |-> V41],
         [op |-> "checkout", c |-> C1], [op |-> "poll", c |-> C1],
         [op |-> "drop", v |-> V41], [op |-> "put", v |-> V41],
         [op |-> "poll", c |-> C1]>>
    \o Check("got", [c |-> C1, v |-> V41])

test_pool_checkout_drop_cleans_up_waiters ==
    NoTimerPool
    \o <<[op |-> "checkout", c |-> C1], [op |-> "checkout", c |-> C2],
         [op |-> "poll", c |-> C1]>> \o Check("waiters_len", 1)
    \o <<[op |-> "poll", c |-> C2]>> \o Check("waiters_len", 2)
    \o <<[op |-> "drop_checkout", c |-> C1], [op |-> "clean", c |-> C1]>>
    \o Check("waiters_len", 1)
    \o <<[op |-> "drop_checkout", c |-> C2], [op |-> "clean", c |-> C2]>>
    \o Check("waiters_absent", 0)

\* CanClose { closed: true }: it is closed before its Pooled drops.
pooled_drop_if_closed_doesnt_reinsert ==
    NoTimerPool
    \o <<[op |-> "connecting", a |-> A1], [op |-> "pooled", a |-> A1, v |-> V41],
         [op |-> "close", v |-> V41], [op |-> "drop", v |-> V41]>>
    \o Check("idle_absent", 0)

Script ==
    ("smoke" :> test_pool_checkout_smoke)
    @@ ("returns_none_if_expired" :> test_pool_checkout_returns_none_if_expired)
    @@ ("removes_expired" :> test_pool_checkout_removes_expired)
    @@ ("max_idle_per_host" :> test_pool_max_idle_per_host)
    @@ ("timer_removes_expired" :> test_pool_timer_removes_expired)
    @@ ("task_unparked" :> test_pool_checkout_task_unparked)
    @@ ("drop_cleans_up_waiters" :> test_pool_checkout_drop_cleans_up_waiters)
    @@ ("drop_if_closed" :> pooled_drop_if_closed_doesnt_reinsert)

-----------------------------------------------------------------------------
(* The code the tests call that Pool has no action for.                    *)

\* Pool::no_timer: asserts no interval was spawned, then sets
\* idle_interval_ref so that spawn_idle_interval never spawns one.
NoTimer(t) ==
    /\ P(t)!Enabled
    /\ ~intervalRef
    /\ intervalRef' = TRUE
    /\ UNCHANGED <<idle, waiters, connecting, poolHandle, chk, att, pooled,
                   releasing, open, fresh, now, task, deadline, assertFailed>>

\* Checkout::poll on an enabled pool: poll_waiter first, and with no
\* waiter the idle probe.  No test polls a disabled pool or re-polls a
\* Checkout whose Receiver is still pending.
Poll(t, c) == P(t)!PollWaiter(c) \/ P(t)!PollCheckout(c)

\* tokio::task::yield_now: the test assumes the executor has run the
\* IdleTask whose sleep is due.
Yield(t) == ~ENABLED P(t)!IdleTaskTick /\ UNCHANGED poolVars

-----------------------------------------------------------------------------
(* Replaying a script.                                                     *)

Current == Script[test][i]

Running == i <= Len(Script[test])

\* The operation e, as the Pool action that models it.
Do(t, e) ==
    \/ e.op = "no_timer" /\ NoTimer(t)
    \/ e.op = "connecting" /\ P(t)!StartConnecting(e.a, Foo, "Auto")
    \/ e.op = "pooled" /\ P(t)!Pooled(e.a, e.v)
    \/ e.op = "drop" /\ \E h \in pooled : h.conn = e.v /\ P(t)!DropPooled(h)
    \/ e.op = "put" /\ \E h \in releasing : h.conn = e.v /\ P(t)!PutPooled(h)
    \/ e.op = "close" /\ P(t)!CloseConn(e.v)
    \/ e.op = "sleep" /\ P(t)!Tick
    \/ e.op = "yield" /\ Yield(t)
    \/ e.op = "checkout" /\ P(t)!NewCheckout(e.c, Foo)
    \/ e.op = "poll" /\ Poll(t, e.c)
    \/ e.op = "drop_checkout" /\ P(t)!DropCheckout(e.c)
    \/ e.op = "clean" /\ P(t)!CleanWaiters(e.c)
    \/ e.op = "assert" /\ UNCHANGED poolVars

\* What an assert of the test checks.
Holds(e) ==
    CASE e.what = "idle_len"       -> Foo \in DOMAIN idle /\ Len(idle[Foo]) = e.n
      [] e.what = "idle_absent"    -> Foo \notin DOMAIN idle
      [] e.what = "waiters_len"    -> Foo \in DOMAIN waiters /\ Len(waiters[Foo]) = e.n
      [] e.what = "waiters_absent" -> Foo \notin DOMAIN waiters
      [] e.what = "got"            -> chk[e.n.c].st = "done" /\ chk[e.n.c].got = e.n.v
      [] e.what = "pending"        -> chk[e.n].st = "parked" /\ chk[e.n].rx = "pending"

TestInit ==
    /\ test \in Tests
    /\ \E t \in Tests : t = test /\ P(t)!Init
    /\ i = 1

Step ==
    /\ Running
    /\ \E t \in Tests : t = test /\ Do(t, Current)
    /\ i' = i + 1
    /\ UNCHANGED test

\* The IdleTask runs on its own whenever its sleep is due.
Background ==
    /\ \E t \in Tests : t = test /\ P(t)!IdleTaskTick
    /\ UNCHANGED testVars

TestNext == Step \/ Background

TestSpec == TestInit /\ [][TestNext]_<<poolVars, testVars>>

-----------------------------------------------------------------------------
\* Every test of `mod tests` passes against the model: in every
\* interleaving with the IdleTask, each assert of the test holds where it
\* is made, and each other operation (an `.await`, an `assert!` in
\* no_timer) can be taken.
TestPasses ==
    Running =>
        IF Current.op = "assert" THEN Holds(Current) ELSE ENABLED TestNext

=============================================================================
