------------------------------ MODULE RateLimit ------------------------------
(***************************************************************************)
(* The token bucket of one client in one listener's limiter                *)
(* (src/src/rate_limit.rs): concurrent requests that read the clock, find  *)
(* or create the bucket and consume from it by compare-and-swap, the sweep *)
(* that drops buckets, and the registry that keeps a limiter while a route *)
(* table refers to it.                                                     *)
(*                                                                         *)
(* A stamp is a time modulo Wrap (2^32 in the code), so the age of a       *)
(* bucket is read from a wrapped difference.  clock is the time itself;    *)
(* like trueStamp and slack it is there for the properties and the bounds. *)
(* A bucket's shard is locked while a request consumes from it, so that    *)
(* neither the sweep nor an insert comes in between.                       *)
(***************************************************************************)
EXTENDS Integers, FiniteSets

CONSTANTS
    Asker,      \* the requests of the client
    Limits,     \* the configurations a listener may get: [rate, burst]
    Cost,       \* MILLITOKENS_PER_REQUEST
    Wrap,       \* 2^32: the stamps' modulus
    Backwards,  \* BACKWARDS_MS, half of it
    Stale,      \* STALE_MS, half of that
    Interval,   \* bound: time between sweeps
    Delay,      \* bound: a clock reading is used within this
    IdleUntil,  \* bound: the client's first request comes after this
    MaxClock    \* bound: time modelled

ASSUME RateAssumption ==
    /\ Limits # {} /\ IsFiniteSet(Limits) /\ \A l \in Limits : l.rate \in Nat /\ l.burst \in Nat
    /\ Cost \in Nat \ {0}
    /\ Wrap \in Nat /\ Backwards \in Nat /\ Stale \in Nat \ {0}
    /\ Interval \in Nat \ {0} /\ Delay \in Nat
    /\ IdleUntil \in Nat /\ MaxClock \in Nat
    /\ 2 * Backwards = Wrap
    /\ Stale + Interval + 3 * Delay < Backwards

VARIABLES
    clock,      \* milliseconds since the epoch, unwrapped
    limit,      \* rate and burst_mt
    refs,       \* route tables that hold the limiter
    cell,       \* the bucket: [stamp, tokens], or NoCell
    ask,        \* request -> its check
    sweep,      \* the sweeper: "no" or the readings it sweeps by
    swept,      \* when the last sweep read the clock
    trueStamp,  \* the time the bucket's stamp stands for
    slack       \* what an exact bucket, kept with the true time, would hold

rateVars == <<clock, limit, refs, cell, ask, sweep, swept, trueStamp, slack>>
ghosts   == <<trueStamp, slack>>

NoCell  == [stamp |-> 0, tokens |-> -1]
Resting == [pc |-> "rest", now |-> 0, limit |-> limit, cur |-> NoCell]
Smaller(a, b) == IF a < b THEN a ELSE b
Later(a, b)   == IF a < b THEN b ELSE a

MaxOf(S) == CHOOSE x \in S : \A y \in S : y <= x
MinOf(S) == CHOOSE x \in S : \A y \in S : x <= y
Rates    == {l.rate : l \in Limits}
Bursts   == {l.burst : l \in Limits}

\* What dropping a bucket may give away: a request that read the clock
\* before the sweep is stamped with it, a burst slower to refill than STALE
\* comes back full, and a check still uses the limits it read.
Gift == MaxOf(Rates) * Delay + (IF MaxOf(Bursts) > MinOf(Rates) * Stale THEN MaxOf(Bursts) - MinOf(Rates) * Stale ELSE 0)
        + MaxOf(Bursts) - MinOf(Bursts)

\* An exact bucket holds at most the burst, and what accrues while a request
\* stamped with its reading is on its way.
Cap == MaxOf(Bursts) + MaxOf(Rates) * Delay
-----------------------------------------------------------------------------
ElapsedUnchecked(now, last) == (now - last + Wrap) % Wrap

\* elapsed: the wrapped difference, -1 (None) when `now` is the older.
Elapsed(now, last) ==
    LET dt == (now - last + Wrap) % Wrap
    IN  IF dt < Backwards THEN dt ELSE -1

Refill(tokens, dt, l) == Smaller(tokens + dt * l.rate, l.burst)

ConsumedRewinding(b, now, l) ==
    LET filled == Refill(b.tokens, Later(0, Elapsed(now % Wrap, b.stamp)), l)
    IN  IF filled >= Cost
        THEN [granted |-> TRUE, cell |-> [stamp |-> now % Wrap, tokens |-> filled - Cost]]
        ELSE [granted |-> FALSE, cell |-> [stamp |-> now % Wrap, tokens |-> filled]]

\* consume's arithmetic: the bucket after a request that read the clock at
\* `now`, and whether it is granted.  The stamp never rewinds, and a denied
\* request keeps what had accrued.
Consumed(b, now, l) ==
    LET dt     == Elapsed(now % Wrap, b.stamp)
        stamp  == IF dt < 0 THEN b.stamp ELSE now % Wrap
        filled == IF dt < 0 THEN b.tokens ELSE Refill(b.tokens, dt, l)
    IN  IF filled >= Cost
        THEN [granted |-> TRUE, cell |-> [stamp |-> stamp, tokens |-> filled - Cost]]
        ELSE [granted |-> FALSE, cell |-> [stamp |-> stamp, tokens |-> filled]]

\* The first sighting since the last sweep starts from a full bucket.
Fresh(now, l) ==
    IF l.burst >= Cost
    THEN [granted |-> TRUE, cell |-> [stamp |-> now % Wrap, tokens |-> l.burst - Cost]]
    ELSE [granted |-> FALSE, cell |-> [stamp |-> now % Wrap, tokens |-> l.burst]]

\* What a finished check leaves: its bucket, and the history of it.
Books(r, outcome, stamped) ==
    /\ cell' = outcome.cell
    /\ trueStamp' = stamped
    /\ slack' = IF outcome.granted THEN slack - Cost ELSE slack
    /\ ask' = [ask EXCEPT ![r] = Resting]
    /\ UNCHANGED <<clock, limit, refs, sweep, swept>>
-----------------------------------------------------------------------------
\* check: the clock, then the limits, are read before the bucket is looked up.
Check(r) ==
    /\ ask[r].pc = "rest" /\ refs > 0
    /\ ask' = [ask EXCEPT ![r] = [pc |-> "look", now |-> clock, limit |-> limit, cur |-> NoCell]]
    /\ UNCHANGED <<clock, limit, refs, cell, sweep, swept, ghosts>>

\* buckets.get: the reference holds the shard from here to the swap.
Lookup(r) ==
    /\ ask[r].pc = "look"
    /\ ask' = [ask EXCEPT ![r].pc = IF cell = NoCell THEN "entry" ELSE "swap", ![r].cur = cell]
    /\ UNCHANGED <<clock, limit, refs, cell, sweep, swept, ghosts>>

Locked == \E r \in Asker : ask[r].pc = "swap"

\* entry(): another first request may have come first; the shard is held
\* exclusively, so its bucket is consumed from in one step.
Enter(r) ==
    /\ ask[r].pc = "entry" /\ ~Locked
    /\ IF cell = NoCell THEN Books(r, Fresh(ask[r].now, ask[r].limit), ask[r].now)
       ELSE Books(r, Consumed(cell, ask[r].now, ask[r].limit), Later(ask[r].now, trueStamp))

\* compare_exchange: a bucket that moved is looked at again.
Swap(r) ==
    /\ ask[r].pc = "swap"
    /\ \/ /\ ask[r].cur = cell
          /\ Books(r, Consumed(cell, ask[r].now, ask[r].limit), Later(ask[r].now, trueStamp))
       \/ /\ ask[r].cur # cell
          /\ ask' = [ask EXCEPT ![r].cur = cell]
          /\ UNCHANGED <<clock, limit, refs, cell, sweep, swept, ghosts>>
-----------------------------------------------------------------------------
\* sweep reads the clock and the limits, then looks at the buckets.
SweepReads ==
    /\ sweep.pc = "no"
    /\ sweep' = [pc |-> "yes", now |-> clock, limit |-> limit]
    /\ swept' = clock
    /\ UNCHANGED <<clock, limit, refs, cell, ask, ghosts>>

\* A bucket touched since is live; one that is full, or idle for too long to
\* be read much longer, carries nothing.
Kept(b, now, l) ==
    LET dt == Elapsed(now % Wrap, b.stamp)
    IN  b = NoCell \/ dt < 0 \/ (dt < Stale /\ Refill(b.tokens, dt, l) < l.burst)

\* retain, then the registry: a limiter no table refers to goes with its
\* buckets.
SweepRetains ==
    /\ sweep.pc = "yes" /\ ~Locked
    /\ sweep' = [sweep EXCEPT !.pc = "no"]
    /\ IF refs = 0
       THEN cell' = NoCell /\ trueStamp' = 0 /\ slack' = Cap
       ELSE IF Kept(cell, sweep.now, sweep.limit) THEN UNCHANGED <<cell, ghosts>>
       ELSE cell' = NoCell /\ trueStamp' = 0 /\ slack' = Smaller(Cap, slack + Gift)
    /\ UNCHANGED <<clock, limit, refs, ask, swept>>
-----------------------------------------------------------------------------
\* limiter_for: a table is built; the limits change in place and the buckets
\* stay.
BuildTable(l) ==
    /\ refs < 2
    /\ refs' = refs + 1
    /\ limit' = l
    /\ slack' = IF l = limit THEN slack ELSE Cap
    /\ UNCHANGED <<clock, cell, ask, sweep, swept, trueStamp>>

\* A request holds the table it was routed by.
DropTable ==
    /\ refs > 0
    /\ refs = 1 => \A r \in Asker : ask[r].pc = "rest"
    /\ refs' = refs - 1
    /\ UNCHANGED <<clock, limit, cell, ask, sweep, swept, ghosts>>

\* Readings are used within Delay, and sweeps are Interval apart.
Tick ==
    /\ clock < MaxClock
    /\ \A r \in Asker : ask[r].pc # "rest" => clock - ask[r].now < Delay
    /\ sweep.pc = "yes" => clock - sweep.now < Delay
    /\ clock - swept < Interval
    /\ clock' = clock + 1
    /\ slack' = Smaller(Cap, slack + MaxOf(Rates))
    /\ UNCHANGED <<limit, refs, cell, ask, sweep, swept, trueStamp>>

RateInit ==
    /\ clock = IdleUntil /\ limit \in Limits /\ refs = 1
    /\ cell = NoCell
    /\ ask = [r \in Asker |-> Resting]
    /\ sweep = [pc |-> "no", now |-> IdleUntil, limit |-> limit] /\ swept = IdleUntil
    /\ trueStamp = 0 /\ slack = Cap

RateNext ==
    \/ \E r \in Asker : Check(r) \/ Lookup(r) \/ Enter(r) \/ Swap(r)
    \/ SweepReads \/ SweepRetains
    \/ (\E l \in Limits : BuildTable(l)) \/ DropTable
    \/ Tick

RateSpec == RateInit /\ [][RateNext]_rateVars
-----------------------------------------------------------------------------
(* Properties. *)

\* The age of a bucket is always read as what it is, across the wrap of the
\* clock: it stays below half the modulus, for every request that may look
\* at it (STALE_MS, the sweep, elapsed).
AgesReadable ==
    cell # NoCell =>
        /\ cell.stamp = trueStamp % Wrap
        /\ trueStamp <= clock /\ clock - trueStamp < Backwards

\* In no stretch of time is a client granted more than its burst and what
\* accrues meanwhile, whatever order its requests read the clock and reach
\* the bucket in, across the wrap, lost swaps and dropped buckets (consume,
\* elapsed, sweep_at).
NeverOvergrants == slack >= 0

\* What a client is granted is bounded because the ages of its bucket are
\* read for what they are: both, across the wrap of the clock (rate_limit.rs,
\* consume, elapsed and sweep_at).
GrantsBounded == NeverOvergrants /\ AgesReadable
=============================================================================
